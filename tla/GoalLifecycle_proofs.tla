------------------------- MODULE GoalLifecycle_proofs -------------------------
(***************************************************************************)
(* Proofs about GoalLifecycle, for any reports, titles and number of       *)
(* cycles.  The lemmas say what each service does to the links of one      *)
(* report and to the rows they point to; the theorems put the requests     *)
(* together.                                                               *)
(***************************************************************************)
EXTENDS GoalLifecycle, TLAPS

USE DEF NOT_STARTED, IN_PROGRESS, SUSPENDED, CLOSED, COMPLETE, ABSENT, GONE,
        DRAFT, SUBMITTED, NEEDS_ACTION, APPROVED, DELETED, NoLink

-----------------------------------------------------------------------------
\* What one transaction sees.
GoalDbs == [goals : [Goals -> GoalRows], objectives : [Objectives -> ObjectiveRows],
            reports : [Reports -> ReportStatuses], args : SUBSET (Reports \X Goals),
            selectedBefore : SUBSET (Reports \X Goals),
            aros : [Reports -> [Objectives -> Links]], ok : BOOLEAN]

\* What links point to is there, and the flags onAR count the links.
LinkedGoalsThere(db) ==
  \A r \in Reports, g \in Goals : <<r, g>> \in db.args =>
    /\ db.goals[g].status # ABSENT
    /\ db.reports[r] # DELETED => db.goals[g].status # GONE

LinkedObjectivesThere(db) ==
  \A r \in Reports, o \in Objectives : db.aros[r][o] # NoLink =>
    db.reports[r] # DELETED /\ db.objectives[o].status # ABSENT

ObjectivesFlagged(db) ==
  \A o \in Objectives : db.objectives[o].onAR <=> \E r \in Reports : db.aros[r][o] # NoLink

GoalsFlagged(db) ==
  \A g \in Goals : db.goals[g].status # GONE =>
    (db.goals[g].onAR <=> \E r \in Reports : <<r, g>> \in db.args)

Sound(db) ==
  /\ db \in GoalDbs
  /\ LinkedGoalsThere(db) /\ LinkedObjectivesThere(db)
  /\ ObjectivesFlagged(db) /\ GoalsFlagged(db)

\* The half of it that is about objectives.
ObjectivesSound(db) ==
  db \in GoalDbs /\ LinkedObjectivesThere(db) /\ ObjectivesFlagged(db)

\* A report is on one cycle, or it has no objectives, as an administrator made it.
Single(db, r) == \A g, h \in Goals : <<r, g>> \in db.args /\ <<r, h>> \in db.args => g = h

NoObjectives(db, r) == \A o \in Objectives : db.aros[r][o] = NoLink

ObjectivesFit(db, r) ==
  \A o \in Objectives : db.aros[r][o] # NoLink => <<r, o[1]>> \in db.args

OneCycle(db, r) ==
  /\ ObjectivesFit(db, r)
  /\ Single(db, r) \/ (NoObjectives(db, r) /\ db.reports[r] \in {DRAFT, DELETED})

Proper(db) == Sound(db) /\ \A r \in Reports : OneCycle(db, r)

\* No two cycles are open.
OneOpen(db) == \A g, h \in GoalsNotClosed(db) : g = h

\* The mark of approval on an objective says whether an approved report links it,
\* and its goal is marked then.
Linked(o, db) == \E s \in Reports : db.aros[s][o] # NoLink
Approved(o, db) == \E s \in Reports : db.reports[s] = APPROVED /\ db.aros[s][o] # NoLink

HasMark(g, db) ==
  /\ db.goals[g].status # ABSENT
  /\ db.goals[g].status = GONE \/ db.goals[g].onApprovedAR

Marked(db) ==
  \A o \in Objectives : db.objectives[o].status # ABSENT =>
    /\ db.objectives[o].onApprovedAR <=> Approved(o, db)
    /\ db.objectives[o].onApprovedAR => HasMark(o[1], db)

\* What a report made, a report links.
Used(db) ==
  \A o \in Objectives :
    db.objectives[o].status # ABSENT /\ db.objectives[o].via = "activityReport" => Linked(o, db)

Marks(db) == OneOpen(db) /\ Marked(db) /\ Used(db)

\* An approved report with objectives that is on a closed goal selected it before
\* a recorded change closed it.
Recorded(db) ==
  \A r \in Reports, g \in Goals :
    db.reports[r] = APPROVED /\ <<r, g>> \in db.args /\ db.goals[g].status = CLOSED
      => <<r, g>> \in db.selectedBefore \/ NoObjectives(db, r)

\* The inductive invariant.
Valid(db) == Proper(db) /\ Marks(db) /\ Recorded(db)

GoalInv == Valid(Db)

\* What a service may do that touches neither links nor the existence of rows.
Keeps(db, new) ==
  /\ new \in GoalDbs
  /\ new.ok => db.ok
  /\ new.reports = db.reports /\ new.args = db.args /\ new.aros = db.aros
  /\ db.selectedBefore \subseteq new.selectedBefore
  /\ \A g \in Goals : /\ new.goals[g].status = ABSENT <=> db.goals[g].status = ABSENT
                      /\ new.goals[g].status = GONE <=> db.goals[g].status = GONE
                      /\ new.goals[g].onAR = db.goals[g].onAR
  /\ \A o \in Objectives : /\ new.objectives[o].status = ABSENT <=> db.objectives[o].status = ABSENT
                           /\ new.objectives[o].onAR = db.objectives[o].onAR

\* The marks of approval, and who made an objective, stay.
SameMarks(db, new) ==
  /\ \A g \in Goals : new.goals[g].onApprovedAR = db.goals[g].onApprovedAR
  /\ \A o \in Objectives : /\ new.objectives[o].via = db.objectives[o].via
                           /\ new.objectives[o].onApprovedAR = db.objectives[o].onApprovedAR

\* Nothing but the statuses of objectives changes.
OnlyStatuses(db, new) == Keeps(db, new) /\ new.goals = db.goals /\ SameMarks(db, new)

\* The links of other reports stay, and so do the statuses of all reports.
OnlyLinksOf(r, db, new) ==
  /\ new.reports = db.reports
  /\ \A s \in Reports \ {r} :
       /\ new.aros[s] = db.aros[s]
       /\ \A g \in Goals : /\ <<s, g>> \in new.args <=> <<s, g>> \in db.args
                           /\ <<s, g>> \in db.selectedBefore => <<s, g>> \in new.selectedBefore

\* A row that keeps its status, its origin and the mark of approval.
SameGoal(g, db, new) ==
  /\ new.goals[g].status = db.goals[g].status
  /\ new.goals[g].onApprovedAR = db.goals[g].onApprovedAR

SameObjective(o, db, new) ==
  /\ new.objectives[o].status = db.objectives[o].status
  /\ new.objectives[o].via = db.objectives[o].via
  /\ new.objectives[o].onApprovedAR = db.objectives[o].onApprovedAR

-----------------------------------------------------------------------------
\* A goal that is neither missing nor deleted has one of the statuses.
LEMMA GoalStatusCases ==
  ASSUME NEW db \in GoalDbs, NEW g \in Goals
  PROVE  /\ db.goals[g] \in GoalRows
         /\ db.goals[g].status \in GoalStatuses
              <=> db.goals[g].status # ABSENT /\ db.goals[g].status # GONE
BY DEF GoalDbs, GoalRows, GoalStatuses

LEMMA KeepsSound ==
  ASSUME NEW db, NEW new, Sound(db), Keeps(db, new)
  PROVE  /\ Sound(new)
         /\ \A r \in Reports : OneCycle(db, r) => OneCycle(new, r)
<1>1. Sound(new)
  BY DEF Sound, Keeps, LinkedGoalsThere, LinkedObjectivesThere, ObjectivesFlagged, GoalsFlagged
<1>2. \A r \in Reports : OneCycle(db, r) => OneCycle(new, r)
  BY DEF Keeps, OneCycle, ObjectivesFit, Single, NoObjectives
<1> QED BY <1>1, <1>2

LEMMA KeepsTransitive ==
  ASSUME NEW a, NEW b, NEW c, Keeps(a, b), Keeps(b, c)
  PROVE  Keeps(a, c)
BY DEF Keeps

LEMMA OnlyLinksTransitive ==
  ASSUME NEW r \in Reports, NEW a, NEW b, NEW c, OnlyLinksOf(r, a, b), OnlyLinksOf(r, b, c)
  PROVE  OnlyLinksOf(r, a, c)
BY DEF OnlyLinksOf

LEMMA KeepsItself ==
  ASSUME NEW db \in GoalDbs
  PROVE  Keeps(db, db)
BY DEF Keeps

LEMMA SetObjectivesFacts ==
  ASSUME NEW db \in GoalDbs, NEW os, NEW f,
         \A o \in os \intersect Objectives : f[o] \in ObjectiveRows
  PROVE  LET new == SetObjectives(db, os, f)
         IN /\ new \in GoalDbs
            /\ new.goals = db.goals /\ new.reports = db.reports
            /\ new.args = db.args /\ new.aros = db.aros /\ new.ok = db.ok
            /\ new.selectedBefore = db.selectedBefore
            /\ \A o \in Objectives :
                 new.objectives[o] = IF o \in os THEN f[o] ELSE db.objectives[o]
BY DEF GoalDbs, SetObjectives

LEMMA RowIsTyped ==
  ASSUME NEW db \in GoalDbs, NEW o \in Objectives
  PROVE  db.objectives[o] \in ObjectiveRows
BY DEF GoalDbs

LEMMA NoObjectiveType == NoObjective \in ObjectiveRows
BY DEF NoObjective, ObjectiveRows

LEMMA SetStatusFacts ==
  ASSUME NEW db \in GoalDbs, NEW os, NEW status \in ObjectiveStatuses,
         os \subseteq LiveObjectives(db)
  PROVE  OnlyStatuses(db, SetStatus(db, os, status))
<1> DEFINE f == [o \in os |-> [db.objectives[o] EXCEPT !.status = status]]
           new == SetStatus(db, os, status)
<1>1. \A o \in os \intersect Objectives : f[o] \in ObjectiveRows
  BY RowIsTyped DEF ObjectiveRows
<1>2. \A o \in os : /\ f[o].status # ABSENT /\ f[o].onAR = db.objectives[o].onAR
                    /\ f[o].via = db.objectives[o].via
                    /\ f[o].onApprovedAR = db.objectives[o].onApprovedAR
  BY RowIsTyped DEF ObjectiveRows, ObjectiveStatuses, LiveObjectives
<1>3. new = SetObjectives(db, os, f)
  BY DEF SetStatus
<1> HIDE DEF f, new
<1>4. /\ new \in GoalDbs /\ new.ok = db.ok
      /\ new.goals = db.goals /\ new.reports = db.reports
      /\ new.args = db.args /\ new.selectedBefore = db.selectedBefore /\ new.aros = db.aros
      /\ \A o \in Objectives : new.objectives[o] = IF o \in os THEN f[o] ELSE db.objectives[o]
  BY <1>1, <1>3, SetObjectivesFacts
<1>5. Keeps(db, new) /\ SameMarks(db, new)
  BY <1>2, <1>4 DEF Keeps, SameMarks, LiveObjectives
<1> QED BY <1>4, <1>5 DEF OnlyStatuses, new

LEMMA DestroyObjectivesFacts ==
  ASSUME NEW db \in GoalDbs, NEW os
  PROVE  LET new == DestroyObjectives(db, os)
         IN /\ new \in GoalDbs
            /\ new.goals = db.goals /\ new.reports = db.reports
            /\ new.args = db.args /\ new.aros = db.aros /\ new.ok = db.ok
            /\ new.selectedBefore = db.selectedBefore
            /\ \A o \in Objectives :
                 new.objectives[o] = IF o \in os THEN NoObjective ELSE db.objectives[o]
<1> DEFINE f == [o \in os |-> NoObjective]
<1>1. \A o \in os \intersect Objectives : f[o] \in ObjectiveRows
  BY NoObjectiveType
<1> QED BY <1>1, SetObjectivesFacts DEF DestroyObjectives

\* Objectives that no report links may be deleted.
LEMMA DestroyObjectivesSound ==
  ASSUME NEW db, NEW os, Sound(db),
         \A r \in Reports, o \in Objectives : o \in os => db.aros[r][o] = NoLink
  PROVE  Sound(DestroyObjectives(db, os))
<1> DEFINE new == DestroyObjectives(db, os)
<1>1. db \in GoalDbs
  BY DEF Sound
<1>2. /\ new \in GoalDbs /\ new.goals = db.goals /\ new.reports = db.reports
      /\ new.args = db.args /\ new.selectedBefore = db.selectedBefore /\ new.aros = db.aros
      /\ \A o \in Objectives :
           new.objectives[o] = IF o \in os THEN NoObjective ELSE db.objectives[o]
  BY <1>1, DestroyObjectivesFacts
<1>3. NoObjective.onAR = FALSE
  BY DEF NoObjective
<1> HIDE DEF new
<1>4. LinkedGoalsThere(new) /\ LinkedObjectivesThere(new)
  BY <1>2 DEF Sound, LinkedGoalsThere, LinkedObjectivesThere
<1>5. ObjectivesFlagged(new)
  BY <1>2, <1>3 DEF Sound, ObjectivesFlagged
<1>6. GoalsFlagged(new)
  BY <1>2 DEF Sound, GoalsFlagged
<1> QED BY <1>2, <1>4, <1>5, <1>6 DEF Sound, new

LEMMA DestroyGoalsFacts ==
  ASSUME NEW db \in GoalDbs, NEW gs
  PROVE  LET new == DestroyGoals(db, gs)
         IN /\ new \in GoalDbs
            /\ new.objectives = db.objectives /\ new.reports = db.reports
            /\ new.args = db.args /\ new.aros = db.aros /\ new.ok = db.ok
            /\ new.selectedBefore = db.selectedBefore
            /\ \A g \in Goals :
                 IF g \in gs THEN new.goals[g].status = GONE ELSE new.goals[g] = db.goals[g]
<1>1. [NoGoal EXCEPT !.status = GONE] \in GoalRows
  BY DEF NoGoal, GoalRows
<1>2. [NoGoal EXCEPT !.status = GONE].status = GONE
  BY DEF NoGoal
<1> QED BY <1>1, <1>2 DEF GoalDbs, DestroyGoals

\* ... and goals that only deleted reports link.
LEMMA DestroyGoalsSound ==
  ASSUME NEW db, NEW gs, Sound(db),
         \A r \in Reports, g \in Goals :
           g \in gs /\ <<r, g>> \in db.args => db.reports[r] = DELETED
  PROVE  Sound(DestroyGoals(db, gs))
<1> DEFINE new == DestroyGoals(db, gs)
<1>1. db \in GoalDbs
  BY DEF Sound
<1>2. /\ new \in GoalDbs /\ new.objectives = db.objectives /\ new.reports = db.reports
      /\ new.args = db.args /\ new.selectedBefore = db.selectedBefore /\ new.aros = db.aros
      /\ \A g \in Goals :
           IF g \in gs THEN new.goals[g].status = GONE ELSE new.goals[g] = db.goals[g]
  BY <1>1, DestroyGoalsFacts
<1> HIDE DEF new
<1>3. LinkedGoalsThere(new) /\ LinkedObjectivesThere(new)
  BY <1>2 DEF Sound, LinkedGoalsThere, LinkedObjectivesThere
<1>4. ObjectivesFlagged(new)
  BY <1>2 DEF Sound, ObjectivesFlagged
<1>5. GoalsFlagged(new)
  BY <1>2 DEF Sound, GoalsFlagged
<1> QED BY <1>2, <1>3, <1>4, <1>5 DEF Sound, new

-----------------------------------------------------------------------------
\* A row with its flag onAR written.
LEMMA GoalFlagWritten ==
  ASSUME NEW row \in GoalRows, NEW flag \in BOOLEAN
  PROVE  LET new == [row EXCEPT !.onAR = flag]
         IN /\ new \in GoalRows /\ new.status = row.status /\ new.onAR = flag
            /\ new.onApprovedAR = row.onApprovedAR
BY DEF GoalRows

LEMMA ObjectiveFlagWritten ==
  ASSUME NEW row \in ObjectiveRows, NEW flag \in BOOLEAN
  PROVE  LET new == [row EXCEPT !.onAR = flag]
         IN /\ new \in ObjectiveRows /\ new.status = row.status /\ new.onAR = flag
            /\ new.via = row.via /\ new.onApprovedAR = row.onApprovedAR
BY DEF ObjectiveRows

\* Links go, and the flags of what they pointed to are counted again.
LEMMA DestroyARGsFacts ==
  ASSUME NEW db, Sound(db), NEW r \in Reports, NEW gs \in SUBSET Goals
  PROVE  LET new == DestroyARGs(db, r, gs)
         IN /\ Sound(new)
            /\ new.objectives = db.objectives /\ new.aros = db.aros
            /\ new.args = db.args \ ({r} \X gs)
            /\ new.selectedBefore = db.selectedBefore \ ({r} \X gs)
            /\ OnlyLinksOf(r, db, new)
            /\ \A g \in Goals : SameGoal(g, db, new)
<1> DEFINE new == DestroyARGs(db, r, gs)
           left == db.args \ ({r} \X gs)
           before == db.selectedBefore \ ({r} \X gs)
           touched == {g \in gs : <<r, g>> \in db.args}
           Flagged(g) == [db.goals[g] EXCEPT !.onAR = \E s \in Reports : <<s, g>> \in left]
<1>1. db \in GoalDbs
  BY DEF Sound
<1>2. \A g \in Goals : /\ db.goals[g] \in GoalRows
                       /\ Flagged(g) \in GoalRows
                       /\ Flagged(g).status = db.goals[g].status
                       /\ Flagged(g).onApprovedAR = db.goals[g].onApprovedAR
                       /\ Flagged(g).onAR = (\E s \in Reports : <<s, g>> \in left)
  <2> TAKE g \in Goals
  <2>1. db.goals[g] \in GoalRows
    BY <1>1 DEF GoalDbs
  <2> DEFINE flag == \E s \in Reports : <<s, g>> \in left
  <2>2. flag \in BOOLEAN
    OBVIOUS
  <2> HIDE DEF flag
  <2>3. /\ [db.goals[g] EXCEPT !.onAR = flag] \in GoalRows
        /\ [db.goals[g] EXCEPT !.onAR = flag].status = db.goals[g].status
        /\ [db.goals[g] EXCEPT !.onAR = flag].onAR = flag
        /\ [db.goals[g] EXCEPT !.onAR = flag].onApprovedAR = db.goals[g].onApprovedAR
    BY <2>1, <2>2, GoalFlagWritten
  <2> QED BY <2>1, <2>3 DEF flag
<1>3. /\ new \in GoalDbs
      /\ new.objectives = db.objectives /\ new.aros = db.aros /\ new.reports = db.reports
      /\ new.args = left /\ new.selectedBefore = before
      /\ \A g \in Goals : new.goals[g] = IF g \in touched THEN Flagged(g) ELSE db.goals[g]
  <2> HIDE DEF Flagged
  <2>1. new = [db EXCEPT !.args = left, !.selectedBefore = before, !.goals = [g \in Goals |->
                 IF g \in touched THEN Flagged(g) ELSE db.goals[g]]]
    BY <1>1 DEF DestroyARGs, GoalDbs, Flagged
  <2> HIDE DEF new, left, before, touched
  <2>2. left \subseteq Reports \X Goals /\ before \subseteq Reports \X Goals
    BY <1>1 DEF GoalDbs, left, before
  <2> QED BY <1>1, <1>2, <2>1, <2>2 DEF GoalDbs
<1> HIDE DEF new, Flagged
<1>4. \A s \in Reports, g \in Goals :
        /\ <<s, g>> \in left <=> <<s, g>> \in db.args /\ ~(s = r /\ g \in gs)
        /\ s # r /\ <<s, g>> \in db.selectedBefore => <<s, g>> \in before
  OBVIOUS
<1>5. \A g \in Goals : new.goals[g].status = db.goals[g].status
  BY <1>2, <1>3
<1>6. LinkedGoalsThere(new) /\ LinkedObjectivesThere(new) /\ ObjectivesFlagged(new)
  BY <1>3, <1>4, <1>5 DEF Sound, LinkedGoalsThere, LinkedObjectivesThere, ObjectivesFlagged
<1>7. GoalsFlagged(new)
  <2> SUFFICES ASSUME NEW g \in Goals, db.goals[g].status # GONE
               PROVE  new.goals[g].onAR <=> \E s \in Reports : <<s, g>> \in left
    BY <1>3, <1>5 DEF GoalsFlagged
  <2>1. CASE g \in touched
    BY <2>1, <1>2, <1>3
  <2>2. CASE g \notin touched
    BY <2>2, <1>3, <1>4 DEF Sound, GoalsFlagged
  <2> QED BY <2>1, <2>2
<1>8. OnlyLinksOf(r, db, new)
  BY <1>3, <1>4 DEF OnlyLinksOf
<1>9. \A g \in Goals : SameGoal(g, db, new)
  BY <1>2, <1>3 DEF SameGoal
<1> QED BY <1>3, <1>6, <1>7, <1>8, <1>9 DEF Sound, new

AROsGone(r, os, db, new) ==
  /\ new.goals = db.goals /\ new.args = db.args /\ new.selectedBefore = db.selectedBefore
  /\ \A o \in Objectives :
       /\ new.aros[r][o] = IF o \in os THEN NoLink ELSE db.aros[r][o]
       /\ SameObjective(o, db, new)
  /\ OnlyLinksOf(r, db, new)

LEMMA DestroyAROsObjectives ==
  ASSUME NEW db, ObjectivesSound(db), NEW r \in Reports, NEW os \in SUBSET Objectives
  PROVE  /\ ObjectivesSound(DestroyAROs(db, r, os))
         /\ AROsGone(r, os, db, DestroyAROs(db, r, os))
<1> DEFINE new == DestroyAROs(db, r, os)
           left == [db EXCEPT !.aros[r] = [o \in Objectives |-> IF o \in os THEN NoLink ELSE @[o]]]
           touched == os \intersect ReportObjectives(db, r)
           f == [o \in Objectives |-> [db.objectives[o] EXCEPT
                   !.onAR = ObjectiveReports(left, o, ReportStatuses) # {}]]
<1>1. db \in GoalDbs
  BY DEF ObjectivesSound
<1>2. /\ left \in GoalDbs
      /\ left.goals = db.goals /\ left.objectives = db.objectives
      /\ left.reports = db.reports /\ left.args = db.args /\ left.selectedBefore = db.selectedBefore
      /\ \A s \in Reports \ {r} : left.aros[s] = db.aros[s]
      /\ \A o \in Objectives : left.aros[r][o] = IF o \in os THEN NoLink ELSE db.aros[r][o]
  BY <1>1 DEF GoalDbs, Links
<1> HIDE DEF left
<1>3. \A o \in Objectives : /\ f[o] \in ObjectiveRows
                            /\ f[o].status = db.objectives[o].status
                            /\ f[o].via = db.objectives[o].via
                            /\ f[o].onApprovedAR = db.objectives[o].onApprovedAR
                            /\ f[o].onAR <=> \E s \in Reports : left.aros[s][o] # NoLink
  <2>1. \A o \in Objectives : ObjectiveReports(left, o, ReportStatuses) # {}
                                <=> \E s \in Reports : left.aros[s][o] # NoLink
    BY <1>2 DEF ObjectiveReports, GoalDbs
  <2>2. \A o \in Objectives : (ObjectiveReports(left, o, ReportStatuses) # {}) \in BOOLEAN
    OBVIOUS
  <2> TAKE o \in Objectives
  <2> DEFINE flag == ObjectiveReports(left, o, ReportStatuses) # {}
  <2>3. f[o] = [db.objectives[o] EXCEPT !.onAR = flag]
    OBVIOUS
  <2>4. db.objectives[o] \in ObjectiveRows /\ flag \in BOOLEAN
    BY <1>1, <2>2, RowIsTyped
  <2>5. flag <=> \E s \in Reports : left.aros[s][o] # NoLink
    BY <2>1
  <2> HIDE DEF flag, f
  <2> QED BY <2>3, <2>4, <2>5, ObjectiveFlagWritten
<1>4. new = SetObjectives(left, touched, f)
  BY DEF DestroyAROs, left
<1> HIDE DEF f, new
<1>5. /\ new \in GoalDbs
      /\ new.goals = db.goals /\ new.reports = db.reports /\ new.args = db.args
      /\ new.selectedBefore = db.selectedBefore
      /\ new.aros = left.aros
      /\ \A o \in Objectives : new.objectives[o] = IF o \in touched THEN f[o] ELSE db.objectives[o]
  BY <1>2, <1>3, <1>4, SetObjectivesFacts
<1>6. \A o \in Objectives : SameObjective(o, db, new)
  BY <1>3, <1>5 DEF SameObjective
<1>7. \A s \in Reports, o \in Objectives : left.aros[s][o] # NoLink => db.aros[s][o] # NoLink
  BY <1>2
<1>8. LinkedObjectivesThere(new)
  BY <1>5, <1>6, <1>7 DEF ObjectivesSound, LinkedObjectivesThere, SameObjective
<1>9. ObjectivesFlagged(new)
  <2> SUFFICES ASSUME NEW o \in Objectives
               PROVE  new.objectives[o].onAR <=> \E s \in Reports : left.aros[s][o] # NoLink
    BY <1>5 DEF ObjectivesFlagged
  <2>1. CASE o \in touched
    BY <2>1, <1>3, <1>5
  <2>2. CASE o \notin touched
    <3>1. \A s \in Reports : left.aros[s][o] # NoLink <=> db.aros[s][o] # NoLink
      BY <2>2, <1>2 DEF ObjectivesSound, LinkedObjectivesThere, ReportObjectives, LiveObjectives
    <3> QED BY <2>2, <3>1, <1>5 DEF ObjectivesSound, ObjectivesFlagged
  <2> QED BY <2>1, <2>2
<1>10. OnlyLinksOf(r, db, new)
  BY <1>2, <1>5 DEF OnlyLinksOf
<1> QED BY <1>2, <1>5, <1>6, <1>8, <1>9, <1>10 DEF ObjectivesSound, AROsGone, new

LEMMA DestroyAROsFacts ==
  ASSUME NEW db, Sound(db), NEW r \in Reports, NEW os \in SUBSET Objectives
  PROVE  /\ Sound(DestroyAROs(db, r, os))
         /\ AROsGone(r, os, db, DestroyAROs(db, r, os))
<1> DEFINE new == DestroyAROs(db, r, os)
<1>1. ObjectivesSound(new) /\ AROsGone(r, os, db, new)
  BY DestroyAROsObjectives DEF Sound, ObjectivesSound
<1> HIDE DEF new
<1>2. LinkedGoalsThere(new) /\ GoalsFlagged(new)
  BY <1>1 DEF AROsGone, OnlyLinksOf, Sound, LinkedGoalsThere, GoalsFlagged
<1>3. Sound(new)
  BY <1>1, <1>2 DEF Sound, ObjectivesSound
<1> QED BY <1>1, <1>3 DEF new

-----------------------------------------------------------------------------
\* What the clean-ups delete is linked by no report any more.
\* An objective that a report made is kept because it is marked or linked.
Wanted(o, db) ==
  db.objectives[o].status # ABSENT /\ db.objectives[o].via = "activityReport"
    => db.objectives[o].onApprovedAR \/ Linked(o, db)

LEMMA RemoveObjectivesFacts ==
  ASSUME NEW db, Sound(db), NEW r \in Reports, NEW os \in SUBSET Objectives,
         \A o \in os : db.aros[r][o] = NoLink
  PROVE  LET new == RemoveObjectivesFromReport(db, os, r)
         IN /\ Sound(new)
            /\ new.goals = db.goals /\ new.args = db.args /\ new.aros = db.aros
            /\ new.selectedBefore = db.selectedBefore
            /\ new.reports = db.reports
            /\ \A o \in Objectives :
                 \/ new.objectives[o] = db.objectives[o] /\ (o \in os => Wanted(o, db))
                 \/ o \in os /\ new.objectives[o].status = ABSENT
<1> DEFINE D == {o \in os \intersect LiveObjectives(db) :
                   /\ db.objectives[o].via = "activityReport"
                   /\ ~db.objectives[o].onApprovedAR
                   /\ ObjectiveReports(db, o, NotDeleted) \ {r} = {}}
<1>1. db \in GoalDbs
  BY DEF Sound
<1>2. \A s \in Reports, o \in Objectives : o \in D => db.aros[s][o] = NoLink
  <2> SUFFICES ASSUME NEW s \in Reports, NEW o \in D, db.aros[s][o] # NoLink PROVE FALSE
    OBVIOUS
  <2>1. db.reports[s] \in NotDeleted
    BY <1>1 DEF Sound, LinkedObjectivesThere, GoalDbs, NotDeleted
  <2>2. s \in ObjectiveReports(db, o, NotDeleted) \ {r}
    BY <2>1 DEF ObjectiveReports
  <2> QED BY <2>2
<1>3. RemoveObjectivesFromReport(db, os, r) = DestroyObjectives(db, D)
  BY DEF RemoveObjectivesFromReport
<1>4. \A o \in os \ D : Wanted(o, db)
  BY DEF Wanted, Linked, LiveObjectives, ObjectiveReports
<1>5. D \subseteq os /\ NoObjective.status = ABSENT
  BY DEF NoObjective
<1> HIDE DEF D
<1> DEFINE new == DestroyObjectives(db, D)
<1>6. Sound(new)
  BY <1>1, <1>2, DestroyObjectivesSound
<1>7. /\ new.goals = db.goals /\ new.reports = db.reports
      /\ new.args = db.args /\ new.aros = db.aros /\ new.ok = db.ok
      /\ new.selectedBefore = db.selectedBefore
      /\ \A o \in Objectives : new.objectives[o] = IF o \in D THEN NoObjective ELSE db.objectives[o]
  BY <1>1, DestroyObjectivesFacts
<1> HIDE DEF new
<1>8. \A o \in Objectives : \/ new.objectives[o] = db.objectives[o] /\ (o \in os => Wanted(o, db))
                            \/ o \in os /\ new.objectives[o].status = ABSENT
  BY <1>4, <1>5, <1>7
<1> QED BY <1>3, <1>6, <1>7, <1>8 DEF new

\* What becomes of an objective when the report keeps those of os.
LeftOrRemoved(o, r, os, db, new) ==
  \/ SameObjective(o, db, new) /\ (o \in os \/ db.aros[r][o] = NoLink \/ Wanted(o, new))
  \/ o \notin os /\ db.aros[r][o] # NoLink /\ new.objectives[o].status = ABSENT

LEMMA RemoveUnusedObjectivesFacts ==
  ASSUME NEW db, Sound(db), NEW r \in Reports, NEW current
  PROVE  LET new == RemoveUnusedObjectives(db, r, current)
         IN /\ Sound(new)
            /\ new.goals = db.goals /\ new.args = db.args /\ new.selectedBefore = db.selectedBefore
            /\ \A o \in Objectives :
                 new.aros[r][o] = IF o \in current THEN db.aros[r][o] ELSE NoLink
            /\ OnlyLinksOf(r, db, new)
            /\ \A o \in Objectives : LeftOrRemoved(o, r, current, db, new)
<1> DEFINE gone == ReportObjectives(db, r) \ current
           left == DestroyAROs(db, r, gone)
           new  == RemoveObjectivesFromReport(left, gone, r)
<1>1. gone \subseteq Objectives
  BY DEF ReportObjectives, LiveObjectives
<1>2. \A o \in Objectives : o \in gone <=> db.aros[r][o] # NoLink /\ o \notin current
  BY DEF Sound, LinkedObjectivesThere, ReportObjectives, LiveObjectives
<1> HIDE DEF gone
<1>3. /\ Sound(left)
      /\ left.goals = db.goals /\ left.args = db.args /\ left.selectedBefore = db.selectedBefore
      /\ \A o \in Objectives : /\ left.aros[r][o] = IF o \in gone THEN NoLink ELSE db.aros[r][o]
                               /\ SameObjective(o, db, left)
      /\ OnlyLinksOf(r, db, left)
  BY <1>1, DestroyAROsFacts DEF AROsGone
<1> HIDE DEF left
<1>4. /\ Sound(new)
      /\ new.goals = left.goals /\ new.args = left.args /\ new.aros = left.aros
      /\ new.selectedBefore = left.selectedBefore
      /\ new.reports = left.reports
      /\ \A o \in Objectives :
           \/ new.objectives[o] = left.objectives[o] /\ (o \in gone => Wanted(o, left))
           \/ o \in gone /\ new.objectives[o].status = ABSENT
  BY <1>1, <1>3, RemoveObjectivesFacts
<1>5. RemoveUnusedObjectives(db, r, current) = new
  BY DEF RemoveUnusedObjectives, left, gone
<1> HIDE DEF new
<1>6. OnlyLinksOf(r, db, new)
  BY <1>3, <1>4 DEF OnlyLinksOf
<1>7. \A o \in Objectives : LeftOrRemoved(o, r, current, db, new)
  <2> SUFFICES ASSUME NEW o \in Objectives PROVE LeftOrRemoved(o, r, current, db, new)
    OBVIOUS
  <2>1. CASE new.objectives[o] = left.objectives[o] /\ (o \in gone => Wanted(o, left))
    <3>1. SameObjective(o, db, new) /\ (o \in gone => Wanted(o, new))
      BY <2>1, <1>3, <1>4 DEF SameObjective, Wanted, Linked
    <3> QED BY <3>1, <1>2 DEF LeftOrRemoved
  <2>2. CASE o \in gone /\ new.objectives[o].status = ABSENT
    BY <2>2, <1>2 DEF LeftOrRemoved
  <2> QED BY <2>1, <2>2, <1>4
<1> QED BY <1>2, <1>3, <1>4, <1>5, <1>6, <1>7

LEMMA RemoveUnusedGoalsFacts ==
  ASSUME NEW db, Sound(db), NEW r \in Reports, NEW gs \in SUBSET Goals,
         \A g \in gs : <<r, g>> \notin db.args
  PROVE  LET new == RemoveUnusedGoalsCreatedViaAr(db, gs, r)
         IN /\ Sound(new)
            /\ new.objectives = db.objectives /\ new.args = db.args /\ new.aros = db.aros
            /\ new.selectedBefore = db.selectedBefore
            /\ new.reports = db.reports
            /\ \A g \in Goals :
                 IF g \in gs THEN new.goals[g].status = GONE \/ new.goals[g] = db.goals[g]
                             ELSE new.goals[g] = db.goals[g]
<1> DEFINE D == {g \in gs \intersect LiveGoals(db) :
                   /\ db.goals[g].via = "activityReport"
                   /\ ~db.goals[g].onApprovedAR
                   /\ GoalReports(db, g, NotDeleted) \ {r} = {}
                   /\ ObjectivesOf(db, g) = {}}
<1>1. db \in GoalDbs
  BY DEF Sound
<1>2. \A s \in Reports, g \in Goals : g \in D /\ <<s, g>> \in db.args => db.reports[s] = DELETED
  <2> SUFFICES ASSUME NEW s \in Reports, NEW g \in D, <<s, g>> \in db.args,
                      db.reports[s] # DELETED
               PROVE FALSE
    OBVIOUS
  <2>1. db.reports[s] \in NotDeleted
    BY <1>1 DEF GoalDbs, NotDeleted
  <2>2. s \in GoalReports(db, g, NotDeleted) \ {r}
    BY <2>1 DEF GoalReports
  <2> QED BY <2>2
<1>3. RemoveUnusedGoalsCreatedViaAr(db, gs, r) = DestroyGoals(db, D)
  BY DEF RemoveUnusedGoalsCreatedViaAr
<1>4. D \subseteq gs
  OBVIOUS
<1> HIDE DEF D
<1> QED BY <1>1, <1>2, <1>3, <1>4, DestroyGoalsSound, DestroyGoalsFacts

Kept(r, gs, os, db, new) ==
  /\ Sound(new)
  /\ OnlyLinksOf(r, db, new)
  /\ \A g \in Goals :
       /\ <<r, g>> \in new.args <=> <<r, g>> \in db.args /\ g \in gs
       /\ g \in gs /\ <<r, g>> \in db.selectedBefore => <<r, g>> \in new.selectedBefore
  /\ \A o \in Objectives : /\ new.aros[r][o] = IF o \in os THEN db.aros[r][o] ELSE NoLink
                           /\ LeftOrRemoved(o, r, os, db, new)
  /\ \A g \in Goals : \/ SameGoal(g, db, new)
                      \/ <<r, g>> \in db.args /\ g \notin gs /\ new.goals[g].status = GONE

LEMMA KeepOnReportFacts ==
  ASSUME NEW db, Sound(db), NEW r \in Reports, NEW gs \in SUBSET Goals,
         NEW os \in SUBSET Objectives
  PROVE  Kept(r, gs, os, db, KeepOnReport(db, r, gs, os))
<1> DEFINE removed == {g \in Goals : <<r, g>> \in db.args} \ gs
           a == DestroyARGs(db, r, removed)
           b == RemoveUnusedObjectives(a, r, os)
           new == RemoveUnusedGoalsCreatedViaAr(b, removed, r)
<1>1. removed \subseteq Goals
  OBVIOUS
<1>2. KeepOnReport(db, r, gs, os) = new
  BY DEF KeepOnReport
<1> HIDE DEF removed
<1>3. /\ Sound(a)
      /\ a.aros = db.aros
      /\ a.args = db.args \ ({r} \X removed)
      /\ a.selectedBefore = db.selectedBefore \ ({r} \X removed)
      /\ OnlyLinksOf(r, db, a)
      /\ a.objectives = db.objectives
      /\ \A g \in Goals : SameGoal(g, db, a)
  BY <1>1, DestroyARGsFacts
<1>4. \A g \in Goals :
        /\ <<r, g>> \in a.args <=> <<r, g>> \in db.args /\ g \in gs
        /\ g \in gs /\ <<r, g>> \in db.selectedBefore => <<r, g>> \in a.selectedBefore
  BY <1>3 DEF removed
<1>5. \A g \in removed : <<r, g>> \notin a.args
  BY <1>1, <1>4 DEF removed
<1> HIDE DEF a
<1>6. /\ Sound(b)
      /\ b.goals = a.goals /\ b.args = a.args /\ b.selectedBefore = a.selectedBefore
      /\ \A o \in Objectives : /\ b.aros[r][o] = IF o \in os THEN a.aros[r][o] ELSE NoLink
                               /\ LeftOrRemoved(o, r, os, a, b)
      /\ OnlyLinksOf(r, a, b)
  BY <1>3, RemoveUnusedObjectivesFacts
<1> HIDE DEF b
<1>7. /\ Sound(new)
      /\ new.args = b.args /\ new.aros = b.aros /\ new.reports = b.reports
      /\ new.selectedBefore = b.selectedBefore
      /\ new.objectives = b.objectives
      /\ \A g \in Goals :
           IF g \in removed THEN new.goals[g].status = GONE \/ new.goals[g] = b.goals[g]
                            ELSE new.goals[g] = b.goals[g]
  BY <1>1, <1>5, <1>6, RemoveUnusedGoalsFacts
<1> HIDE DEF new
<1>8. OnlyLinksOf(r, db, new)
  BY <1>3, <1>6, <1>7 DEF OnlyLinksOf
<1>9. \A o \in Objectives : LeftOrRemoved(o, r, os, db, new)
  BY <1>3, <1>6, <1>7 DEF LeftOrRemoved, SameObjective, Wanted, Linked
<1>10. \A g \in Goals : \/ SameGoal(g, db, new)
                        \/ <<r, g>> \in db.args /\ g \notin gs /\ new.goals[g].status = GONE
  BY <1>3, <1>6, <1>7 DEF SameGoal, removed
<1>11. /\ \A g \in Goals :
            /\ <<r, g>> \in new.args <=> <<r, g>> \in db.args /\ g \in gs
            /\ g \in gs /\ <<r, g>> \in db.selectedBefore => <<r, g>> \in new.selectedBefore
       /\ \A o \in Objectives : new.aros[r][o] = IF o \in os THEN db.aros[r][o] ELSE NoLink
  BY <1>3, <1>4, <1>6, <1>7
<1> QED BY <1>2, <1>7, <1>8, <1>9, <1>10, <1>11 DEF Kept

-----------------------------------------------------------------------------
\* Rows and links that are made.
GoalAdded(g, db, new) ==
  /\ Sound(new)
  /\ new.objectives = db.objectives /\ new.args = db.args /\ new.selectedBefore = db.selectedBefore
  /\ new.aros = db.aros /\ new.reports = db.reports
  /\ new.goals[g].status = NOT_STARTED
  /\ \A h \in Goals \ {g} : new.goals[h] = db.goals[h]

LEMMA CreateGoalFacts ==
  ASSUME NEW db, Sound(db), NEW g \in Goals, db.goals[g].status = ABSENT,
         NEW via \in {"rtr", "activityReport", "admin"}
  PROVE  GoalAdded(g, db, CreateGoal(db, g, via))
<1> DEFINE row == [NoGoal EXCEPT !.status = NOT_STARTED, !.via = via]
           new == CreateGoal(db, g, via)
<1>1. db \in GoalDbs
  BY DEF Sound
<1>2. row \in GoalRows /\ row.status = NOT_STARTED /\ row.onAR = FALSE
  BY DEF NoGoal, GoalRows, GoalStatuses
<1> DEFINE fits == db.ok /\ GoalsNotClosed(db) = {}
<1>3. fits \in BOOLEAN
  BY <1>1 DEF GoalDbs
<1>4. new = [db EXCEPT !.goals[g] = row, !.ok = fits]
  BY <1>1 DEF CreateGoal, GoalDbs
<1> HIDE DEF row, fits, new
<1>5. /\ new \in GoalDbs
      /\ new.objectives = db.objectives /\ new.args = db.args
      /\ new.selectedBefore = db.selectedBefore
      /\ new.aros = db.aros /\ new.reports = db.reports
      /\ new.goals[g] = row
      /\ \A h \in Goals \ {g} : new.goals[h] = db.goals[h]
  BY <1>1, <1>2, <1>3, <1>4 DEF GoalDbs
<1>6. \A r \in Reports : <<r, g>> \notin db.args
  BY DEF Sound, LinkedGoalsThere
<1>7. LinkedGoalsThere(new) /\ LinkedObjectivesThere(new) /\ ObjectivesFlagged(new)
  BY <1>5, <1>6 DEF Sound, LinkedGoalsThere, LinkedObjectivesThere, ObjectivesFlagged
<1>8. GoalsFlagged(new)
  BY <1>2, <1>5, <1>6 DEF Sound, GoalsFlagged
<1> QED BY <1>2, <1>5, <1>7, <1>8 DEF Sound, GoalAdded, new

Unlinked(db, os) == \A r \in Reports, o \in os : db.aros[r][o] = NoLink

Added(db, os, via, new) ==
  /\ Sound(new)
  /\ new.goals = db.goals /\ new.args = db.args /\ new.selectedBefore = db.selectedBefore
  /\ new.aros = db.aros /\ new.reports = db.reports
  /\ \A o \in os : /\ new.objectives[o].status = NOT_STARTED
                   /\ new.objectives[o].via = via
                   /\ new.objectives[o].onApprovedAR = FALSE
  /\ \A o \in Objectives \ os : new.objectives[o] = db.objectives[o]

LEMMA CreateObjectivesFacts ==
  ASSUME NEW db, Sound(db), NEW os \in SUBSET Objectives,
         Unlinked(db, os), NEW via \in {"rtr", "activityReport"}
  PROVE  Added(db, os, via, CreateObjectives(db, os, via))
<1> DEFINE row == [NoObjective EXCEPT !.status = NOT_STARTED, !.via = via]
           f == [o \in os |-> row]
           new == CreateObjectives(db, os, via)
<1>1. db \in GoalDbs
  BY DEF Sound
<1>2. /\ row \in ObjectiveRows /\ row.status = NOT_STARTED /\ row.onAR = FALSE
      /\ row.via = via /\ row.onApprovedAR = FALSE
  BY DEF NoObjective, ObjectiveRows, ObjectiveStatuses
<1>3. new = SetObjectives(db, os, f)
  BY DEF CreateObjectives
<1>a. \A o \in os : f[o] = row
  OBVIOUS
<1>b. \A o \in os \intersect Objectives : f[o] \in ObjectiveRows
  BY <1>2
<1> HIDE DEF row, f, new
<1>4. /\ new \in GoalDbs
      /\ new.goals = db.goals /\ new.args = db.args /\ new.selectedBefore = db.selectedBefore
      /\ new.aros = db.aros /\ new.reports = db.reports
      /\ \A o \in Objectives : new.objectives[o] = IF o \in os THEN row ELSE db.objectives[o]
  BY <1>1, <1>3, <1>a, <1>b, SetObjectivesFacts
<1>5. \A r \in Reports, o \in os : db.aros[r][o] = NoLink
  BY DEF Unlinked
<1>6. LinkedGoalsThere(new) /\ GoalsFlagged(new)
  BY <1>4 DEF Sound, LinkedGoalsThere, GoalsFlagged
<1>7. LinkedObjectivesThere(new)
  BY <1>4, <1>5 DEF Sound, LinkedObjectivesThere
<1>8. ObjectivesFlagged(new)
  <2> SUFFICES ASSUME NEW o \in Objectives
               PROVE  new.objectives[o].onAR <=> \E r \in Reports : db.aros[r][o] # NoLink
    BY <1>4 DEF ObjectivesFlagged
  <2>1. CASE o \in os
    BY <2>1, <1>2, <1>4, <1>5
  <2>2. CASE o \notin os
    BY <2>2, <1>4 DEF Sound, ObjectivesFlagged
  <2> QED BY <2>1, <2>2
<1>9. /\ \A o \in os : /\ new.objectives[o].status = NOT_STARTED
                       /\ new.objectives[o].via = via
                       /\ new.objectives[o].onApprovedAR = FALSE
      /\ \A o \in Objectives \ os : new.objectives[o] = db.objectives[o]
  BY <1>2, <1>4
<1> QED BY <1>4, <1>6, <1>7, <1>8, <1>9 DEF Sound, Added, new

GoalLinked(r, g, db, new) ==
  /\ Sound(new)
  /\ new.objectives = db.objectives /\ new.aros = db.aros
  /\ new.selectedBefore = db.selectedBefore
  /\ OnlyLinksOf(r, db, new)
  /\ \A h \in Goals : <<r, h>> \in new.args <=> <<r, h>> \in db.args \/ h = g
  /\ \A h \in Goals : SameGoal(h, db, new)

LEMMA CacheGoalFacts ==
  ASSUME NEW db, Sound(db), NEW r \in Reports, NEW g \in Goals,
         db.goals[g].status \in GoalStatuses
  PROVE  GoalLinked(r, g, db, CacheGoalMetadata(db, r, g))
<1> DEFINE row == [db.goals[g] EXCEPT !.onAR = TRUE]
           new == CacheGoalMetadata(db, r, g)
<1>1. db \in GoalDbs
  BY DEF Sound
<1>2. /\ row \in GoalRows /\ row.status = db.goals[g].status /\ row.onAR = TRUE
      /\ row.onApprovedAR = db.goals[g].onApprovedAR
  BY <1>1, GoalFlagWritten DEF GoalDbs
<1>3. new = [db EXCEPT !.args = db.args \union {<<r, g>>}, !.goals[g] = row]
  BY <1>1 DEF CacheGoalMetadata, GoalDbs
<1> DEFINE linked == db.args \union {<<r, g>>}
<1>a. linked \subseteq Reports \X Goals
  BY <1>1 DEF GoalDbs
<1> HIDE DEF row, new, linked
<1>b. new = [db EXCEPT !.args = linked, !.goals[g] = row]
  BY <1>3 DEF linked
<1>4. /\ new \in GoalDbs
      /\ new.objectives = db.objectives /\ new.aros = db.aros /\ new.reports = db.reports
      /\ new.args = linked /\ new.selectedBefore = db.selectedBefore
      /\ new.goals[g] = row
      /\ \A h \in Goals \ {g} : new.goals[h] = db.goals[h]
  BY <1>1, <1>2, <1>a, <1>b DEF GoalDbs
<1>5. \A s \in Reports, h \in Goals :
        <<s, h>> \in new.args <=> <<s, h>> \in db.args \/ (s = r /\ h = g)
  BY <1>4 DEF linked
<1>6. \A h \in Goals : SameGoal(h, db, new)
  BY <1>2, <1>4 DEF SameGoal
<1>c. LinkedGoalsThere(new)
  BY <1>4, <1>5, <1>6 DEF Sound, LinkedGoalsThere, GoalStatuses, SameGoal
<1>7. LinkedObjectivesThere(new) /\ ObjectivesFlagged(new)
  BY <1>4 DEF Sound, LinkedObjectivesThere, ObjectivesFlagged
<1>8. GoalsFlagged(new)
  BY <1>2, <1>4, <1>5, <1>6 DEF Sound, GoalsFlagged, SameGoal
<1>9. OnlyLinksOf(r, db, new)
  BY <1>4, <1>5 DEF OnlyLinksOf
<1> QED BY <1>4, <1>5, <1>6, <1>7, <1>8, <1>9, <1>c DEF Sound, GoalLinked, new

ObjectivesLinked(r, os, db, new) ==
  /\ Sound(new)
  /\ new.goals = db.goals /\ new.args = db.args /\ new.selectedBefore = db.selectedBefore
  /\ OnlyLinksOf(r, db, new)
  /\ \A o \in Objectives \ os : new.aros[r][o] = db.aros[r][o]
  /\ \A o \in os : new.aros[r][o] # NoLink
  /\ \A o \in Objectives : \/ SameObjective(o, db, new)
                           \/ /\ o \in os /\ db.objectives[o].status = ABSENT
                              /\ new.objectives[o].onApprovedAR = FALSE

\* The objectives a save lists for the report, as titles of goal g.
Listed(g, want) == {o \in {g} \X Titles : want[o[2]] # NoLink}

LEMMA SaveObjectivesFacts ==
  ASSUME NEW db, Sound(db), NEW r \in Reports, NEW g \in Goals, NEW want \in [Titles -> Links],
         db.reports[r] # DELETED
  PROVE  ObjectivesLinked(r, Listed(g, want), db, SaveObjectives(db, r, g, want))
<1> DEFINE os == Listed(g, want)
           made == os \ LiveObjectives(db)
           saved == CreateObjectives(db, made, "activityReport")
           f == [o \in os |-> [saved.objectives[o] EXCEPT !.onAR = TRUE]]
           marked == SetObjectives(saved, os, f)
           Link(o) == StatusForActivityReportObjective(saved.objectives[o].status, want[o[2]])
           new == [marked EXCEPT !.aros[r] =
                     [o \in Objectives |-> IF o \in os THEN Link(o) ELSE @[o]]]
<1>1. os \subseteq Objectives /\ \A o \in os : want[o[2]] \in ObjectiveStatuses
  BY DEF Objectives, Links, Listed
<1>2. made \subseteq Objectives /\ \A o \in made : db.objectives[o].status = ABSENT
  BY <1>1 DEF LiveObjectives
<1>3. SaveObjectives(db, r, g, want) = new
  BY DEF SaveObjectives, Listed
<1>a. \A o \in os : f[o] = [saved.objectives[o] EXCEPT !.onAR = TRUE]
  OBVIOUS
<1> HIDE DEF made, f, marked, os
<1>4. /\ Sound(saved)
      /\ saved.goals = db.goals /\ saved.args = db.args /\ saved.selectedBefore = db.selectedBefore
      /\ saved.aros = db.aros /\ saved.reports = db.reports
      /\ \A o \in made : /\ saved.objectives[o].status = NOT_STARTED
                         /\ saved.objectives[o].onApprovedAR = FALSE
      /\ \A o \in Objectives \ made : saved.objectives[o] = db.objectives[o]
  <2>1. Unlinked(db, made)
    BY <1>2 DEF Unlinked, Sound, LinkedObjectivesThere
  <2>2. Added(db, made, "activityReport", saved)
    BY <1>2, <2>1, CreateObjectivesFacts
  <2> HIDE DEF saved
  <2> QED BY <2>2 DEF Added
<1>5. \A o \in os : saved.objectives[o].status \in ObjectiveStatuses
  <2>1. \A o \in Objectives : saved.objectives[o].status \in ObjectiveStatuses \union {ABSENT}
    BY <1>4, RowIsTyped DEF Sound, ObjectiveRows
  <2>2. \A o \in os \ made : db.objectives[o].status # ABSENT
    BY <1>1 DEF made, LiveObjectives
  <2> SUFFICES ASSUME NEW o \in os PROVE saved.objectives[o].status # ABSENT
    BY <1>1, <2>1
  <2> QED BY <1>1, <1>4, <2>2
<1> HIDE DEF saved
<1>6. \A o \in os : /\ f[o] \in ObjectiveRows
                    /\ f[o].status = saved.objectives[o].status
                    /\ f[o].via = saved.objectives[o].via
                    /\ f[o].onApprovedAR = saved.objectives[o].onApprovedAR
                    /\ f[o].onAR = TRUE
  <2>1. saved \in GoalDbs
    BY <1>4 DEF Sound
  <2>2. \A o \in os : saved.objectives[o] \in ObjectiveRows
    BY <1>1, <2>1, RowIsTyped
  <2> QED BY <1>a, <2>2 DEF ObjectiveRows
<1>7. /\ marked \in GoalDbs
      /\ marked.goals = saved.goals /\ marked.args = saved.args
      /\ marked.selectedBefore = saved.selectedBefore
      /\ marked.aros = saved.aros /\ marked.reports = saved.reports
      /\ \A o \in Objectives :
           marked.objectives[o] = IF o \in os THEN f[o] ELSE saved.objectives[o]
  <2>1. saved \in GoalDbs
    BY <1>4 DEF Sound
  <2> QED BY <1>1, <1>6, <2>1, SetObjectivesFacts DEF marked
<1>8. \A o \in os : Link(o) \in ObjectiveStatuses
  BY <1>1, <1>5 DEF StatusForActivityReportObjective
<1> HIDE DEF Link
<1>9. /\ new \in GoalDbs
      /\ new.goals = marked.goals /\ new.args = marked.args
      /\ new.selectedBefore = marked.selectedBefore
      /\ new.objectives = marked.objectives /\ new.reports = marked.reports
      /\ \A s \in Reports \ {r} : new.aros[s] = marked.aros[s]
      /\ \A o \in Objectives : new.aros[r][o] = IF o \in os THEN Link(o) ELSE marked.aros[r][o]
  <2> DEFINE links == [o \in Objectives |-> IF o \in os THEN Link(o) ELSE marked.aros[r][o]]
  <2>1. links \in [Objectives -> Links]
    BY <1>7, <1>8 DEF GoalDbs, Links
  <2>2. \A o \in Objectives : links[o] = IF o \in os THEN Link(o) ELSE marked.aros[r][o]
    OBVIOUS
  <2>3. new = [marked EXCEPT !.aros[r] = links]
    BY <1>7 DEF GoalDbs
  <2> HIDE DEF links, new
  <2> QED BY <1>7, <2>1, <2>2, <2>3 DEF GoalDbs
<1> HIDE DEF new
<1>10. LinkedGoalsThere(new) /\ GoalsFlagged(new)
  <2>1. new.goals = saved.goals /\ new.args = saved.args /\ new.reports = saved.reports
    BY <1>7, <1>9
  <2>2. LinkedGoalsThere(saved) /\ GoalsFlagged(saved)
    BY <1>4 DEF Sound
  <2> QED BY <2>1, <2>2 DEF LinkedGoalsThere, GoalsFlagged
<1>11. LinkedObjectivesThere(new)
  <2>1. LinkedObjectivesThere(saved)
    BY <1>4 DEF Sound
  <2>2. \A o \in os : new.objectives[o].status # ABSENT
    <3> SUFFICES ASSUME NEW o \in os PROVE new.objectives[o].status # ABSENT
      OBVIOUS
    <3>1. new.objectives[o].status = saved.objectives[o].status
      BY <1>1, <1>6, <1>7, <1>9
    <3> QED BY <1>5, <3>1 DEF ObjectiveStatuses
  <2>3. \A o \in Objectives \ os : /\ new.objectives[o] = saved.objectives[o]
                                   /\ \A s \in Reports : new.aros[s][o] = saved.aros[s][o]
    BY <1>7, <1>9
  <2>4. \A s \in Reports \ {r} : new.aros[s] = saved.aros[s]
    BY <1>7, <1>9
  <2>5. new.reports = saved.reports /\ new.reports[r] # DELETED
    BY <1>4, <1>7, <1>9
  <2> SUFFICES ASSUME NEW s \in Reports, NEW o \in Objectives, new.aros[s][o] # NoLink
               PROVE  new.reports[s] # DELETED /\ new.objectives[o].status # ABSENT
    BY DEF LinkedObjectivesThere
  <2>6. CASE o \in os
    BY <2>1, <2>2, <2>4, <2>5, <2>6 DEF LinkedObjectivesThere
  <2>7. CASE o \notin os
    BY <2>1, <2>3, <2>5, <2>7 DEF LinkedObjectivesThere
  <2> QED BY <2>6, <2>7
<1>12. ObjectivesFlagged(new)
  <2>1. \A o \in os : Link(o) # NoLink
    BY <1>8 DEF ObjectiveStatuses
  <2> SUFFICES ASSUME NEW o \in Objectives
               PROVE  new.objectives[o].onAR <=> \E s \in Reports : new.aros[s][o] # NoLink
    BY DEF ObjectivesFlagged
  <2>2. CASE o \in os
    BY <2>1, <2>2, <1>6, <1>7, <1>9
  <2>3. CASE o \notin os
    <3>1. \A s \in Reports : new.aros[s][o] = saved.aros[s][o]
      BY <2>3, <1>7, <1>9
    <3>2. new.objectives[o] = saved.objectives[o]
      BY <2>3, <1>7, <1>9
    <3>3. ObjectivesFlagged(saved)
      BY <1>4 DEF Sound
    <3> QED BY <3>1, <3>2, <3>3 DEF ObjectivesFlagged
  <2> QED BY <2>2, <2>3
<1>13. OnlyLinksOf(r, db, new)
  <2>1. marked.aros = db.aros /\ marked.args = db.args /\ marked.reports = db.reports
        /\ marked.selectedBefore = db.selectedBefore
    BY <1>4, <1>7
  <2> QED BY <1>9, <2>1 DEF OnlyLinksOf
<1>14. Sound(new)
  BY <1>9, <1>10, <1>11, <1>12 DEF Sound
<1>15. new.goals = db.goals /\ new.args = db.args /\ new.selectedBefore = db.selectedBefore
  BY <1>4, <1>7, <1>9
<1>16. \A o \in Objectives \ os : new.aros[r][o] = db.aros[r][o]
  <2>1. marked.aros = db.aros
    BY <1>4, <1>7
  <2> QED BY <1>9, <2>1
<1>17. \A o \in os : new.aros[r][o] # NoLink
  BY <1>1, <1>8, <1>9 DEF ObjectiveStatuses
<1>18. \A o \in Objectives : SameObjective(o, saved, new)
  BY <1>6, <1>7, <1>9 DEF SameObjective
<1>19. \A o \in Objectives : \/ SameObjective(o, db, new)
                             \/ /\ o \in os /\ db.objectives[o].status = ABSENT
                                /\ new.objectives[o].onApprovedAR = FALSE
  BY <1>2, <1>4, <1>18 DEF SameObjective, made
<1> QED BY <1>3, <1>13, <1>14, <1>15, <1>16, <1>17, <1>19 DEF os, ObjectivesLinked

\* The report is on the one goal afterwards, and its objectives are that goal's.
Saved(r, g, want, db, new) ==
  /\ Sound(new)
  /\ OnlyLinksOf(r, db, new)
  /\ \A h \in Goals : <<r, h>> \in new.args <=> h = g
  /\ <<r, g>> \in db.selectedBefore => <<r, g>> \in new.selectedBefore
  /\ \A o \in Objectives :
       /\ new.aros[r][o] # NoLink <=> o \in Listed(g, want)
       /\ \/ LeftOrRemoved(o, r, Listed(g, want), db, new)
          \/ /\ o \in Listed(g, want) /\ db.objectives[o].status = ABSENT
             /\ new.objectives[o].onApprovedAR = FALSE
  /\ \A h \in Goals : \/ SameGoal(h, db, new)
                      \/ <<r, h>> \in db.args /\ h # g /\ new.goals[h].status = GONE
                      \/ h = g /\ db.goals[h].status = ABSENT /\ new.goals[h].status = NOT_STARTED

LEMMA SaveGoalFacts ==
  ASSUME NEW db, Sound(db), NEW r \in Reports, NEW g \in Goals, NEW want \in [Titles -> Links],
         db.reports[r] # DELETED, db.goals[g].status # GONE
  PROVE  Saved(r, g, want, db, SaveGoal(db, r, g, want))
<1> DEFINE created == IF g \in LiveGoals(db) THEN db ELSE CreateGoal(db, g, "activityReport")
           cached  == CacheGoalMetadata(created, r, g)
           saved   == SaveObjectives(cached, r, g, want)
           os      == Listed(g, want)
           new     == KeepOnReport(saved, r, {g}, os)
<1>1. SaveGoal(db, r, g, want) = new
  BY DEF SaveGoal, Listed
<1>2. os \subseteq Objectives
  BY DEF Objectives, Listed
<1>3. /\ Sound(created)
      /\ created.args = db.args /\ created.aros = db.aros /\ created.reports = db.reports
      /\ created.selectedBefore = db.selectedBefore
      /\ created.objectives = db.objectives
      /\ created.goals[g].status \in GoalStatuses
      /\ \/ created.goals[g] = db.goals[g]
         \/ db.goals[g].status = ABSENT /\ created.goals[g].status = NOT_STARTED
      /\ \A h \in Goals \ {g} : created.goals[h] = db.goals[h]
  <2>1. CASE g \in LiveGoals(db)
    BY <2>1 DEF LiveGoals
  <2>2. CASE g \notin LiveGoals(db)
    <3>1. db.goals[g].status = ABSENT
      BY <2>2, GoalStatusCases DEF Sound, LiveGoals
    <3>2. "activityReport" \in {"rtr", "activityReport", "admin"}
      OBVIOUS
    <3>3. created = CreateGoal(db, g, "activityReport")
      BY <2>2
    <3>4. GoalAdded(g, db, created)
      BY <3>1, <3>2, <3>3, CreateGoalFacts
    <3> HIDE DEF created
    <3> QED BY <3>1, <3>4 DEF GoalAdded, GoalStatuses
  <2> QED BY <2>1, <2>2
<1> HIDE DEF created
<1>4. GoalLinked(r, g, created, cached)
  BY <1>3, CacheGoalFacts
<1> HIDE DEF cached
<1>5. Sound(cached) /\ cached.reports[r] # DELETED
  BY <1>3, <1>4 DEF GoalLinked, OnlyLinksOf
<1>6. ObjectivesLinked(r, os, cached, saved)
  BY <1>5, SaveObjectivesFacts
<1> HIDE DEF saved, os
<1>7. Kept(r, {g}, os, saved, new)
  BY <1>2, <1>6, KeepOnReportFacts DEF ObjectivesLinked
<1> HIDE DEF new
<1>8. OnlyLinksOf(r, db, new)
  <2>1. OnlyLinksOf(r, db, cached)
    BY <1>3, <1>4 DEF OnlyLinksOf, GoalLinked
  <2> QED BY <1>6, <1>7, <2>1, OnlyLinksTransitive DEF Kept, ObjectivesLinked
<1>9. /\ \A h \in Goals : <<r, h>> \in new.args <=> h = g
      /\ <<r, g>> \in db.selectedBefore => <<r, g>> \in new.selectedBefore
  BY <1>3, <1>4, <1>6, <1>7 DEF GoalLinked, ObjectivesLinked, Kept
<1>10. \A o \in Objectives : new.aros[r][o] # NoLink <=> o \in os
  BY <1>6, <1>7 DEF ObjectivesLinked, Kept
<1>11. \A o \in Objectives : \/ LeftOrRemoved(o, r, os, db, new)
                             \/ /\ o \in os /\ db.objectives[o].status = ABSENT
                                /\ new.objectives[o].onApprovedAR = FALSE
  <2> SUFFICES ASSUME NEW o \in Objectives
               PROVE  \/ LeftOrRemoved(o, r, os, db, new)
                      \/ /\ o \in os /\ db.objectives[o].status = ABSENT
                         /\ new.objectives[o].onApprovedAR = FALSE
    OBVIOUS
  <2>1. cached.objectives = db.objectives /\ cached.aros = db.aros
    BY <1>3, <1>4 DEF GoalLinked
  <2>2. LeftOrRemoved(o, r, os, saved, new)
    BY <1>7 DEF Kept
  <2>3. o \notin os => saved.aros[r][o] = db.aros[r][o]
    BY <1>6, <2>1 DEF ObjectivesLinked
  <2>4. CASE SameObjective(o, cached, saved)
    BY <2>1, <2>2, <2>3, <2>4 DEF LeftOrRemoved, SameObjective
  <2>5. CASE ~SameObjective(o, cached, saved)
    <3>1. /\ o \in os /\ db.objectives[o].status = ABSENT
          /\ saved.objectives[o].onApprovedAR = FALSE
      BY <2>1, <2>5, <1>6 DEF ObjectivesLinked
    <3> QED BY <2>2, <3>1 DEF LeftOrRemoved, SameObjective
  <2> QED BY <2>4, <2>5
<1>12. \A h \in Goals :
         \/ SameGoal(h, db, new)
         \/ <<r, h>> \in db.args /\ h # g /\ new.goals[h].status = GONE
         \/ h = g /\ db.goals[h].status = ABSENT /\ new.goals[h].status = NOT_STARTED
  <2> SUFFICES ASSUME NEW h \in Goals
               PROVE  \/ SameGoal(h, db, new)
                      \/ <<r, h>> \in db.args /\ h # g /\ new.goals[h].status = GONE
                      \/ h = g /\ db.goals[h].status = ABSENT /\ new.goals[h].status = NOT_STARTED
    OBVIOUS
  <2>1. SameGoal(h, created, saved)
    BY <1>4, <1>6 DEF GoalLinked, ObjectivesLinked, SameGoal
  <2>2. <<r, h>> \in saved.args => <<r, h>> \in db.args \/ h = g
    BY <1>3, <1>4, <1>6 DEF GoalLinked, ObjectivesLinked
  <2>3. \/ SameGoal(h, saved, new)
        \/ <<r, h>> \in saved.args /\ h # g /\ new.goals[h].status = GONE
    BY <1>7 DEF Kept
  <2> QED BY <1>3, <2>1, <2>2, <2>3 DEF SameGoal
<1>13. Sound(new)
  BY <1>7 DEF Kept
<1> QED BY <1>1, <1>8, <1>9, <1>10, <1>11, <1>12, <1>13 DEF Saved, os

\* What is saved is one cycle; the cycles of other reports are as they were.
LEMMA SavedIsOneCycle ==
  ASSUME NEW db, NEW new, NEW r \in Reports, NEW g \in Goals, NEW want,
         Saved(r, g, want, db, new)
  PROVE  Single(new, r) /\ ObjectivesFit(new, r) /\ OneCycle(new, r)
BY DEF Saved, OneCycle, Single, ObjectivesFit, Objectives, Listed

LEMMA OthersKeepTheirCycle ==
  ASSUME NEW db, NEW new, NEW r \in Reports, OnlyLinksOf(r, db, new), Sound(db), Sound(new),
         NEW s \in Reports \ {r}, OneCycle(db, s)
  PROVE  OneCycle(new, s)
<1>1. /\ new.aros[s] = db.aros[s] /\ new.reports = db.reports
      /\ \A g \in Goals : <<s, g>> \in new.args <=> <<s, g>> \in db.args
  BY DEF OnlyLinksOf
<1> QED BY <1>1 DEF OneCycle, Single, ObjectivesFit, NoObjectives, Objectives

-----------------------------------------------------------------------------
\* The flag of approval is written for some of the rows.
ObjectivesMarked(os, flag, db, new) ==
  \A o \in Objectives :
    /\ new.objectives[o].via = db.objectives[o].via
    /\ o \in os => new.objectives[o].onApprovedAR = flag
    /\ o \notin os => new.objectives[o].onApprovedAR = db.objectives[o].onApprovedAR

GoalsMarked(gs, flag, db, new) ==
  \A g \in Goals :
    /\ new.goals[g].status = db.goals[g].status
    /\ g \in gs => new.goals[g].onApprovedAR = flag
    /\ g \notin gs => new.goals[g].onApprovedAR = db.goals[g].onApprovedAR

\* Statuses and the flags of approval change neither links nor existence.
LEMMA SetOnApprovedARFacts ==
  ASSUME NEW db \in GoalDbs, NEW os \in SUBSET Objectives, NEW flag \in BOOLEAN
  PROVE  LET new == SetOnApprovedAR(db, os, flag)
         IN /\ Keeps(db, new) /\ new.goals = db.goals
            /\ ObjectivesMarked(os, flag, db, new)
<1> DEFINE f == [o \in os |-> [db.objectives[o] EXCEPT !.onApprovedAR = flag]]
<1>1. \A o \in os : /\ f[o] \in ObjectiveRows
                    /\ f[o].status = db.objectives[o].status
                    /\ f[o].onAR = db.objectives[o].onAR
                    /\ f[o].via = db.objectives[o].via
                    /\ f[o].onApprovedAR = flag
  BY RowIsTyped DEF ObjectiveRows
<1>2. \A o \in os \intersect Objectives : f[o] \in ObjectiveRows
  BY <1>1
<1>3. SetOnApprovedAR(db, os, flag) = SetObjectives(db, os, f)
  BY DEF SetOnApprovedAR
<1> HIDE DEF f
<1>4. LET new == SetOnApprovedAR(db, os, flag)
      IN /\ new \in GoalDbs /\ new.ok = db.ok
         /\ new.goals = db.goals /\ new.reports = db.reports
         /\ new.args = db.args /\ new.selectedBefore = db.selectedBefore /\ new.aros = db.aros
         /\ \A o \in Objectives : new.objectives[o] = IF o \in os THEN f[o] ELSE db.objectives[o]
  BY <1>2, <1>3, SetObjectivesFacts
<1> QED BY <1>1, <1>4 DEF Keeps, ObjectivesMarked

LEMMA SetGoalsOnApprovedARFacts ==
  ASSUME NEW db \in GoalDbs, NEW gs, NEW flag \in BOOLEAN
  PROVE  LET new == SetGoalsOnApprovedAR(db, gs, flag)
         IN /\ Keeps(db, new) /\ new.objectives = db.objectives
            /\ GoalsMarked(gs, flag, db, new)
<1> DEFINE Row(g) == [db.goals[g] EXCEPT !.onApprovedAR = flag]
           new == SetGoalsOnApprovedAR(db, gs, flag)
<1>1. \A g \in Goals : /\ Row(g) \in GoalRows
                       /\ Row(g).status = db.goals[g].status
                       /\ Row(g).onAR = db.goals[g].onAR
                       /\ Row(g).onApprovedAR = flag
  BY DEF GoalDbs, GoalRows
<1>2. new = [db EXCEPT !.goals = [g \in Goals |-> IF g \in gs THEN Row(g) ELSE db.goals[g]]]
  BY DEF SetGoalsOnApprovedAR, GoalDbs
<1> HIDE DEF Row, new
<1>3. /\ new \in GoalDbs /\ new.ok = db.ok
      /\ new.objectives = db.objectives /\ new.args = db.args
      /\ new.selectedBefore = db.selectedBefore
      /\ new.aros = db.aros /\ new.reports = db.reports
      /\ \A g \in Goals : new.goals[g] = IF g \in gs THEN Row(g) ELSE db.goals[g]
  BY <1>1, <1>2 DEF GoalDbs
<1>4. Keeps(db, new)
  BY <1>1, <1>3 DEF Keeps
<1>5. GoalsMarked(gs, flag, db, new)
  BY <1>1, <1>3 DEF GoalsMarked
<1> QED BY <1>3, <1>4, <1>5 DEF new

LEMMA ChangeGoalFacts ==
  ASSUME NEW db \in GoalDbs, NEW g \in LiveGoals(db), NEW status \in GoalStatuses
  PROVE  /\ Keeps(db, ChangeGoal(db, g, status))
         /\ SameMarks(db, ChangeGoal(db, g, status))
         /\ ChangeGoal(db, g, status).goals[g].status = status
         /\ \A h \in Goals \ {g} : ChangeGoal(db, g, status).goals[h] = db.goals[h]
         /\ status = CLOSED /\ db.goals[g].status # CLOSED =>
              \A r \in Reports :
                <<r, g>> \in db.args => <<r, g>> \in ChangeGoal(db, g, status).selectedBefore
<1> DEFINE row == [db.goals[g] EXCEPT !.status = status]
           fits == /\ db.ok
                   /\ status = CLOSED => CloseHookPasses(db, g)
                   /\ status # CLOSED => GoalsNotClosed(db) \subseteq {g}
           before == IF status = CLOSED
                     THEN db.selectedBefore \union {link \in db.args : link[2] = g}
                     ELSE db.selectedBefore
           changed == [db EXCEPT !.goals[g] = row, !.selectedBefore = before, !.ok = fits]
           os == {o \in ObjectivesOf(db, g) :
                    db.objectives[o].status \in {NOT_STARTED, IN_PROGRESS}}
           f == [o \in os |-> [db.objectives[o] EXCEPT !.status = SUSPENDED]]
<1>1. g \in Goals /\ db.goals[g].status \in GoalStatuses
  BY DEF LiveGoals
<1>2. /\ row \in GoalRows /\ row.status = status /\ row.onAR = db.goals[g].onAR
      /\ row.onApprovedAR = db.goals[g].onApprovedAR
  BY <1>1 DEF GoalDbs, GoalRows
<1>3. fits \in BOOLEAN /\ (fits => db.ok)
  BY DEF GoalDbs
<1>a. /\ before \subseteq Reports \X Goals /\ db.selectedBefore \subseteq before
      /\ status = CLOSED => \A r \in Reports : <<r, g>> \in db.args => <<r, g>> \in before
  BY <1>1 DEF GoalDbs
<1>4. ChangeGoal(db, g, status) =
        IF db.goals[g].status = status THEN db
        ELSE IF status # SUSPENDED THEN changed
        ELSE SetObjectives(changed, os, f)
  BY <1>1 DEF ChangeGoal, GoalDbs
<1> HIDE DEF row, fits, before
<1>5. /\ changed \in GoalDbs /\ changed.selectedBefore = before /\ (changed.ok => db.ok)
      /\ changed.objectives = db.objectives /\ changed.args = db.args
      /\ changed.aros = db.aros /\ changed.reports = db.reports
      /\ changed.goals[g] = row
      /\ \A h \in Goals \ {g} : changed.goals[h] = db.goals[h]
  BY <1>1, <1>2, <1>3, <1>a DEF GoalDbs
<1>6. os \subseteq Objectives
  BY DEF ObjectivesOf, LiveObjectives
<1>7. \A o \in os : /\ f[o] \in ObjectiveRows
                    /\ f[o].status # ABSENT /\ db.objectives[o].status # ABSENT
                    /\ f[o].onAR = db.objectives[o].onAR
                    /\ f[o].via = db.objectives[o].via
                    /\ f[o].onApprovedAR = db.objectives[o].onApprovedAR
  BY <1>6, RowIsTyped DEF ObjectiveRows, ObjectiveStatuses
<1>8. \A o \in os \intersect Objectives : f[o] \in ObjectiveRows
  BY <1>7
<1> HIDE DEF changed, f, os
<1>9. Keeps(db, changed) /\ SameMarks(db, changed)
  BY <1>1, <1>2, <1>5, <1>a DEF Keeps, GoalStatuses, SameMarks
<1>10. /\ Keeps(changed, SetObjectives(changed, os, f))
       /\ SameMarks(changed, SetObjectives(changed, os, f))
       /\ SetObjectives(changed, os, f).goals = changed.goals
  BY <1>5, <1>7, <1>8, SetObjectivesFacts DEF Keeps, SameMarks
<1>11. CASE db.goals[g].status = status
  BY <1>4, <1>11, KeepsItself DEF SameMarks
<1>12. CASE db.goals[g].status # status /\ status # SUSPENDED
  BY <1>2, <1>4, <1>5, <1>9, <1>12, <1>a
<1>13. CASE db.goals[g].status # status /\ status = SUSPENDED
  <2>1. SameMarks(db, SetObjectives(changed, os, f))
    BY <1>9, <1>10 DEF SameMarks
  <2> QED BY <2>1, <1>2, <1>4, <1>5, <1>9, <1>10, <1>13, KeepsTransitive
<1> QED BY <1>11, <1>12, <1>13

-----------------------------------------------------------------------------
\* What the hooks of a report do: no link changes, and no goal is closed.
Advances(db, new) ==
  /\ Keeps(db, new)
  /\ \A g \in Goals : new.goals[g].status = CLOSED => db.goals[g].status = CLOSED

LEMMA AdvancesTransitive ==
  ASSUME NEW a, NEW b, NEW c, Advances(a, b), Advances(b, c)
  PROVE  Advances(a, c)
BY KeepsTransitive DEF Advances

LEMMA LatestIsOne ==
  ASSUME NEW S \in SUBSET Reports, S # {}
  PROVE  Latest(S) \in S
<1>1. \E r \in S : \A s \in S : EndDate[s] <= EndDate[r]
  BY EndDateAssumption
<1> QED BY <1>1 DEF Latest

LEMMA StatusFromReportType ==
  ASSUME NEW current \in ObjectiveStatuses, NEW status \in ObjectiveStatuses, NEW begun \in BOOLEAN
  PROVE  StatusFromReport(current, status, begun) \in ObjectiveStatuses
BY DEF StatusFromReport, ObjectiveStatuses

LEMMA DetermineObjectiveStatusFacts ==
  ASSUME NEW db \in GoalDbs, NEW r \in Reports, NEW unlocked \in BOOLEAN, NEW begun
  PROVE  OnlyStatuses(db, DetermineObjectiveStatus(db, r, unlocked, begun))
<1> DEFINE os == ReportObjectives(db, r)
           used == {o \in os : ObjectiveReports(db, o, {APPROVED}) # {}}
           Given(o) == db.aros[Latest(ObjectiveReports(db, o, {APPROVED}))][o]
           Status(o) == StatusFromReport(db.objectives[o].status, Given(o), o \in begun)
           f == [o \in used |-> [db.objectives[o] EXCEPT !.status = Status(o)]]
           reset == {o \in os : o[1] \in GoalsNotClosed(db)}
           a == SetStatus(db, reset, NOT_STARTED)
           b == SetObjectives(db, used, f)
<1>1. DetermineObjectiveStatus(db, r, unlocked, begun) = IF unlocked /\ used = {} THEN a ELSE b
  BY DEF DetermineObjectiveStatus
<1>2. reset \subseteq LiveObjectives(db)
  BY DEF ReportObjectives
<1>3. OnlyStatuses(db, a)
  BY <1>2, SetStatusFacts DEF ObjectiveStatuses
<1>5. \A o \in used : /\ o \in Objectives
                      /\ db.objectives[o].status \in ObjectiveStatuses
                      /\ Given(o) \in ObjectiveStatuses
  <2> SUFFICES ASSUME NEW o \in used
               PROVE  /\ o \in Objectives
                      /\ db.objectives[o].status \in ObjectiveStatuses
                      /\ Given(o) \in ObjectiveStatuses
    OBVIOUS
  <2>1. o \in Objectives /\ db.objectives[o].status # ABSENT
    BY DEF ReportObjectives, LiveObjectives
  <2>2. db.objectives[o].status \in ObjectiveStatuses
    BY <2>1, RowIsTyped DEF ObjectiveRows
  <2> DEFINE S == ObjectiveReports(db, o, {APPROVED})
  <2>3. S \subseteq Reports /\ S # {}
    BY DEF ObjectiveReports
  <2>4. Latest(S) \in S
    BY <2>3, LatestIsOne
  <2>5. db.aros[Latest(S)][o] # NoLink /\ Latest(S) \in Reports
    BY <2>4 DEF ObjectiveReports
  <2>6. Given(o) \in ObjectiveStatuses
    BY <2>1, <2>5 DEF GoalDbs, Links
  <2> QED BY <2>1, <2>2, <2>6
<1>6. \A o \in used : Status(o) \in ObjectiveStatuses
  <2> TAKE o \in used
  <2>1. (o \in begun) \in BOOLEAN
    OBVIOUS
  <2> QED BY <1>5, <2>1, StatusFromReportType
<1> HIDE DEF Status, used
<1>7. \A o \in used : /\ f[o] \in ObjectiveRows
                      /\ f[o].status \in ObjectiveStatuses
                      /\ f[o].onAR = db.objectives[o].onAR
                      /\ f[o].via = db.objectives[o].via
                      /\ f[o].onApprovedAR = db.objectives[o].onApprovedAR
  BY <1>5, <1>6, RowIsTyped DEF ObjectiveRows
<1>8. \A o \in used \intersect Objectives : f[o] \in ObjectiveRows
  BY <1>7
<1> HIDE DEF f
<1>9. /\ b \in GoalDbs /\ b.ok = db.ok
      /\ b.goals = db.goals /\ b.reports = db.reports /\ b.args = db.args /\ b.aros = db.aros
      /\ b.selectedBefore = db.selectedBefore
      /\ \A o \in Objectives : b.objectives[o] = IF o \in used THEN f[o] ELSE db.objectives[o]
  BY <1>8, SetObjectivesFacts
<1>10. \A o \in used : f[o].status # ABSENT /\ db.objectives[o].status # ABSENT
  BY <1>5, <1>7 DEF ObjectiveStatuses
<1> HIDE DEF a, b
<1>11. Keeps(db, b) /\ SameMarks(db, b)
  BY <1>7, <1>9, <1>10 DEF Keeps, SameMarks
<1>12. OnlyStatuses(db, b)
  BY <1>9, <1>11 DEF OnlyStatuses
<1> QED BY <1>1, <1>3, <1>12

\* An approval marks what the report uses ...
Entered(r, db, new) ==
  /\ Keeps(db, new)
  /\ GoalsMarked(GoalsOf(db, ReportObjectives(db, r)), TRUE, db, new)
  /\ ObjectivesMarked(ReportObjectives(db, r), TRUE, db, new)

\* ... and an unlock takes the marks back that no other report holds.
Left(r, db, new) ==
  /\ Keeps(db, new)
  /\ \E gs : /\ \A g \in gs : GoalReports(db, g, {APPROVED}) = {}
             /\ GoalsMarked(gs, FALSE, db, new)
  /\ ObjectivesMarked({o \in ReportObjectives(db, r) : ObjectiveReports(db, o, {APPROVED}) = {}},
                      FALSE, db, new)

LEMMA ApprovalFacts ==
  ASSUME NEW db \in GoalDbs, NEW r \in Reports, NEW begun
  PROVE  /\ Entered(r, db, EnterApproved(db, r, begun))
         /\ Left(r, db, LeaveApproved(db, r, begun))
<1> DEFINE os == ReportObjectives(db, r)
           a == SetOnApprovedAR(db, os, TRUE)
           b == DetermineObjectiveStatus(a, r, FALSE, begun)
           rest == {o \in os : ObjectiveReports(db, o, {APPROVED}) = {}}
           c == SetOnApprovedAR(db, rest, FALSE)
           d == DetermineObjectiveStatus(c, r, TRUE, begun)
           left == {g \in GoalsOf(d, os) : GoalReports(d, g, {APPROVED}) = {}}
<1>1. os \subseteq Objectives /\ rest \subseteq Objectives
  BY DEF ReportObjectives, LiveObjectives
<1>2. /\ EnterApproved(db, r, begun) = SetGoalsOnApprovedAR(b, GoalsOf(db, os), TRUE)
      /\ LeaveApproved(db, r, begun) = SetGoalsOnApprovedAR(d, left, FALSE)
  BY DEF EnterApproved, LeaveApproved
<1>3. TRUE \in BOOLEAN /\ FALSE \in BOOLEAN
  OBVIOUS
<1> HIDE DEF os, rest, left
<1>4. Keeps(db, a) /\ a.goals = db.goals /\ ObjectivesMarked(os, TRUE, db, a)
  BY <1>1, <1>3, SetOnApprovedARFacts
<1>5. Keeps(db, c) /\ c.goals = db.goals /\ ObjectivesMarked(rest, FALSE, db, c)
  BY <1>1, <1>3, SetOnApprovedARFacts
<1> HIDE DEF a, c
<1>6. OnlyStatuses(a, b) /\ OnlyStatuses(c, d)
  BY <1>3, <1>4, <1>5, DetermineObjectiveStatusFacts DEF Keeps
<1> HIDE DEF b, d
<1> DEFINE entered == SetGoalsOnApprovedAR(b, GoalsOf(db, os), TRUE)
           gone == SetGoalsOnApprovedAR(d, left, FALSE)
<1>a. b \in GoalDbs /\ d \in GoalDbs
  BY <1>6 DEF OnlyStatuses, Keeps
<1>7. /\ Keeps(b, entered) /\ entered.objectives = b.objectives
      /\ GoalsMarked(GoalsOf(db, os), TRUE, b, entered)
  BY <1>3, <1>a, SetGoalsOnApprovedARFacts
<1>8. /\ Keeps(d, gone) /\ gone.objectives = d.objectives
      /\ GoalsMarked(left, FALSE, d, gone)
  BY <1>3, <1>a, SetGoalsOnApprovedARFacts
<1> HIDE DEF entered, gone
<1>9. Keeps(db, entered) /\ Keeps(db, gone)
  BY <1>4, <1>5, <1>6, <1>7, <1>8, KeepsTransitive DEF OnlyStatuses
<1>10. /\ GoalsMarked(GoalsOf(db, os), TRUE, db, entered)
       /\ ObjectivesMarked(os, TRUE, db, entered)
  BY <1>4, <1>6, <1>7 DEF GoalsMarked, ObjectivesMarked, OnlyStatuses, SameMarks
<1>11. \A g \in left : GoalReports(db, g, {APPROVED}) = {}
  BY <1>5, <1>6 DEF left, GoalReports, OnlyStatuses, Keeps
<1>12. GoalsMarked(left, FALSE, db, gone) /\ ObjectivesMarked(rest, FALSE, db, gone)
  BY <1>5, <1>6, <1>8 DEF GoalsMarked, ObjectivesMarked, OnlyStatuses, SameMarks
<1>13. Entered(r, db, entered)
  BY <1>9, <1>10 DEF Entered, os
<1>14. Left(r, db, gone)
  BY <1>9, <1>11, <1>12 DEF Left, os, rest
<1> QED BY <1>2, <1>13, <1>14 DEF entered, gone

LEMMA MarkingAdvances ==
  ASSUME NEW r, NEW db, NEW new, Entered(r, db, new) \/ Left(r, db, new)
  PROVE  Advances(db, new)
BY DEF Entered, Left, Advances, GoalsMarked

LEMMA StartGoalFacts ==
  ASSUME NEW db \in GoalDbs, NEW r \in Reports
  PROVE  Advances(db, StartGoal(db, r)) /\ SameMarks(db, StartGoal(db, r))
<1> DEFINE waiting == {g \in ReportGoals(db, r) : db.goals[g].status \in {NOT_STARTED, SUSPENDED}}
           g == CHOOSE h \in waiting : TRUE
<1>1. CASE waiting = {}
  BY <1>1, KeepsItself DEF StartGoal, Advances, SameMarks
<1>2. CASE waiting # {}
  <2>1. g \in LiveGoals(db)
    BY <1>2 DEF ReportGoals
  <2>2. StartGoal(db, r) = ChangeGoal(db, g, IN_PROGRESS)
    BY <1>2 DEF StartGoal
  <2>3. IN_PROGRESS \in GoalStatuses
    BY DEF GoalStatuses
  <2> HIDE DEF g
  <2>4. /\ Keeps(db, ChangeGoal(db, g, IN_PROGRESS))
        /\ SameMarks(db, ChangeGoal(db, g, IN_PROGRESS))
        /\ ChangeGoal(db, g, IN_PROGRESS).goals[g].status = IN_PROGRESS
        /\ \A h \in Goals \ {g} : ChangeGoal(db, g, IN_PROGRESS).goals[h] = db.goals[h]
    BY <2>1, <2>3, ChangeGoalFacts
  <2> QED BY <2>2, <2>4 DEF Advances
<1> QED BY <1>1, <1>2

-----------------------------------------------------------------------------
\* Marks of approval change only with the links of approved reports.
SameApproved(db, new) ==
  \A s \in Reports :
    /\ new.reports[s] = APPROVED <=> db.reports[s] = APPROVED
    /\ db.reports[s] = APPROVED => new.aros[s] = db.aros[s]

MarksStay(db, new) ==
  /\ SameApproved(db, new)
  /\ \A o \in Objectives : new.objectives[o].status # ABSENT =>
       \/ /\ db.objectives[o].status # ABSENT
          /\ new.objectives[o].onApprovedAR = db.objectives[o].onApprovedAR
       \/ new.objectives[o].onApprovedAR = FALSE /\ \A s \in Reports : db.aros[s][o] = NoLink
  /\ \A g \in Goals : HasMark(g, db) => HasMark(g, new)

LEMMA MarkedStays ==
  ASSUME NEW db, NEW new, Marked(db), MarksStay(db, new)
  PROVE  Marked(new)
<1> SUFFICES ASSUME NEW o \in Objectives, new.objectives[o].status # ABSENT
             PROVE  /\ new.objectives[o].onApprovedAR <=> Approved(o, new)
                    /\ new.objectives[o].onApprovedAR => HasMark(o[1], new)
  BY DEF Marked
<1>1. Approved(o, new) <=> Approved(o, db)
  BY DEF Approved, MarksStay, SameApproved
<1>2. o[1] \in Goals
  BY DEF Objectives
<1>3. CASE /\ db.objectives[o].status # ABSENT
           /\ new.objectives[o].onApprovedAR = db.objectives[o].onApprovedAR
  BY <1>1, <1>2, <1>3 DEF Marked, MarksStay
<1>4. CASE new.objectives[o].onApprovedAR = FALSE /\ \A s \in Reports : db.aros[s][o] = NoLink
  BY <1>1, <1>4 DEF Approved
<1> QED BY <1>3, <1>4 DEF MarksStay

LEMMA LinksOfUnapproved ==
  ASSUME NEW r \in Reports, NEW db, NEW new, OnlyLinksOf(r, db, new), db.reports[r] # APPROVED
  PROVE  SameApproved(db, new)
BY DEF OnlyLinksOf, SameApproved

\* Where only statuses change.
LEMMA SameMarksFacts ==
  ASSUME NEW db, NEW new, Keeps(db, new), SameMarks(db, new), Marked(db), Used(db)
  PROVE  Marked(new) /\ Used(new)
<1>1. SameApproved(db, new)
  BY DEF Keeps, SameApproved
<1>2. \A g \in Goals : HasMark(g, db) => HasMark(g, new)
  BY DEF Keeps, SameMarks, HasMark
<1>3. MarksStay(db, new)
  BY <1>1, <1>2 DEF Keeps, SameMarks, MarksStay
<1>4. Used(new)
  BY DEF Keeps, SameMarks, Used, Linked
<1> QED BY <1>3, <1>4, MarkedStays

\* Where a report that is not approved is saved with the objectives os.
Settled(r, os, db, new) ==
  /\ OnlyLinksOf(r, db, new)
  /\ \A o \in Objectives :
       /\ o \in os => new.aros[r][o] # NoLink \/ db.aros[r][o] = NoLink
       /\ \/ LeftOrRemoved(o, r, os, db, new)
          \/ /\ new.aros[r][o] # NoLink /\ db.objectives[o].status = ABSENT
             /\ new.objectives[o].onApprovedAR = FALSE
  /\ \A g \in Goals : SameGoal(g, db, new) \/ new.goals[g].status = GONE
                      \/ db.goals[g].status = ABSENT

LEMMA SettledMarks ==
  ASSUME NEW db, NEW new, NEW r \in Reports, NEW os, Settled(r, os, db, new),
         Sound(db), Marked(db), Used(db), db.reports[r] # APPROVED
  PROVE  Marked(new) /\ Used(new)
<1>1. \A g \in Goals : HasMark(g, db) => HasMark(g, new)
  BY DEF Settled, HasMark, SameGoal
<1>2. \A s \in Reports, o \in Objectives :
        db.objectives[o].status = ABSENT => db.aros[s][o] = NoLink
  BY DEF Sound, LinkedObjectivesThere
<1>3. \A o \in Objectives : new.objectives[o].status # ABSENT =>
        \/ /\ db.objectives[o].status # ABSENT
           /\ new.objectives[o].onApprovedAR = db.objectives[o].onApprovedAR
        \/ new.objectives[o].onApprovedAR = FALSE /\ \A s \in Reports : db.aros[s][o] = NoLink
  BY <1>2 DEF Settled, LeftOrRemoved, SameObjective
<1>4. Marked(new)
  BY <1>1, <1>3, LinksOfUnapproved, MarkedStays DEF Settled, MarksStay
<1>5. Used(new)
  <2> SUFFICES ASSUME NEW o \in Objectives, new.objectives[o].status # ABSENT,
                      new.objectives[o].via = "activityReport", ~Linked(o, new)
               PROVE  FALSE
    BY DEF Used
  <2>1. new.aros[r][o] = NoLink
    BY DEF Linked
  <2>2. /\ SameObjective(o, db, new)
        /\ o \in os \/ db.aros[r][o] = NoLink \/ Wanted(o, new)
    BY <2>1 DEF Settled, LeftOrRemoved
  <2>3. CASE db.aros[r][o] # NoLink
    <3>1. Wanted(o, new)
      BY <2>1, <2>2, <2>3 DEF Settled
    <3>2. Approved(o, new)
      BY <3>1, <1>4 DEF Wanted, Marked
    <3> QED BY <3>2 DEF Approved, Linked
  <2>4. CASE db.aros[r][o] = NoLink
    <3>1. Linked(o, db)
      BY <2>2 DEF Used, SameObjective
    <3> QED BY <3>1, <2>4 DEF Settled, Linked, OnlyLinksOf
  <2> QED BY <2>3, <2>4
<1> QED BY <1>4, <1>5

\* Where users make objectives, and rows that no report links go.
LEMMA RowsComeAndGo ==
  ASSUME NEW db, NEW new, Marked(db), Used(db),
         new.reports = db.reports, new.aros = db.aros,
         \A o \in Objectives :
           \/ SameObjective(o, db, new)
           \/ new.objectives[o].status = ABSENT
           \/ /\ new.objectives[o].via = "rtr" /\ new.objectives[o].onApprovedAR = FALSE
              /\ \A s \in Reports : db.aros[s][o] = NoLink,
         \A g \in Goals : SameGoal(g, db, new) \/ new.goals[g].status = GONE
                          \/ db.goals[g].status = ABSENT
  PROVE  Marked(new) /\ Used(new)
<1>1. \A g \in Goals : HasMark(g, db) => HasMark(g, new)
  BY DEF HasMark, SameGoal
<1>2. MarksStay(db, new)
  BY <1>1 DEF MarksStay, SameApproved, SameObjective
<1>3. Used(new)
  BY DEF Used, Linked, SameObjective
<1> QED BY <1>2, <1>3, MarkedStays

\* No other goal is opened.
LEMMA OpenStays ==
  ASSUME NEW db, NEW new, OneOpen(db),
         \A g \in Goals : \/ new.goals[g].status = db.goals[g].status
                          \/ new.goals[g].status \in {GONE, CLOSED}
  PROVE  OneOpen(new)
BY DEF OneOpen, GoalsNotClosed, LiveGoals, GoalStatuses

LEMMA OnlyStatusesMarks ==
  ASSUME NEW db, NEW new, OnlyStatuses(db, new), Marks(db)
  PROVE  Marks(new)
BY OpenStays, SameMarksFacts DEF OnlyStatuses, Marks

\* The index lets one goal be opened when there is no other one.
LEMMA ChangeGoalOpen ==
  ASSUME NEW db \in GoalDbs, NEW g \in LiveGoals(db), NEW status \in GoalStatuses, OneOpen(db),
         ChangeGoal(db, g, status).ok
  PROVE  OneOpen(ChangeGoal(db, g, status))
<1> DEFINE new == ChangeGoal(db, g, status)
<1>1. new.goals[g].status = status /\ \A h \in Goals \ {g} : new.goals[h] = db.goals[h]
  BY ChangeGoalFacts
<1>2. CASE status = CLOSED
  BY <1>1, <1>2, OpenStays
<1>3. CASE db.goals[g].status = status
  BY <1>3 DEF ChangeGoal
<1>4. CASE status # CLOSED /\ db.goals[g].status # status
  <2>1. GoalsNotClosed(db) \subseteq {g}
    BY <1>4 DEF ChangeGoal, SetObjectives, GoalDbs
  <2>2. GoalsNotClosed(new) \subseteq {g}
    <3> HIDE DEF new
    <3> QED BY <1>1, <2>1 DEF GoalsNotClosed, LiveGoals
  <2> QED BY <2>2 DEF OneOpen
<1> QED BY <1>2, <1>3, <1>4

LEMMA StartGoalOpen ==
  ASSUME NEW db \in GoalDbs, NEW r \in Reports, OneOpen(db), StartGoal(db, r).ok
  PROVE  OneOpen(StartGoal(db, r))
<1> DEFINE waiting == {g \in ReportGoals(db, r) : db.goals[g].status \in {NOT_STARTED, SUSPENDED}}
           g == CHOOSE h \in waiting : TRUE
<1>1. CASE waiting = {}
  BY <1>1 DEF StartGoal
<1>2. CASE waiting # {}
  <2>1. g \in LiveGoals(db)
    BY <1>2 DEF ReportGoals
  <2>2. StartGoal(db, r) = ChangeGoal(db, g, IN_PROGRESS)
    BY <1>2 DEF StartGoal
  <2> HIDE DEF g
  <2> QED BY <2>1, <2>2, ChangeGoalOpen DEF GoalStatuses
<1> QED BY <1>1, <1>2

-----------------------------------------------------------------------------
\* No report comes onto a closed goal, no goal with a report is closed, and what
\* is recorded of the closed ones stays.
NoCloser(db, new) ==
  \A r \in Reports, g \in Goals :
    <<r, g>> \in new.args /\ new.goals[g].status = CLOSED
      => /\ <<r, g>> \in db.args /\ db.goals[g].status = CLOSED
         /\ <<r, g>> \in db.selectedBefore => <<r, g>> \in new.selectedBefore

Carries(db, new) == Proper(new) /\ NoCloser(db, new) /\ new.reports = db.reports

LEMMA CarriesTransitive ==
  ASSUME NEW a, NEW b, NEW c, Carries(a, b), Carries(b, c)
  PROVE  Carries(a, c)
BY DEF Carries, NoCloser

LEMMA CarriesItself ==
  ASSUME NEW db, Proper(db)
  PROVE  Carries(db, db)
BY DEF Carries, NoCloser

LEMMA AdvancesCarries ==
  ASSUME NEW db, NEW new, Proper(db), Advances(db, new)
  PROVE  Carries(db, new)
<1>1. Proper(new)
  BY KeepsSound DEF Proper, Advances
<1>2. NoCloser(db, new) /\ new.reports = db.reports
  BY DEF NoCloser, Advances, Keeps
<1> QED BY <1>1, <1>2 DEF Carries

\* A report that is saved with its goal, from whatever it was on before.
LEMMA SavedCarries ==
  ASSUME NEW db, Sound(db), NEW r \in Reports, \A s \in Reports \ {r} : OneCycle(db, s),
         NEW g \in Goals, NEW want, NEW new, Saved(r, g, want, db, new),
         db.goals[g].status = CLOSED => <<r, g>> \in db.args
  PROVE  Carries(db, new) /\ Single(new, r)
<1>1. OneCycle(new, r) /\ Single(new, r)
  BY SavedIsOneCycle
<1>2. Sound(new) /\ OnlyLinksOf(r, db, new)
  BY DEF Saved
<1>3. \A s \in Reports \ {r} : OneCycle(new, s)
  BY <1>2, OthersKeepTheirCycle
<1>4. NoCloser(db, new)
  <2> SUFFICES ASSUME NEW s \in Reports, NEW h \in Goals,
                      <<s, h>> \in new.args, new.goals[h].status = CLOSED
               PROVE  /\ <<s, h>> \in db.args /\ db.goals[h].status = CLOSED
                      /\ <<s, h>> \in db.selectedBefore => <<s, h>> \in new.selectedBefore
    BY DEF NoCloser
  <2>1. db.goals[h].status = CLOSED
    BY DEF Saved, SameGoal
  <2>2. CASE s = r
    BY <2>1, <2>2 DEF Saved
  <2>3. CASE s # r
    BY <2>1, <2>3, <1>2 DEF OnlyLinksOf
  <2> QED BY <2>2, <2>3
<1>5. new.reports = db.reports
  BY <1>2 DEF OnlyLinksOf
<1> QED BY <1>1, <1>2, <1>3, <1>4, <1>5 DEF Carries, Proper

LEMMA SaveNoGoalCarries ==
  ASSUME NEW db, Proper(db), NEW r \in Reports
  PROVE  Carries(db, SaveNoGoal(db, r))
<1> DEFINE new == SaveNoGoal(db, r)
<1>1. Kept(r, {}, {}, db, new)
  BY KeepOnReportFacts DEF Proper, SaveNoGoal
<1> HIDE DEF new
<1>2. Sound(new) /\ OnlyLinksOf(r, db, new)
  BY <1>1 DEF Kept
<1>3. OneCycle(new, r)
  BY <1>1 DEF Kept, OneCycle, Single, ObjectivesFit
<1>4. \A s \in Reports \ {r} : OneCycle(new, s)
  BY <1>2, OthersKeepTheirCycle DEF Proper
<1>5. NoCloser(db, new)
  BY <1>1 DEF Kept, OnlyLinksOf, NoCloser, SameGoal
<1>6. new.reports = db.reports
  BY <1>2 DEF OnlyLinksOf
<1>7. Carries(db, new)
  BY <1>2, <1>3, <1>4, <1>5, <1>6 DEF Carries, Proper
<1> QED BY <1>7 DEF new

\* A closed goal that a template stands for was selected before its closure, and
\* there is a new one only when none is open.
LEMMA GoalChoicesFit ==
  ASSUME NEW db, NEW r \in Reports, NEW g \in GoalChoices(db, r)
  PROVE  /\ g \in Goals /\ db.goals[g].status # GONE
         /\ db.goals[g].status = CLOSED => <<r, g>> \in db.args /\ <<r, g>> \in db.selectedBefore
         /\ db.goals[g].status = ABSENT => GoalsNotClosed(db) = {}
<1>1. CASE GoalForReport(db, r) # {}
  BY <1>1 DEF GoalChoices, GoalForReport, ClosedGoalsSelectedBeforeClosure, GoalsNotClosed,
              ReportGoals, LiveGoals, GoalStatuses
<1>2. CASE GoalForReport(db, r) = {}
  BY <1>2 DEF GoalChoices, GoalForReport, NextGoal
<1> QED BY <1>1, <1>2

LEMMA SavedOpen ==
  ASSUME NEW db, OneOpen(db), NEW r, NEW g, NEW want, NEW new, Saved(r, g, want, db, new),
         db.goals[g].status = ABSENT => GoalsNotClosed(db) = {}
  PROVE  OneOpen(new)
<1>1. CASE db.goals[g].status # ABSENT
  BY <1>1, OpenStays DEF Saved, SameGoal
<1>2. CASE db.goals[g].status = ABSENT
  <2>1. GoalsNotClosed(new) \subseteq {g}
    BY <1>2 DEF Saved, SameGoal, GoalsNotClosed, LiveGoals, GoalStatuses
  <2> QED BY <2>1 DEF OneOpen
<1> QED BY <1>1, <1>2

\* What the hook leaves of the report's goals, unless it fails.
Resaved(r, db, new) ==
  \/ new = db /\ \A g \in Goals : <<r, g>> \notin db.args
  \/ \E g \in GoalChoices(db, r), h \in ReportGoals(db, r) :
       Saved(r, g, [t \in Titles |-> db.aros[r][<<h, t>>]], db, new)

LEMMA ResaveGoalsFacts ==
  ASSUME NEW db, Sound(db), NEW r \in Reports, db.reports[r] # DELETED
  PROVE  /\ ResaveGoals(db, r) \in GoalDbs /\ ResaveGoals(db, r).reports = db.reports
         /\ ResaveGoals(db, r).ok => Resaved(r, db, ResaveGoals(db, r))
<1> DEFINE linked  == ReportGoals(db, r)
           several == \E i, j \in linked : i # j
           h       == CHOOSE i \in linked : TRUE
           g       == CHOOSE i \in GoalChoices(db, r) : TRUE
           want    == [t \in Titles |-> db.aros[r][<<h, t>>]]
           fails   == GoalChoices(db, r) = {} \/ (several /\ GoalForReport(db, r) = {})
           new     == ResaveGoals(db, r)
<1>1. new = IF linked = {} THEN db
            ELSE IF fails THEN [db EXCEPT !.ok = FALSE] ELSE SaveGoal(db, r, g, want)
  BY DEF ResaveGoals
<1>2. db \in GoalDbs
  BY DEF Sound
<1>3. CASE linked = {}
  <2>1. \A i \in Goals : <<r, i>> \notin db.args
    BY <1>2, <1>3, GoalStatusCases DEF ReportGoals, LiveGoals, Sound, LinkedGoalsThere
  <2> QED BY <1>1, <1>2, <1>3, <2>1 DEF Resaved
<1>4. CASE linked # {} /\ fails
  <2>1. /\ [db EXCEPT !.ok = FALSE] \in GoalDbs
        /\ [db EXCEPT !.ok = FALSE].reports = db.reports
        /\ [db EXCEPT !.ok = FALSE].ok = FALSE
    BY <1>2 DEF GoalDbs
  <2> QED BY <1>1, <1>4, <2>1
<1>5. CASE linked # {} /\ ~fails
  <2>1. h \in linked /\ h \in Goals
    BY <1>5 DEF ReportGoals, LiveGoals
  <2>2. g \in GoalChoices(db, r)
    BY <1>5
  <2>3. new = SaveGoal(db, r, g, want)
    BY <1>1, <1>5
  <2> HIDE DEF h, g, new
  <2>4. want \in [Titles -> Links]
    BY <1>2, <2>1 DEF GoalDbs, Objectives
  <2>5. g \in Goals /\ db.goals[g].status # GONE
    BY <2>2, GoalChoicesFit
  <2>6. Saved(r, g, want, db, new)
    <3> HIDE DEF want
    <3> QED BY <2>3, <2>4, <2>5, SaveGoalFacts
  <2>7. new \in GoalDbs /\ new.reports = db.reports
    <3> HIDE DEF want
    <3> QED BY <2>6 DEF Saved, Sound, OnlyLinksOf
  <2> QED BY <2>1, <2>2, <2>6, <2>7 DEF Resaved, new
<1> QED BY <1>3, <1>4, <1>5

LEMMA ResavedCarries ==
  ASSUME NEW db, Sound(db), NEW r \in Reports, \A s \in Reports \ {r} : OneCycle(db, s),
         ObjectivesFit(db, r), NEW new, Resaved(r, db, new)
  PROVE  /\ Carries(db, new)
         /\ \A g \in Goals : <<r, g>> \in new.args /\ new.goals[g].status = CLOSED
                               => <<r, g>> \in db.selectedBefore
         /\ OneOpen(db) => OneOpen(new)
<1>1. CASE new = db /\ \A g \in Goals : <<r, g>> \notin db.args
  <2>1. OneCycle(db, r)
    BY <1>1 DEF OneCycle, Single
  <2>2. Proper(db)
    BY <2>1 DEF Proper
  <2> QED BY <1>1, <2>2, CarriesItself
<1>2. ASSUME NEW g \in GoalChoices(db, r), NEW want, Saved(r, g, want, db, new)
      PROVE  /\ Carries(db, new)
             /\ \A i \in Goals : <<r, i>> \in new.args /\ new.goals[i].status = CLOSED
                                   => <<r, i>> \in db.selectedBefore
             /\ OneOpen(db) => OneOpen(new)
  <2>1. /\ g \in Goals
        /\ db.goals[g].status = CLOSED => <<r, g>> \in db.args /\ <<r, g>> \in db.selectedBefore
        /\ db.goals[g].status = ABSENT => GoalsNotClosed(db) = {}
    BY GoalChoicesFit
  <2>2. Carries(db, new)
    BY <1>2, <2>1, SavedCarries
  <2>3. \A i \in Goals : <<r, i>> \in new.args /\ new.goals[i].status = CLOSED
                           => <<r, i>> \in db.selectedBefore
    BY <1>2, <2>1 DEF Saved, SameGoal
  <2>4. OneOpen(db) => OneOpen(new)
    BY <1>2, <2>1, SavedOpen
  <2> QED BY <2>2, <2>3, <2>4
<1> QED BY <1>1, <1>2 DEF Resaved

\* Where a report is not approved, before its status is written.
LEMMA ResavedSettles ==
  ASSUME NEW db, NEW r \in Reports, ObjectivesFit(db, r), NEW new, Resaved(r, db, new),
         NEW old, old.goals = db.goals, old.objectives = db.objectives, old.args = db.args,
         old.aros = db.aros, old.selectedBefore = db.selectedBefore,
         NEW pre, pre.goals = new.goals, pre.objectives = new.objectives, pre.args = new.args,
         pre.aros = new.aros, pre.selectedBefore = new.selectedBefore, pre.reports = old.reports
  PROVE  \E os : Settled(r, os, old, pre)
<1>1. CASE new = db /\ \A g \in Goals : <<r, g>> \notin db.args
  <2>1. NoObjectives(db, r)
    BY <1>1 DEF ObjectivesFit, NoObjectives, Objectives
  <2>2. Settled(r, {}, old, pre)
    BY <1>1, <2>1 DEF Settled, OnlyLinksOf, LeftOrRemoved, SameObjective, SameGoal, NoObjectives
  <2> QED BY <2>2
<1>2. ASSUME NEW g \in GoalChoices(db, r), NEW want, Saved(r, g, want, db, new)
      PROVE  \E os : Settled(r, os, old, pre)
  <2>1. OnlyLinksOf(r, old, pre)
    BY <1>2 DEF Saved, OnlyLinksOf
  <2>2. \A i \in Goals : \/ SameGoal(i, old, pre) \/ pre.goals[i].status = GONE
                         \/ old.goals[i].status = ABSENT
    BY <1>2 DEF Saved, SameGoal
  <2>3. \A o \in Objectives :
          /\ o \in Listed(g, want) => pre.aros[r][o] # NoLink \/ old.aros[r][o] = NoLink
          /\ \/ LeftOrRemoved(o, r, Listed(g, want), old, pre)
             \/ /\ pre.aros[r][o] # NoLink /\ old.objectives[o].status = ABSENT
                /\ pre.objectives[o].onApprovedAR = FALSE
    <3> TAKE o \in Objectives
    <3>1. LeftOrRemoved(o, r, Listed(g, want), db, new)
            => LeftOrRemoved(o, r, Listed(g, want), old, pre)
      BY DEF LeftOrRemoved, SameObjective, Wanted, Linked
    <3> QED BY <3>1, <1>2 DEF Saved
  <2> QED BY <2>1, <2>2, <2>3 DEF Settled
<1> QED BY <1>1, <1>2 DEF Resaved

\* Where only links change status, and no goal loses its mark.
SameRows(db, new) ==
  /\ \A g \in Goals : HasMark(g, db) => HasMark(g, new)
  /\ \A o \in Objectives :
       /\ SameObjective(o, db, new)
       /\ \A s \in Reports : new.aros[s][o] # NoLink <=> db.aros[s][o] # NoLink

\* The goal that an approved report saves again is the one it has, unless it has
\* nothing to save.
LEMMA ResavedSame ==
  ASSUME NEW db, Sound(db), OneOpen(db), NEW r \in Reports,
         ObjectivesFit(db, r), Single(db, r),
         \A g \in Goals : <<r, g>> \in db.args /\ db.goals[g].status = CLOSED
                            => <<r, g>> \in db.selectedBefore \/ NoObjectives(db, r),
         NEW new, Resaved(r, db, new)
  PROVE  SameRows(db, new)
<1>1. CASE new = db
  BY <1>1 DEF SameRows, SameObjective
<1>2. ASSUME NEW g \in GoalChoices(db, r), NEW h \in ReportGoals(db, r),
             Saved(r, g, [t \in Titles |-> db.aros[r][<<h, t>>]], db, new)
      PROVE  SameRows(db, new)
  <2> DEFINE want == [t \in Titles |-> db.aros[r][<<h, t>>]]
  <2>1. h \in Goals /\ <<r, h>> \in db.args /\ db.goals[h].status \in GoalStatuses
    BY DEF ReportGoals, LiveGoals
  <2>2. \A i \in Goals : <<r, i>> \in db.args => i = h
    BY <2>1 DEF Single
  <2>3. \A i \in Goals : HasMark(i, db) => HasMark(i, new)
    BY <1>2 DEF Saved, SameGoal, HasMark
  <2>4. NoObjectives(db, r) \/ g = h
    <3> SUFFICES ASSUME ~NoObjectives(db, r) PROVE g = h
      OBVIOUS
    <3>1. CASE db.goals[h].status = CLOSED
      <4>1. h \in ClosedGoalsSelectedBeforeClosure(db, r)
        BY <2>1, <3>1 DEF ClosedGoalsSelectedBeforeClosure
      <4>2. g \in Goals /\ <<r, g>> \in db.args
        BY <4>1 DEF GoalChoices, GoalForReport, ClosedGoalsSelectedBeforeClosure, ReportGoals,
                    LiveGoals
      <4> QED BY <2>2, <4>2
    <3>2. CASE db.goals[h].status # CLOSED
      <4>1. h \in GoalsNotClosed(db)
        BY <2>1, <3>2 DEF GoalsNotClosed, LiveGoals
      <4>2. ClosedGoalsSelectedBeforeClosure(db, r) = {}
        BY <2>2, <3>2 DEF ClosedGoalsSelectedBeforeClosure, ReportGoals, LiveGoals
      <4>3. g \in GoalsNotClosed(db)
        BY <4>1, <4>2 DEF GoalChoices, GoalForReport
      <4> QED BY <4>1, <4>3 DEF OneOpen
    <3> QED BY <3>1, <3>2
  <2>5. \A o \in Objectives : o \in Listed(g, want) <=> db.aros[r][o] # NoLink
    <3> SUFFICES ASSUME NEW o \in Objectives
                 PROVE  o \in Listed(g, want) <=> db.aros[r][o] # NoLink
      OBVIOUS
    <3>1. o = <<o[1], o[2]>> /\ o[1] \in Goals /\ o[2] \in Titles
      BY DEF Objectives
    <3>2. db.aros[r][o] # NoLink => o[1] = h
      BY <2>2, <3>1 DEF ObjectivesFit
    <3>3. want[o[2]] = db.aros[r][<<h, o[2]>>] /\ <<h, o[2]>> \in Objectives
      BY <2>1, <3>1 DEF Objectives
    <3>4. o \in Listed(g, want) <=> o[1] = g /\ want[o[2]] # NoLink
      BY <3>1 DEF Listed
    <3>5. CASE NoObjectives(db, r)
      BY <3>3, <3>4, <3>5 DEF NoObjectives
    <3>6. CASE g = h
      BY <3>1, <3>2, <3>3, <3>4, <3>6
    <3> QED BY <2>4, <3>5, <3>6
  <2> HIDE DEF want
  <2>6. Saved(r, g, want, db, new)
    BY <1>2 DEF want
  <2>7. \A o \in Objectives : SameObjective(o, db, new)
    BY <2>5, <2>6 DEF Saved, LeftOrRemoved, Sound, LinkedObjectivesThere
  <2>8. \A s \in Reports, o \in Objectives : new.aros[s][o] # NoLink <=> db.aros[s][o] # NoLink
    BY <2>5, <2>6 DEF Saved, OnlyLinksOf
  <2> QED BY <2>3, <2>7, <2>8 DEF SameRows
<1> QED BY <1>1, <1>2 DEF Resaved

\* The marks follow an approval and the end of one.
LEMMA EnteredMarks ==
  ASSUME NEW db, Marked(db), Used(db), NEW mid, Proper(mid), SameRows(db, mid),
         NEW r \in Reports, \A s \in Reports \ {r} : mid.reports[s] = db.reports[s],
         db.reports[r] # APPROVED, mid.reports[r] = APPROVED, NEW new, Entered(r, mid, new)
  PROVE  Marked(new) /\ Used(new)
<1>1. Keeps(mid, new) /\ mid \in GoalDbs
  BY DEF Entered, Proper, Sound
<1>2. \A o \in Objectives : Linked(o, new) <=> Linked(o, db)
  BY <1>1 DEF Linked, Keeps, SameRows
<1>3. Used(new)
  BY <1>1, <1>2 DEF Used, Entered, ObjectivesMarked, Keeps, SameRows, SameObjective
<1>4. \A o \in Objectives : o \in ReportObjectives(mid, r) <=> new.aros[r][o] # NoLink
  BY <1>1 DEF ReportObjectives, LiveObjectives, Keeps, Proper, Sound, LinkedObjectivesThere
<1>5. \A o \in Objectives : Approved(o, new) <=> Approved(o, db) \/ new.aros[r][o] # NoLink
  BY <1>1 DEF Approved, Keeps, SameRows
<1>6. \A g \in Goals : HasMark(g, db) => HasMark(g, new)
  BY <1>1 DEF HasMark, SameRows, Entered, GoalsMarked
<1>7. \A o \in Objectives : new.aros[r][o] # NoLink => HasMark(o[1], new)
  <2> SUFFICES ASSUME NEW o \in Objectives, new.aros[r][o] # NoLink
               PROVE  HasMark(o[1], new)
    OBVIOUS
  <2>1. o[1] \in Goals /\ <<r, o[1]>> \in mid.args
    BY <1>1 DEF Objectives, Keeps, Proper, OneCycle, ObjectivesFit
  <2>2. mid.goals[o[1]].status \in GoalStatuses
    BY <1>1, <2>1, GoalStatusCases DEF Proper, Sound, LinkedGoalsThere
  <2>3. o[1] \in GoalsOf(mid, ReportObjectives(mid, r))
    BY <1>4, <2>1, <2>2 DEF GoalsOf, LiveGoals
  <2> QED BY <2>1, <2>2, <2>3 DEF HasMark, Entered, GoalsMarked, GoalStatuses
<1>8. Marked(new)
  <2> SUFFICES ASSUME NEW o \in Objectives, new.objectives[o].status # ABSENT
               PROVE  /\ new.objectives[o].onApprovedAR <=> Approved(o, new)
                      /\ new.objectives[o].onApprovedAR => HasMark(o[1], new)
    BY DEF Marked
  <2>1. o[1] \in Goals
    BY DEF Objectives
  <2>2. /\ db.objectives[o].status # ABSENT
        /\ mid.objectives[o].onApprovedAR = db.objectives[o].onApprovedAR
    BY <1>1 DEF Keeps, SameRows, SameObjective
  <2>3. CASE new.aros[r][o] # NoLink
    <3>1. new.objectives[o].onApprovedAR = TRUE
      BY <2>3, <1>4 DEF Entered, ObjectivesMarked
    <3> QED BY <2>3, <3>1, <1>5, <1>7
  <2>4. CASE new.aros[r][o] = NoLink
    <3>1. new.objectives[o].onApprovedAR = db.objectives[o].onApprovedAR
      BY <2>2, <2>4, <1>4 DEF Entered, ObjectivesMarked
    <3> QED BY <2>1, <2>2, <2>4, <3>1, <1>5, <1>6 DEF Marked
  <2> QED BY <2>3, <2>4
<1> QED BY <1>3, <1>8

LEMMA LeftMarks ==
  ASSUME NEW db, Marked(db), Used(db), NEW mid, Proper(mid), SameRows(db, mid),
         NEW r \in Reports, \A s \in Reports \ {r} : mid.reports[s] = db.reports[s],
         db.reports[r] = APPROVED, mid.reports[r] # APPROVED, NEW new, Left(r, mid, new)
  PROVE  Marked(new) /\ Used(new)
<1>1. Keeps(mid, new) /\ mid \in GoalDbs
  BY DEF Left, Proper, Sound
<1>2. \A o \in Objectives : Linked(o, new) <=> Linked(o, db)
  BY <1>1 DEF Linked, Keeps, SameRows
<1>3. Used(new)
  BY <1>1, <1>2 DEF Used, Left, ObjectivesMarked, Keeps, SameRows, SameObjective
<1>4. \A o \in Objectives : o \in ReportObjectives(mid, r) <=> new.aros[r][o] # NoLink
  BY <1>1 DEF ReportObjectives, LiveObjectives, Keeps, Proper, Sound, LinkedObjectivesThere
<1>5. \A o \in Objectives : /\ Approved(o, db) <=> Approved(o, new) \/ new.aros[r][o] # NoLink
                            /\ ObjectiveReports(mid, o, {APPROVED}) = {} <=> ~Approved(o, new)
  BY <1>1 DEF Approved, Keeps, SameRows, ObjectiveReports
<1>6. \A g \in Goals : HasMark(g, db) /\ GoalReports(mid, g, {APPROVED}) # {} => HasMark(g, new)
  BY <1>1 DEF HasMark, SameRows, Left, GoalsMarked
<1>7. \A o \in Objectives : Approved(o, new) => GoalReports(mid, o[1], {APPROVED}) # {}
  BY <1>1 DEF Approved, Keeps, Proper, OneCycle, ObjectivesFit, GoalReports
<1>8. Marked(new)
  <2> SUFFICES ASSUME NEW o \in Objectives, new.objectives[o].status # ABSENT
               PROVE  /\ new.objectives[o].onApprovedAR <=> Approved(o, new)
                      /\ Approved(o, new) => HasMark(o[1], new)
    BY DEF Marked
  <2>1. o[1] \in Goals
    BY DEF Objectives
  <2>2. /\ db.objectives[o].status # ABSENT
        /\ mid.objectives[o].onApprovedAR = db.objectives[o].onApprovedAR
    BY <1>1 DEF Keeps, SameRows, SameObjective
  <2>3. /\ db.objectives[o].onApprovedAR <=> Approved(o, db)
        /\ Approved(o, db) => HasMark(o[1], db)
    BY <2>2 DEF Marked
  <2>4. CASE new.aros[r][o] # NoLink /\ ~Approved(o, new)
    <3>1. new.objectives[o].onApprovedAR = FALSE
      BY <2>4, <1>4, <1>5 DEF Left, ObjectivesMarked
    <3> QED BY <2>4, <3>1
  <2>5. CASE new.aros[r][o] = NoLink \/ Approved(o, new)
    <3>1. new.objectives[o].onApprovedAR = db.objectives[o].onApprovedAR
      BY <2>2, <2>5, <1>4, <1>5 DEF Left, ObjectivesMarked
    <3> QED BY <2>1, <2>3, <2>5, <3>1, <1>5, <1>6, <1>7
  <2> QED BY <2>4, <2>5
<1> QED BY <1>3, <1>8

\* Where no approval is given or taken.
LEMMA SameRowsMarks ==
  ASSUME NEW db, Marked(db), Used(db), NEW new, SameRows(db, new),
         \A s \in Reports : new.reports[s] = APPROVED <=> db.reports[s] = APPROVED
  PROVE  Marked(new) /\ Used(new)
<1>1. \A o \in Objectives : /\ Approved(o, new) <=> Approved(o, db)
                            /\ Linked(o, new) <=> Linked(o, db)
                            /\ o[1] \in Goals
  BY DEF Approved, Linked, SameRows, Objectives
<1>2. \A g \in Goals : HasMark(g, db) => HasMark(g, new)
  BY DEF SameRows
<1>3. Marked(new)
  BY <1>1, <1>2 DEF Marked, SameRows, SameObjective
<1>4. Used(new)
  BY <1>1 DEF Used, SameRows, SameObjective
<1> QED BY <1>3, <1>4

\* The report's own status changes, and the hooks run.
LEMMA WrittenFacts ==
  ASSUME NEW db, Sound(db), NEW r \in Reports, db.reports[r] # DELETED,
         NEW status \in ReportStatuses \ {DELETED}
  PROVE  LET written == [db EXCEPT !.reports[r] = status]
         IN /\ Sound(written) /\ written.ok = db.ok
            /\ written.goals = db.goals /\ written.objectives = db.objectives
            /\ written.args = db.args /\ written.aros = db.aros
            /\ written.selectedBefore = db.selectedBefore
            /\ written.reports = [db.reports EXCEPT ![r] = status]
            /\ \A s \in Reports \ {r} : written.reports[s] = db.reports[s]
            /\ written.reports[r] = status
<1> DEFINE written == [db EXCEPT !.reports[r] = status]
<1>1. db \in GoalDbs
  BY DEF Sound
<1>2. /\ written \in GoalDbs /\ written.ok = db.ok
      /\ written.goals = db.goals /\ written.objectives = db.objectives
      /\ written.args = db.args /\ written.aros = db.aros
      /\ written.selectedBefore = db.selectedBefore
      /\ written.reports = [db.reports EXCEPT ![r] = status]
  BY <1>1 DEF GoalDbs
<1> HIDE DEF written
<1>3. /\ \A s \in Reports : written.reports[s] = DELETED <=> db.reports[s] = DELETED
      /\ \A s \in Reports \ {r} : written.reports[s] = db.reports[s]
      /\ written.reports[r] = status
  BY <1>1, <1>2 DEF GoalDbs
<1>4. LinkedGoalsThere(written)
  BY <1>2, <1>3 DEF Sound, LinkedGoalsThere
<1>5. LinkedObjectivesThere(written)
  BY <1>2, <1>3 DEF Sound, LinkedObjectivesThere
<1>6. ObjectivesFlagged(written) /\ GoalsFlagged(written)
  BY <1>2 DEF Sound, ObjectivesFlagged, GoalsFlagged
<1>7. Sound(written)
  BY <1>2, <1>4, <1>5, <1>6 DEF Sound
<1> QED BY <1>2, <1>3, <1>7 DEF written

\* ... whether or not they fail.
LEMMA WriteReportTyped ==
  ASSUME NEW db, Sound(db), NEW r \in Reports, db.reports[r] # DELETED,
         NEW status \in ReportStatuses \ {DELETED}, NEW begun
  PROVE  LET new == WriteReport(db, r, status, begun)
         IN new \in GoalDbs /\ new.reports = [db.reports EXCEPT ![r] = status]
<1> DEFINE written == [db EXCEPT !.reports[r] = status]
           entering == db.reports[r] # APPROVED /\ status = APPROVED
           leaving  == db.reports[r] = APPROVED /\ status # APPROVED
           resaved == \/ entering
                      \/ leaving /\ status = NEEDS_ACTION
                      \/ db.reports[r] # SUBMITTED /\ status = SUBMITTED
           current == IF resaved THEN ResaveGoals(written, r) ELSE written
           entered == EnterApproved(current, r, begun)
           started == StartGoal(entered, r)
           left == LeaveApproved(current, r, begun)
<1>1. WriteReport(db, r, status, begun)
        = IF entering THEN started ELSE IF leaving THEN left ELSE current
  BY DEF WriteReport
<1>2. /\ Sound(written) /\ written.reports = [db.reports EXCEPT ![r] = status]
      /\ written.reports[r] # DELETED /\ written \in GoalDbs
  BY WrittenFacts DEF Sound
<1> HIDE DEF written
<1>3. current \in GoalDbs /\ current.reports = written.reports
  BY <1>2, ResaveGoalsFacts
<1> HIDE DEF current
<1>4. Keeps(current, entered) /\ Keeps(current, left)
  BY <1>3, ApprovalFacts DEF Entered, Left
<1> HIDE DEF entered, left
<1>5. Keeps(entered, started)
  BY <1>4, StartGoalFacts DEF Keeps, Advances
<1> HIDE DEF started
<1> QED BY <1>1, <1>2, <1>3, <1>4, <1>5 DEF Keeps

\* A request that does not fail leaves everything in order.
LEMMA WriteReportFacts ==
  ASSUME NEW db, Proper(db), Marks(db), Recorded(db), NEW r \in Reports, db.reports[r] # DELETED,
         NEW status \in ReportStatuses \ {DELETED}, NEW begun,
         db.reports[r] = DRAFT => status # NEEDS_ACTION,
         WriteReport(db, r, status, begun).ok
  PROVE  LET new == WriteReport(db, r, status, begun)
         IN /\ Proper(new) /\ NoCloser(db, new) /\ Marks(new) /\ Recorded(new)
            /\ new.reports = [db.reports EXCEPT ![r] = status]
            /\ status \in {SUBMITTED, APPROVED} /\ status # db.reports[r] =>
                 \A g \in Goals : <<r, g>> \in new.args /\ new.goals[g].status = CLOSED
                                    => <<r, g>> \in db.selectedBefore
<1> DEFINE written == [db EXCEPT !.reports[r] = status]
           entering == db.reports[r] # APPROVED /\ status = APPROVED
           leaving  == db.reports[r] = APPROVED /\ status # APPROVED
           resaved == \/ entering
                      \/ leaving /\ status = NEEDS_ACTION
                      \/ db.reports[r] # SUBMITTED /\ status = SUBMITTED
           current == IF resaved THEN ResaveGoals(written, r) ELSE written
           entered == EnterApproved(current, r, begun)
           started == StartGoal(entered, r)
           left == LeaveApproved(current, r, begun)
           new == WriteReport(db, r, status, begun)
<1>1. new = IF entering THEN started ELSE IF leaving THEN left ELSE current
  BY DEF WriteReport
<1>2. db \in GoalDbs /\ OneCycle(db, r) /\ OneOpen(db) /\ Marked(db) /\ Used(db)
  BY DEF Proper, Sound, Marks
<1>3. /\ written \in GoalDbs /\ Sound(written)
      /\ written.goals = db.goals /\ written.objectives = db.objectives
      /\ written.args = db.args /\ written.aros = db.aros
      /\ written.selectedBefore = db.selectedBefore
      /\ written.reports = [db.reports EXCEPT ![r] = status]
  BY WrittenFacts DEF Proper, Sound
<1> HIDE DEF written
<1>4. /\ \A s \in Reports \ {r} : written.reports[s] = db.reports[s]
      /\ written.reports[r] = status
  BY <1>2, <1>3 DEF GoalDbs
<1>6. /\ \A s \in Reports \ {r} : OneCycle(written, s)
      /\ ObjectivesFit(written, r)
      /\ OneOpen(written)
  BY <1>2, <1>3, <1>4, OpenStays
     DEF Proper, OneCycle, Single, ObjectivesFit, NoObjectives, Objectives
<1>7. current \in GoalDbs
  BY <1>3, <1>4, ResaveGoalsFacts
<1> HIDE DEF current
<1>8. Entered(r, current, entered) /\ Left(r, current, left)
  BY <1>7, ApprovalFacts
<1>9. entered \in GoalDbs
  BY <1>8 DEF Entered, Keeps
<1> HIDE DEF entered, left
<1>10. Advances(entered, started) /\ SameMarks(entered, started)
  BY <1>9, StartGoalFacts
<1>11. current.ok
  BY <1>1, <1>8, <1>10 DEF Entered, Left, Advances, Keeps
<1>12. resaved => Resaved(r, written, current)
  BY <1>3, <1>4, <1>11, ResaveGoalsFacts DEF current
<1>13. ~resaved => current = written
  BY DEF current
<1>14. /\ Carries(written, current) /\ OneOpen(current)
       /\ resaved => \A g \in Goals : <<r, g>> \in current.args /\ current.goals[g].status = CLOSED
                                        => <<r, g>> \in db.selectedBefore
  <2>1. CASE resaved
    BY <2>1, <1>3, <1>6, <1>12, ResavedCarries
  <2>2. CASE ~resaved
    <3>1. OneCycle(written, r)
      BY <2>2, <1>2, <1>3, <1>4 DEF OneCycle, Single, ObjectivesFit, NoObjectives, ReportStatuses
    <3>2. Proper(written)
      BY <3>1, <1>3, <1>6 DEF Proper
    <3> QED BY <2>2, <3>2, <1>6, <1>13, CarriesItself
  <2> QED BY <2>1, <2>2
<1>15. Proper(current) /\ NoCloser(db, current) /\ current.reports = written.reports
  BY <1>3, <1>14 DEF Carries, NoCloser
<1>a. \A s \in Reports \ {r} : current.aros[s] = db.aros[s]
  <2>1. CASE current = written
    BY <2>1, <1>3
  <2>2. ASSUME NEW g, NEW want, Saved(r, g, want, written, current)
        PROVE  \A s \in Reports \ {r} : current.aros[s] = db.aros[s]
    BY <2>2, <1>3 DEF Saved, OnlyLinksOf
  <2> QED BY <2>1, <2>2, <1>12, <1>13 DEF Resaved
<1> DEFINE pre == [current EXCEPT !.reports = db.reports]
<1>16. /\ pre.goals = current.goals /\ pre.objectives = current.objectives
       /\ pre.args = current.args /\ pre.aros = current.aros
       /\ pre.selectedBefore = current.selectedBefore /\ pre.reports = db.reports
  BY <1>7 DEF GoalDbs
<1> HIDE DEF pre
<1>17. SameRows(pre, current)
  BY <1>16 DEF SameRows, SameObjective, HasMark
<1>18. CASE leaving
  <2>1. db.reports[r] = APPROVED /\ status # APPROVED
    BY <1>18
  <2>2. new = left
    BY <1>1, <2>1
  <2>3. Single(db, r)
    BY <2>1, <1>2 DEF OneCycle
  <2>4. SameRows(db, current)
    <3>1. CASE ~resaved
      BY <3>1, <1>3, <1>13 DEF SameRows, SameObjective, HasMark
    <3>2. CASE resaved
      <4>1. Single(written, r) /\ NoObjectives(written, r) <=> NoObjectives(db, r)
        BY <2>3, <1>3 DEF Single, NoObjectives
      <4>2. SameRows(written, current)
        BY <2>1, <2>3, <3>2, <4>1, <1>3, <1>6, <1>12, ResavedSame DEF Recorded, Single,
           NoObjectives
      <4> QED BY <4>2, <1>3 DEF SameRows, SameObjective, HasMark
    <3> QED BY <3>1, <3>2
  <2>5. Marked(left) /\ Used(left)
    BY <2>1, <2>4, <1>2, <1>4, <1>8, <1>15, LeftMarks
  <2>6. Advances(current, left)
    BY <1>8, MarkingAdvances
  <2>7. Carries(current, left)
    BY <2>6, <1>15, AdvancesCarries
  <2>8. OneOpen(left)
    BY <1>8, <1>14, OpenStays DEF Left, GoalsMarked
  <2>9. NoCloser(db, left) /\ left.reports = written.reports /\ Proper(left)
    BY <2>7, <1>15 DEF Carries, NoCloser
  <2>10. left.args = current.args /\ left.aros = current.aros
         /\ \A g \in Goals : left.goals[g].status = current.goals[g].status
    BY <1>8 DEF Left, Keeps, GoalsMarked
  <2>11. \A s \in Reports \ {r} : left.aros[s] = db.aros[s]
    BY <2>10, <1>a
  <2>12. Recorded(left)
    BY <2>1, <2>9, <2>11, <1>4 DEF Recorded, NoCloser, NoObjectives
  <2>13. status \in {SUBMITTED, APPROVED} =>
           \A g \in Goals : <<r, g>> \in left.args /\ left.goals[g].status = CLOSED
                              => <<r, g>> \in db.selectedBefore
    BY <2>1, <2>10, <1>14
  <2> QED BY <2>2, <2>5, <2>8, <2>9, <2>12, <2>13, <1>3 DEF Marks
<1>19. ~leaving => Marked(pre) /\ Used(pre)
  <2> SUFFICES ASSUME ~leaving PROVE Marked(pre) /\ Used(pre)
    OBVIOUS
  <2>1. CASE resaved
    <3>1. \E os : Settled(r, os, db, pre)
      BY <2>1, <1>3, <1>6, <1>12, <1>16, ResavedSettles
    <3>2. db.reports[r] # APPROVED
      BY <2>1
    <3> QED BY <3>1, <3>2, <1>2, SettledMarks DEF Proper
  <2>2. CASE ~resaved
    <3>1. SameRows(db, pre)
      BY <2>2, <1>3, <1>13, <1>16 DEF SameRows, SameObjective, HasMark
    <3> QED BY <3>1, <1>2, <1>16, SameRowsMarks
  <2> QED BY <2>1, <2>2
<1>20. CASE entering
  <2>1. db.reports[r] # APPROVED /\ status = APPROVED /\ resaved
    BY <1>20
  <2>2. new = started
    BY <1>1, <2>1
  <2>3. Marked(pre) /\ Used(pre) /\ pre.reports[r] # APPROVED
    BY <2>1, <1>16, <1>19
  <2>4. Marked(entered) /\ Used(entered)
    BY <2>1, <2>3, <1>4, <1>8, <1>15, <1>16, <1>17, EnteredMarks
  <2>5. Marked(started) /\ Used(started)
    BY <2>4, <1>10, SameMarksFacts DEF Advances
  <2>6. OneOpen(started)
    <3>1. OneOpen(entered)
      BY <1>8, <1>14, OpenStays DEF Entered, GoalsMarked
    <3>2. started.ok
      BY <2>2
    <3> QED BY <3>1, <3>2, <1>9, StartGoalOpen
  <2>7. Carries(current, started)
    BY <1>8, <1>10, <1>15, MarkingAdvances, AdvancesTransitive, AdvancesCarries
  <2>8. /\ started.args = current.args /\ started.aros = current.aros
        /\ current.selectedBefore \subseteq started.selectedBefore
        /\ \A g \in Goals : started.goals[g].status = CLOSED => current.goals[g].status = CLOSED
    <3>1. Advances(current, started)
      BY <1>8, <1>10, MarkingAdvances, AdvancesTransitive
    <3> QED BY <3>1 DEF Advances, Keeps
  <2> HIDE DEF started
  <2>9. NoCloser(db, started) /\ started.reports = written.reports /\ Proper(started)
    BY <2>7, <1>15 DEF Carries, NoCloser
  <2>10. \A s \in Reports \ {r} : started.aros[s] = db.aros[s]
    BY <2>8, <1>a
  <2>11. \A g \in Goals : <<r, g>> \in started.args /\ started.goals[g].status = CLOSED
                            => <<r, g>> \in db.selectedBefore
    BY <2>1, <2>8, <1>14
  <2>12. Recorded(started)
    BY <2>9, <2>10, <2>11, <1>4 DEF Recorded, NoCloser, NoObjectives
  <2> QED BY <2>2, <2>5, <2>6, <2>9, <2>11, <2>12, <1>3 DEF Marks
<1>21. CASE ~entering /\ ~leaving
  <2>1. new = current /\ (status = APPROVED <=> db.reports[r] = APPROVED)
    BY <1>1, <1>21
  <2>2. Marked(current) /\ Used(current)
    <3>1. \A s \in Reports : current.reports[s] = APPROVED <=> pre.reports[s] = APPROVED
      BY <2>1, <1>4, <1>15, <1>16
    <3> QED BY <3>1, <1>17, <1>19, <1>21, SameRowsMarks
  <2>3. \A s \in Reports : current.reports[s] = APPROVED =>
          db.reports[s] = APPROVED /\ current.aros[s] = db.aros[s]
    <3>1. \A s \in Reports \ {r} : current.reports[s] = db.reports[s]
      BY <1>4, <1>15
    <3>2. current.reports[r] = APPROVED =>
            db.reports[r] = APPROVED /\ current.aros[r] = db.aros[r]
      BY <2>1, <1>3, <1>4, <1>13, <1>15
    <3> QED BY <3>1, <3>2, <1>a
  <2>4. Recorded(current)
    BY <2>3, <1>15 DEF Recorded, NoCloser, NoObjectives
  <2>5. status \in {SUBMITTED, APPROVED} /\ status # db.reports[r] =>
          \A g \in Goals : <<r, g>> \in current.args /\ current.goals[g].status = CLOSED
                             => <<r, g>> \in db.selectedBefore
    BY <2>1, <1>14
  <2> QED BY <2>1, <2>2, <2>4, <2>5, <1>3, <1>14, <1>15 DEF Marks
<1> QED BY <1>18, <1>20, <1>21

-----------------------------------------------------------------------------
\* What a request does: it puts no report in work onto a closed goal, and none is
\* submitted or approved on one that it had not selected before.
NoneStarted(r, g, db, new) ==
  new.reports[r] \in Active => <<r, g>> \in db.args /\ db.goals[g].status = CLOSED

NoneTurnedIn(r, g, db, new) ==
  \/ new.reports[r] \notin {SUBMITTED, APPROVED} \/ new.reports[r] = db.reports[r]
  \/ <<r, g>> \in db.selectedBefore

NoNewWork(db, new) ==
  \A r \in Reports, g \in Goals : <<r, g>> \in new.args /\ new.goals[g].status = CLOSED =>
    NoneStarted(r, g, db, new) /\ NoneTurnedIn(r, g, db, new)

Fine(db, new) == Valid(new) /\ NoNewWork(db, new)

\* Where no report is approved, and what approved ones link stays.
LEMMA RecordedStays ==
  ASSUME NEW db, NEW new, Recorded(db), NoCloser(db, new),
         \A r \in Reports : new.reports[r] = APPROVED =>
           db.reports[r] = APPROVED /\ new.aros[r] = db.aros[r]
  PROVE  Recorded(new)
BY DEF Recorded, NoCloser, NoObjectives

LEMMA NoCloserIsFine ==
  ASSUME NEW db, NEW new, Proper(new), Marks(new), NoCloser(db, new), Recorded(db),
         \A r \in Reports : /\ new.reports[r] \in {db.reports[r], DRAFT, NEEDS_ACTION, DELETED}
                            /\ new.reports[r] = APPROVED => new.aros[r] = db.aros[r]
  PROVE  Fine(db, new)
<1>1. Recorded(new)
  BY RecordedStays
<1>2. NoNewWork(db, new)
  BY DEF NoCloser, NoNewWork, NoneStarted, NoneTurnedIn
<1> QED BY <1>1, <1>2 DEF Fine, Valid

LEMMA CarriesIsFine ==
  ASSUME NEW db, NEW new, Carries(db, new), Marks(new), Recorded(db), SameApproved(db, new)
  PROVE  Fine(db, new)
BY NoCloserIsFine DEF Carries, SameApproved

LEMMA CommitIsDb ==
  ASSUME NEW db, Valid(db), Commit(db)
  PROVE  Db' = db /\ GoalInv'
<1>1. db \in GoalDbs
  BY DEF Valid, Proper, Sound
<1>2. Db' = db
  <2>1. db = [goals |-> db.goals, objectives |-> db.objectives, reports |-> db.reports,
              args |-> db.args, selectedBefore |-> db.selectedBefore, aros |-> db.aros,
              ok |-> db.ok]
    BY <1>1 DEF GoalDbs
  <2>2. db.ok = TRUE
    BY <1>1 DEF GoalDbs, Commit
  <2> QED BY <2>1, <2>2 DEF Db, Commit
<1>3. GoalInv' <=> Valid(Db')
  BY DEF GoalInv
<1> QED BY <1>2, <1>3

LEMMA CommitFacts ==
  ASSUME NEW db, Fine(Db, db), Commit(db)
  PROVE  GoalInv' /\ NoNewWork(Db, Db')
BY CommitIsDb DEF Fine

LEMMA DbFields ==
  /\ Db.goals = goals /\ Db.objectives = objectives /\ Db.reports = reports
  /\ Db.args = args /\ Db.selectedBefore = selectedBefore /\ Db.aros = aros
BY DEF Db

\* The invariant, by what it says of the rows.
LEMMA InvFacts ==
  ASSUME GoalInv
  PROVE  /\ Proper(Db) /\ Sound(Db) /\ Db \in GoalDbs
         /\ Marks(Db) /\ OneOpen(Db) /\ Marked(Db) /\ Used(Db) /\ Recorded(Db)
BY DEF GoalInv, Valid, Proper, Sound, Marks

LEMMA SaveReportGoalFine ==
  ASSUME GoalInv, NEW r \in Reports, NEW g \in Goals,
         NEW want \in [Titles -> GivenObjectiveStatuses \union {NoLink}],
         SaveReportGoal(r, g, want)
  PROVE  GoalInv' /\ NoNewWork(Db, Db')
<1> DEFINE new == SaveGoal(Db, r, g, want)
<1>1. want \in [Titles -> Links]
  BY GivenStatusesAssumption DEF Links
<1>2. /\ Db.goals[g].status # GONE
      /\ Db.goals[g].status = CLOSED => <<r, g>> \in Db.args
      /\ Db.goals[g].status = ABSENT => GoalsNotClosed(Db) = {}
  BY GoalChoicesFit DEF SaveReportGoal
<1>3. Db.reports[r] # DELETED /\ Db.reports[r] # APPROVED /\ Commit(new)
  BY DbFields DEF SaveReportGoal, Active
<1>4. Saved(r, g, want, Db, new)
  BY <1>1, <1>2, <1>3, InvFacts, SaveGoalFacts
<1> HIDE DEF new
<1>5. Carries(Db, new)
  BY <1>2, <1>4, InvFacts, SavedCarries DEF Proper
<1>6. Marked(new) /\ Used(new)
  <2>1. Settled(r, Listed(g, want), Db, new)
    BY <1>4 DEF Saved, Settled
  <2> QED BY <2>1, <1>3, InvFacts, SettledMarks
<1>7. OneOpen(new)
  BY <1>2, <1>4, InvFacts, SavedOpen
<1>8. SameApproved(Db, new)
  BY <1>3, <1>4, LinksOfUnapproved DEF Saved
<1> QED BY <1>3, <1>5, <1>6, <1>7, <1>8, InvFacts, CarriesIsFine, CommitFacts DEF Marks

LEMMA SaveReportWithoutGoalFine ==
  ASSUME GoalInv, NEW r \in Reports, SaveReportWithoutGoal(r)
  PROVE  GoalInv' /\ NoNewWork(Db, Db')
<1> DEFINE new == SaveNoGoal(Db, r)
<1>1. Db.reports[r] # APPROVED /\ Commit(new)
  BY DbFields DEF SaveReportWithoutGoal, Active
<1>2. Carries(Db, new)
  BY InvFacts, SaveNoGoalCarries
<1>3. Kept(r, {}, {}, Db, new)
  BY InvFacts, KeepOnReportFacts DEF SaveNoGoal
<1> HIDE DEF new
<1>4. Marked(new) /\ Used(new)
  BY <1>1, <1>3, InvFacts, SettledMarks DEF Settled, Kept
<1>5. OneOpen(new)
  BY <1>3, InvFacts, OpenStays DEF Kept, SameGoal
<1>6. SameApproved(Db, new)
  BY <1>1, <1>3, LinksOfUnapproved DEF Kept
<1> QED BY <1>1, <1>2, <1>4, <1>5, <1>6, InvFacts, CarriesIsFine, CommitFacts DEF Marks

\* The requests that only change the report's status.
LEMMA WriteReportFine ==
  ASSUME GoalInv, NEW r \in Reports, Db.reports[r] # DELETED,
         NEW status \in ReportStatuses \ {DELETED}, NEW begun,
         Db.reports[r] = DRAFT => status # NEEDS_ACTION,
         Commit(WriteReport(Db, r, status, begun))
  PROVE  GoalInv' /\ NoNewWork(Db, Db')
<1> DEFINE new == WriteReport(Db, r, status, begun)
<1>1. new.ok
  BY DEF Commit
<1>2. /\ Proper(new) /\ NoCloser(Db, new) /\ Marks(new) /\ Recorded(new)
      /\ new.reports = [Db.reports EXCEPT ![r] = status]
      /\ status \in {SUBMITTED, APPROVED} /\ status # Db.reports[r] =>
           \A g \in Goals : <<r, g>> \in new.args /\ new.goals[g].status = CLOSED
                              => <<r, g>> \in Db.selectedBefore
  BY <1>1, InvFacts, WriteReportFacts
<1> HIDE DEF new
<1>3. new.reports[r] = status /\ \A s \in Reports \ {r} : new.reports[s] = Db.reports[s]
  BY <1>2, InvFacts DEF GoalDbs
<1>4. NoNewWork(Db, new)
  BY <1>2, <1>3 DEF NoNewWork, NoneStarted, NoneTurnedIn, NoCloser
<1> QED BY <1>2, <1>4, CommitFacts DEF Fine, Valid, new

LEMMA StatusRequestsFine ==
  ASSUME GoalInv, NEW r \in Reports,
         \/ \E outcome \in {SUBMITTED, APPROVED}, begun \in SUBSET SuspendedObjectives :
              SubmitReport(r, outcome, begun)
         \/ \E outcome \in {APPROVED, NEEDS_ACTION}, begun \in SUBSET SuspendedObjectives :
              ReviewReport(r, outcome, begun)
         \/ \E begun \in SUBSET SuspendedObjectives : UnlockReport(r, begun)
  PROVE  GoalInv' /\ NoNewWork(Db, Db')
<1>1. {SUBMITTED, APPROVED, NEEDS_ACTION} \subseteq ReportStatuses \ {DELETED}
  BY DEF ReportStatuses
<1>2. ASSUME NEW outcome \in {SUBMITTED, APPROVED}, NEW begun, SubmitReport(r, outcome, begun)
      PROVE  GoalInv' /\ NoNewWork(Db, Db')
  BY <1>1, <1>2, DbFields, WriteReportFine DEF SubmitReport
<1>3. ASSUME NEW outcome \in {APPROVED, NEEDS_ACTION}, NEW begun, ReviewReport(r, outcome, begun)
      PROVE  GoalInv' /\ NoNewWork(Db, Db')
  BY <1>1, <1>3, DbFields, WriteReportFine DEF ReviewReport
<1>4. ASSUME NEW begun, UnlockReport(r, begun)
      PROVE  GoalInv' /\ NoNewWork(Db, Db')
  BY <1>1, <1>4, DbFields, WriteReportFine DEF UnlockReport
<1> QED BY <1>2, <1>3, <1>4

LEMMA ResetToDraftFine ==
  ASSUME GoalInv, NEW r \in Reports, NEW begun, ResetToDraft(r, begun)
  PROVE  GoalInv' /\ NoNewWork(Db, Db')
<1> DEFINE mid == WriteReport(Db, r, SUBMITTED, begun)
           new == WriteReport(mid, r, DRAFT, {})
<1>1. {SUBMITTED, DRAFT} \subseteq ReportStatuses \ {DELETED}
  BY DEF ReportStatuses
<1>2. Db.reports[r] # DELETED /\ Commit(new) /\ new.ok
  BY DbFields DEF ResetToDraft, Commit
<1>3. mid \in GoalDbs /\ mid.reports = [Db.reports EXCEPT ![r] = SUBMITTED]
  BY <1>1, <1>2, InvFacts, WriteReportTyped
<1>4. mid.reports[r] = SUBMITTED
  BY <1>3, InvFacts DEF GoalDbs
<1>5. mid.ok
  <2> HIDE DEF mid
  <2>1. new = [mid EXCEPT !.reports[r] = DRAFT]
    BY <1>4 DEF WriteReport
  <2> QED BY <2>1, <1>2, <1>3 DEF GoalDbs
<1>6. Proper(mid) /\ NoCloser(Db, mid) /\ Marks(mid) /\ Recorded(mid)
  BY <1>1, <1>2, <1>5, InvFacts, WriteReportFacts
<1> HIDE DEF mid
<1>7. /\ Proper(new) /\ NoCloser(mid, new) /\ Marks(new) /\ Recorded(new)
      /\ new.reports = [mid.reports EXCEPT ![r] = DRAFT]
  BY <1>1, <1>2, <1>4, <1>6, WriteReportFacts
<1> HIDE DEF new
<1>8. new.reports[r] = DRAFT /\ \A s \in Reports \ {r} : new.reports[s] = Db.reports[s]
  BY <1>3, <1>7, InvFacts DEF GoalDbs
<1>9. NoNewWork(Db, new)
  BY <1>6, <1>7, <1>8 DEF NoNewWork, NoneStarted, NoneTurnedIn, NoCloser
<1> QED BY <1>2, <1>7, <1>9, CommitFacts DEF Fine, Valid

\* The recipient is taken off: all links of the report go first.
LEMMA RemoveRecipientFine ==
  ASSUME GoalInv, NEW r \in Reports, RemoveRecipient(r)
  PROVE  GoalInv' /\ NoNewWork(Db, Db')
<1> DEFINE gs == ReportGoals(Db, r)
           os == {o \in ReportObjectives(Db, r) : o[1] \in gs}
           a  == DestroyARGs(Db, r, gs)
           b  == DestroyAROs(a, r, os)
           unused == {o \in os : /\ ObjectiveReports(Db, o, ReportStatuses) = {r}
                                 /\ ~objectives[o].onApprovedAR}
           c  == DestroyObjectives(b, unused)
           ended == {g \in gs : /\ GoalReports(Db, g, ReportStatuses) = {r}
                                /\ goals[g].via = "activityReport"
                                /\ ~goals[g].onApprovedAR}
           d  == DestroyGoals(c, ended)
<1>1. Db.reports[r] # DELETED /\ Db.reports[r] # APPROVED /\ Commit(d)
  BY DbFields DEF RemoveRecipient, Active
<1>2. Proper(Db) /\ Sound(Db) /\ Db \in GoalDbs
  BY InvFacts
<1>3. gs \subseteq Goals /\ os \subseteq Objectives
  BY DEF ReportGoals, ReportObjectives, LiveGoals, LiveObjectives
<1>4. \A g \in Goals : <<r, g>> \in Db.args => g \in gs
  BY <1>1, <1>2, GoalStatusCases DEF Sound, LinkedGoalsThere, ReportGoals, LiveGoals
<1>5. \A o \in Objectives : Db.aros[r][o] # NoLink => o \in os
  BY <1>2, <1>4 DEF Proper, Sound, LinkedObjectivesThere, OneCycle, ObjectivesFit,
                    Objectives, ReportObjectives, LiveObjectives
<1>6. \A s \in Reports \ {r}, o \in unused : Db.aros[s][o] = NoLink
  <2> SUFFICES ASSUME NEW s \in Reports \ {r}, NEW o \in unused, Db.aros[s][o] # NoLink PROVE FALSE
    OBVIOUS
  <2>1. s \in ObjectiveReports(Db, o, ReportStatuses)
    BY <1>2 DEF ObjectiveReports, GoalDbs
  <2> QED BY <2>1
<1>7. \A s \in Reports \ {r}, g \in ended : <<s, g>> \notin Db.args
  <2> SUFFICES ASSUME NEW s \in Reports \ {r}, NEW g \in ended, <<s, g>> \in Db.args PROVE FALSE
    OBVIOUS
  <2>1. s \in GoalReports(Db, g, ReportStatuses)
    BY <1>2 DEF GoalReports, GoalDbs
  <2> QED BY <2>1
<1>8. ended \subseteq gs /\ unused \subseteq os
  OBVIOUS
<1> HIDE DEF gs, os, unused, ended
<1>9. /\ Sound(a) /\ a.aros = Db.aros
      /\ a.args = Db.args \ ({r} \X gs)
      /\ OnlyLinksOf(r, Db, a)
      /\ a.objectives = Db.objectives
      /\ \A g \in Goals : SameGoal(g, Db, a)
  BY <1>2, <1>3, DestroyARGsFacts
<1> HIDE DEF a
<1>10. Sound(b) /\ AROsGone(r, os, a, b)
  BY <1>3, <1>9, DestroyAROsFacts
<1> HIDE DEF b
<1>11. OnlyLinksOf(r, Db, b)
  BY <1>9, <1>10, OnlyLinksTransitive DEF AROsGone
<1>12. \A o \in Objectives : b.aros[r][o] = NoLink
  BY <1>5, <1>9, <1>10 DEF AROsGone
<1>13. \A g \in Goals : <<r, g>> \notin b.args
  BY <1>4, <1>9, <1>10 DEF AROsGone
<1>14. \A s \in Reports, o \in Objectives : o \in unused => b.aros[s][o] = NoLink
  BY <1>6, <1>11, <1>12 DEF OnlyLinksOf
<1>15. /\ Sound(c) /\ c.goals = b.goals /\ c.reports = b.reports
       /\ c.args = b.args /\ c.selectedBefore = b.selectedBefore /\ c.aros = b.aros
       /\ \A o \in Objectives :
            c.objectives[o] = IF o \in unused THEN NoObjective ELSE b.objectives[o]
  BY <1>10, <1>14, DestroyObjectivesSound, DestroyObjectivesFacts DEF Sound
<1> HIDE DEF c
<1>16. \A s \in Reports, g \in Goals : g \in ended => <<s, g>> \notin c.args
  BY <1>7, <1>11, <1>13, <1>15 DEF OnlyLinksOf
<1>17. /\ Sound(d) /\ d.reports = c.reports /\ d.args = c.args /\ d.aros = c.aros
       /\ d.selectedBefore = c.selectedBefore
       /\ d.objectives = c.objectives
       /\ \A g \in Goals : d.goals[g].status = GONE \/ d.goals[g] = c.goals[g]
  BY <1>15, <1>16, DestroyGoalsSound, DestroyGoalsFacts DEF Sound
<1> HIDE DEF d
<1>18. OnlyLinksOf(r, Db, d)
  BY <1>11, <1>15, <1>17 DEF OnlyLinksOf
<1>19. OneCycle(d, r)
  BY <1>12, <1>13, <1>15, <1>17 DEF OneCycle, Single, ObjectivesFit
<1>20. \A s \in Reports \ {r} : OneCycle(d, s)
  BY <1>2, <1>17, <1>18, OthersKeepTheirCycle DEF Proper
<1>21. \A g \in Goals : d.goals[g].status = GONE \/ SameGoal(g, Db, d)
  BY <1>9, <1>10, <1>15, <1>17 DEF AROsGone, SameGoal
<1>22. NoCloser(Db, d)
  BY <1>13, <1>15, <1>17, <1>18, <1>21 DEF NoCloser, OnlyLinksOf, SameGoal
<1>23. Marked(d) /\ Used(d)
  <2>1. \A o \in Objectives : IF o \in unused THEN d.objectives[o].status = ABSENT
                                              ELSE SameObjective(o, Db, d)
    <3>1. NoObjective.status = ABSENT
      BY DEF NoObjective
    <3> QED BY <3>1, <1>9, <1>10, <1>15, <1>17 DEF AROsGone, SameObjective
  <2>2. \A o \in Objectives :
          \/ o \in unused
          \/ Db.aros[r][o] = NoLink
          \/ Db.objectives[o].onApprovedAR
          \/ \E s \in Reports \ {r} : Db.aros[s][o] # NoLink
    <3> SUFFICES ASSUME NEW o \in Objectives, o \notin unused, Db.aros[r][o] # NoLink,
                        ~Db.objectives[o].onApprovedAR
                 PROVE  \E s \in Reports \ {r} : Db.aros[s][o] # NoLink
      OBVIOUS
    <3>1. r \in ObjectiveReports(Db, o, ReportStatuses)
      BY <1>2 DEF ObjectiveReports, GoalDbs
    <3>2. ObjectiveReports(Db, o, ReportStatuses) # {r}
      BY <1>5, DbFields DEF unused
    <3> QED BY <3>1, <3>2 DEF ObjectiveReports
  <2>3. \A o \in Objectives : Wanted(o, d) \/ Db.aros[r][o] = NoLink
    BY <2>1, <2>2, <1>18 DEF Wanted, Linked, SameObjective, OnlyLinksOf
  <2>4. \A o \in Objectives : LeftOrRemoved(o, r, {}, Db, d)
    BY <2>1, <2>3, <1>5, <1>8 DEF LeftOrRemoved, os, ReportObjectives
  <2>5. Settled(r, {}, Db, d)
    BY <2>4, <1>18, <1>21 DEF Settled
  <2> QED BY <2>5, <1>1, <1>2, InvFacts, SettledMarks
<1>24. OneOpen(d)
  BY <1>21, InvFacts, OpenStays DEF SameGoal
<1>25. SameApproved(Db, d) /\ d.reports = Db.reports
  BY <1>1, <1>18, LinksOfUnapproved DEF OnlyLinksOf
<1>26. Carries(Db, d)
  BY <1>17, <1>19, <1>20, <1>22, <1>25 DEF Carries, Proper
<1> QED BY <1>1, <1>23, <1>24, <1>25, <1>26, InvFacts, CarriesIsFine, CommitFacts DEF Marks

\* A report is deleted: for a while links point to nothing, but only its own.
LEMMA DestroyObjectivesHalf ==
  ASSUME NEW db, NEW os, ObjectivesSound(db),
         \A r \in Reports, o \in Objectives : o \in os => db.aros[r][o] = NoLink
  PROVE  ObjectivesSound(DestroyObjectives(db, os))
<1> DEFINE new == DestroyObjectives(db, os)
<1>1. db \in GoalDbs
  BY DEF ObjectivesSound
<1>2. /\ new \in GoalDbs /\ new.reports = db.reports /\ new.aros = db.aros
      /\ \A o \in Objectives :
           new.objectives[o] = IF o \in os THEN NoObjective ELSE db.objectives[o]
  BY <1>1, DestroyObjectivesFacts
<1>3. NoObjective.onAR = FALSE
  BY DEF NoObjective
<1> HIDE DEF new
<1>4. LinkedObjectivesThere(new)
  BY <1>2 DEF ObjectivesSound, LinkedObjectivesThere
<1>5. ObjectivesFlagged(new)
  BY <1>2, <1>3 DEF ObjectivesSound, ObjectivesFlagged
<1> QED BY <1>2, <1>4, <1>5 DEF ObjectivesSound, new

CleanedUp(r, db, new) ==
  /\ ObjectivesSound(new)
  /\ new.goals = db.goals /\ new.args = db.args /\ new.selectedBefore = db.selectedBefore
  /\ OnlyLinksOf(r, db, new)
  /\ \A o \in Objectives :
       /\ new.aros[r][o] = NoLink
       /\ \/ /\ SameObjective(o, db, new)
             /\ \/ db.aros[r][o] = NoLink
                \/ db.objectives[o].via # "activityReport"
                \/ Linked(o, new)
          \/ new.objectives[o].status = ABSENT

LEMMA CleanupFacts ==
  ASSUME NEW db, ObjectivesSound(db), NEW r \in Reports
  PROVE  CleanedUp(r, db, CleanupOrphanedObjectivesAndAROs(db, r))
<1> DEFINE os   == ReportObjectives(db, r)
           left == DestroyAROs(db, r, os)
           D    == {o \in os : /\ ObjectiveReports(left, o, NotDeleted) = {}
                               /\ left.objectives[o].via = "activityReport"}
           new  == DestroyObjectives(left, D)
<1>1. CleanupOrphanedObjectivesAndAROs(db, r) = new
  BY DEF CleanupOrphanedObjectivesAndAROs
<1>2. os \subseteq Objectives
  BY DEF ReportObjectives, LiveObjectives
<1>3. \A o \in Objectives : db.aros[r][o] # NoLink => o \in os
  BY DEF ObjectivesSound, LinkedObjectivesThere, ReportObjectives, LiveObjectives
<1> HIDE DEF os
<1>4. ObjectivesSound(left) /\ AROsGone(r, os, db, left)
  BY <1>2, DestroyAROsObjectives
<1> HIDE DEF left
<1>5. \A s \in Reports, o \in Objectives : o \in D => left.aros[s][o] = NoLink
  <2> SUFFICES ASSUME NEW s \in Reports, NEW o \in Objectives, o \in D, left.aros[s][o] # NoLink
               PROVE FALSE
    OBVIOUS
  <2>1. left.reports[s] \in NotDeleted
    BY <1>4 DEF ObjectivesSound, LinkedObjectivesThere, GoalDbs, NotDeleted
  <2>2. s \in ObjectiveReports(left, o, NotDeleted)
    BY <2>1 DEF ObjectiveReports
  <2> QED BY <2>2
<1>a. \A o \in os \ D : left.objectives[o].via # "activityReport" \/ Linked(o, left)
  BY DEF ObjectiveReports, Linked
<1> HIDE DEF D
<1>6. /\ ObjectivesSound(new) /\ new.goals = left.goals /\ new.args = left.args
      /\ new.selectedBefore = left.selectedBefore
      /\ new.aros = left.aros /\ new.reports = left.reports
      /\ \A o \in Objectives :
           new.objectives[o] = IF o \in D THEN NoObjective ELSE left.objectives[o]
  BY <1>4, <1>5, DestroyObjectivesHalf, DestroyObjectivesFacts DEF ObjectivesSound
<1> HIDE DEF new
<1>7. \A o \in Objectives : new.aros[r][o] = NoLink
  BY <1>3, <1>4, <1>6 DEF AROsGone
<1>8. OnlyLinksOf(r, db, new)
  BY <1>4, <1>6 DEF AROsGone, OnlyLinksOf
<1>9. new.goals = db.goals /\ new.args = db.args /\ new.selectedBefore = db.selectedBefore
  BY <1>4, <1>6 DEF AROsGone
<1>10. NoObjective.status = ABSENT
  BY DEF NoObjective
<1>11. \A o \in Objectives :
         \/ /\ SameObjective(o, db, new)
            /\ \/ db.aros[r][o] = NoLink
               \/ db.objectives[o].via # "activityReport"
               \/ Linked(o, new)
         \/ new.objectives[o].status = ABSENT
  BY <1>3, <1>4, <1>6, <1>10, <1>a DEF AROsGone, SameObjective, Linked
<1> QED BY <1>1, <1>6, <1>7, <1>8, <1>9, <1>11 DEF CleanedUp

LEMMA SoftDeleteReportFine ==
  ASSUME GoalInv, NEW r \in Reports, SoftDeleteReport(r)
  PROVE  GoalInv' /\ NoNewWork(Db, Db')
<1> DEFINE gs == {g \in ReportGoals(Db, r) : /\ goals[g].via = "activityReport"
                                             /\ GoalReports(Db, g, ReportStatuses) = {r}}
           os == {o \in LiveObjectives(Db) : o[1] \in gs}
           a  == DestroyObjectives(Db, os)
           b  == DestroyGoals(a, gs)
           c  == [b EXCEPT !.aros[r] = [o \in Objectives |-> IF o \in os THEN NoLink ELSE @[o]]]
           d  == CleanupOrphanedObjectivesAndAROs(c, r)
           new == WriteReport(d, r, DELETED, {})
<1>1. Db.reports[r] \in Active /\ Commit(new)
  BY DbFields DEF SoftDeleteReport
<1>2. Proper(Db) /\ Sound(Db) /\ Db \in GoalDbs
  BY InvFacts
<1>3. gs \subseteq Goals /\ os \subseteq Objectives
  BY DEF ReportGoals, LiveGoals, LiveObjectives
<1>4. \A s \in Reports, g \in gs : <<s, g>> \in Db.args => s = r
  <2> SUFFICES ASSUME NEW s \in Reports, NEW g \in gs, <<s, g>> \in Db.args PROVE s = r
    OBVIOUS
  <2>1. s \in GoalReports(Db, g, ReportStatuses)
    BY <1>2 DEF GoalReports, GoalDbs
  <2> QED BY <2>1
<1>5. \A s \in Reports, o \in os : Db.aros[s][o] # NoLink => s = r
  BY <1>2, <1>3, <1>4 DEF Proper, OneCycle, ObjectivesFit, Objectives
<1> HIDE DEF gs, os
<1>6. /\ a \in GoalDbs
      /\ a.goals = Db.goals /\ a.reports = Db.reports /\ a.args = Db.args /\ a.aros = Db.aros
      /\ a.selectedBefore = Db.selectedBefore
      /\ \A o \in Objectives : a.objectives[o] = IF o \in os THEN NoObjective ELSE Db.objectives[o]
  BY <1>2, DestroyObjectivesFacts
<1> HIDE DEF a
<1>7. /\ b \in GoalDbs
      /\ b.objectives = a.objectives /\ b.reports = a.reports /\ b.args = a.args /\ b.aros = a.aros
      /\ b.selectedBefore = a.selectedBefore
      /\ \A g \in Goals : IF g \in gs THEN b.goals[g].status = GONE ELSE b.goals[g] = a.goals[g]
  BY <1>6, DestroyGoalsFacts
<1> HIDE DEF b
<1>8. /\ c \in GoalDbs
      /\ c.objectives = b.objectives /\ c.reports = b.reports /\ c.args = b.args
      /\ c.selectedBefore = b.selectedBefore
      /\ c.goals = b.goals
      /\ \A s \in Reports \ {r} : c.aros[s] = b.aros[s]
      /\ \A o \in Objectives : c.aros[r][o] = IF o \in os THEN NoLink ELSE b.aros[r][o]
  <2> DEFINE links == [o \in Objectives |-> IF o \in os THEN NoLink ELSE b.aros[r][o]]
  <2>1. /\ links \in [Objectives -> Links]
        /\ \A o \in Objectives : links[o] = IF o \in os THEN NoLink ELSE b.aros[r][o]
    BY <1>7 DEF GoalDbs, Links
  <2>2. c = [b EXCEPT !.aros[r] = links]
    BY <1>7 DEF GoalDbs
  <2> HIDE DEF links, c
  <2> QED BY <1>7, <2>1, <2>2 DEF GoalDbs
<1> HIDE DEF c
<1>9. \A s \in Reports, o \in Objectives : o \in os => c.aros[s][o] = NoLink
  BY <1>5, <1>6, <1>7, <1>8
<1>10. \A s \in Reports, o \in Objectives : o \notin os => c.aros[s][o] = Db.aros[s][o]
  BY <1>6, <1>7, <1>8
<1>11. ObjectivesSound(c)
  <2>1. \A o \in Objectives : c.objectives[o] = IF o \in os THEN NoObjective ELSE Db.objectives[o]
    BY <1>6, <1>7, <1>8
  <2>2. NoObjective.onAR = FALSE
    BY DEF NoObjective
  <2>3. LinkedObjectivesThere(c)
    BY <1>2, <1>6, <1>7, <1>8, <1>9, <1>10, <2>1 DEF Sound, LinkedObjectivesThere
  <2>4. ObjectivesFlagged(c)
    BY <1>2, <1>9, <1>10, <2>1, <2>2 DEF Sound, ObjectivesFlagged
  <2> QED BY <1>8, <2>3, <2>4 DEF ObjectivesSound
<1>12. OnlyLinksOf(r, Db, c)
  BY <1>6, <1>7, <1>8 DEF OnlyLinksOf
<1>13. CleanedUp(r, c, d)
  BY <1>11, CleanupFacts
<1> HIDE DEF d
<1>14. /\ d \in GoalDbs
       /\ d.reports = Db.reports /\ d.args = Db.args /\ d.selectedBefore = Db.selectedBefore
       /\ \A g \in Goals : IF g \in gs THEN d.goals[g].status = GONE ELSE d.goals[g] = Db.goals[g]
  BY <1>6, <1>7, <1>8, <1>13 DEF CleanedUp, ObjectivesSound, OnlyLinksOf
<1>15. new = [d EXCEPT !.reports[r] = DELETED]
  BY <1>1, <1>14 DEF WriteReport, Active
<1> HIDE DEF new
<1>16. /\ new \in GoalDbs
       /\ new.goals = d.goals /\ new.objectives = d.objectives
       /\ new.args = d.args /\ new.selectedBefore = d.selectedBefore /\ new.aros = d.aros
       /\ new.reports[r] = DELETED /\ \A s \in Reports \ {r} : new.reports[s] = d.reports[s]
  BY <1>14, <1>15 DEF GoalDbs, ReportStatuses
<1>17. LinkedGoalsThere(new)
  <2> SUFFICES ASSUME NEW s \in Reports, NEW g \in Goals, <<s, g>> \in Db.args
               PROVE  /\ new.goals[g].status # ABSENT
                      /\ new.reports[s] # DELETED => new.goals[g].status # GONE
    BY <1>14, <1>16 DEF LinkedGoalsThere
  <2>1. CASE g \in gs
    BY <2>1, <1>4, <1>14, <1>16
  <2>2. CASE g \notin gs
    BY <2>2, <1>1, <1>2, <1>14, <1>16 DEF Sound, LinkedGoalsThere, Active
  <2> QED BY <2>1, <2>2
<1>18. LinkedObjectivesThere(new)
  BY <1>13, <1>16 DEF CleanedUp, ObjectivesSound, LinkedObjectivesThere
<1>19. ObjectivesFlagged(new)
  BY <1>13, <1>16 DEF CleanedUp, ObjectivesSound, ObjectivesFlagged
<1>20. GoalsFlagged(new)
  BY <1>2, <1>14, <1>16 DEF Sound, GoalsFlagged
<1>21. Sound(new)
  BY <1>16, <1>17, <1>18, <1>19, <1>20 DEF Sound
<1>22. \A s \in Reports : OneCycle(new, s)
  <2>1. \A s \in Reports, o \in Objectives : new.aros[s][o] # NoLink => Db.aros[s][o] # NoLink
    BY <1>12, <1>13, <1>16 DEF CleanedUp, OnlyLinksOf
  <2>2. new.args = Db.args
    BY <1>14, <1>16
  <2> TAKE s \in Reports
  <2>3. OneCycle(Db, s)
    BY <1>2 DEF Proper
  <2>4. ObjectivesFit(new, s)
    BY <2>1, <2>2, <2>3 DEF OneCycle, ObjectivesFit
  <2>5. Single(Db, s) => Single(new, s)
    BY <2>2 DEF Single
  <2>6. NoObjectives(Db, s) => NoObjectives(new, s)
    BY <2>1 DEF NoObjectives
  <2>7. new.reports[s] \in {Db.reports[s], DELETED}
    BY <1>14, <1>16
  <2> QED BY <2>3, <2>4, <2>5, <2>6, <2>7 DEF OneCycle
<1>23. NoCloser(Db, new)
  BY <1>14, <1>16 DEF NoCloser
<1>24. \A s \in Reports \ {r} : new.aros[s] = Db.aros[s] /\ new.reports[s] = Db.reports[s]
  BY <1>12, <1>13, <1>14, <1>16 DEF CleanedUp, OnlyLinksOf
<1>25. \A o \in Objectives : new.objectives[o].status # ABSENT =>
         /\ SameObjective(o, Db, new)
         /\ \/ Db.aros[r][o] = NoLink
            \/ Db.objectives[o].via # "activityReport"
            \/ Linked(o, new)
  <2>1. NoObjective.status = ABSENT
    BY DEF NoObjective
  <2>2. \A o \in Objectives : c.objectives[o] = IF o \in os THEN NoObjective ELSE Db.objectives[o]
    BY <1>6, <1>7, <1>8
  <2>3. \A o \in Objectives : new.objectives[o].status # ABSENT =>
          /\ SameObjective(o, c, new)
          /\ \/ c.aros[r][o] = NoLink
             \/ c.objectives[o].via # "activityReport"
             \/ Linked(o, new)
    BY <1>13, <1>16 DEF CleanedUp, SameObjective, Linked
  <2>4. \A o \in Objectives : new.objectives[o].status # ABSENT => o \notin os
    BY <2>1, <2>2, <2>3 DEF SameObjective
  <2> QED BY <1>10, <2>2, <2>3, <2>4 DEF SameObjective
<1>26. Marked(new)
  <2>1. SameApproved(Db, new)
    BY <1>1, <1>16, <1>24 DEF SameApproved, Active
  <2>2. \A g \in Goals : HasMark(g, Db) => HasMark(g, new)
    BY <1>14, <1>16 DEF HasMark
  <2>3. MarksStay(Db, new)
    BY <2>1, <2>2, <1>25 DEF MarksStay, SameObjective
  <2> QED BY <2>3, InvFacts, MarkedStays
<1>27. Used(new)
  BY <1>24, <1>25, InvFacts DEF Used, Linked, SameObjective
<1>28. OneOpen(new)
  BY <1>14, <1>16, InvFacts, OpenStays
<1>29. \A s \in Reports :
         /\ new.reports[s] \in {Db.reports[s], DRAFT, NEEDS_ACTION, DELETED}
         /\ new.reports[s] = APPROVED => new.aros[s] = Db.aros[s]
  BY <1>16, <1>24
<1>30. Proper(new) /\ Marks(new)
  BY <1>21, <1>22, <1>26, <1>27, <1>28 DEF Proper, Marks
<1> QED BY <1>1, <1>23, <1>29, <1>30, InvFacts, NoCloserIsFine, CommitFacts

-----------------------------------------------------------------------------
\* Requests from the recipient's page and the administrators' page.

\* No report links an objective of a goal that it does not link.
LEMMA NoGoalNoObjective ==
  ASSUME NEW db, Proper(db), NEW g \in Goals, \A r \in Reports :
           db.reports[r] # DELETED => <<r, g>> \notin db.args
  PROVE  \A r \in Reports, o \in Objectives : o[1] = g => db.aros[r][o] = NoLink
BY DEF Proper, Sound, LinkedObjectivesThere, OneCycle, ObjectivesFit

LEMMA SameLinksProper ==
  ASSUME NEW db, NEW new, Proper(db), Sound(new),
         new.args = db.args, new.aros = db.aros, new.reports = db.reports
  PROVE  Proper(new)
BY DEF Proper, OneCycle, Single, ObjectivesFit, NoObjectives

LEMMA NewStandardGoalFine ==
  ASSUME GoalInv, NEW g \in Goals, NEW ts \in SUBSET PageTitles, NewStandardGoal(g, ts)
  PROVE  GoalInv' /\ NoNewWork(Db, Db')
<1> DEFINE os == {g} \X ts
           a == CreateGoal(Db, g, "rtr")
           new == CreateObjectives(a, os, "rtr")
<1>1. Db.goals[g].status = ABSENT /\ GoalsNotClosed(Db) = {} /\ Commit(new)
  BY DEF NewStandardGoal, NextGoal
<1>2. Proper(Db) /\ Sound(Db)
  BY InvFacts
<1>3. os \subseteq Objectives /\ \A o \in os : o[1] = g
  BY TitlesAssumption DEF Objectives
<1>4. \A r \in Reports : <<r, g>> \notin Db.args
  BY <1>1, <1>2 DEF Sound, LinkedGoalsThere
<1>5. \A r \in Reports, o \in os : Db.aros[r][o] = NoLink
  BY <1>2, <1>3, <1>4, NoGoalNoObjective
<1> HIDE DEF os
<1>6. "rtr" \in {"rtr", "activityReport"} /\ "rtr" \in {"rtr", "activityReport", "admin"}
  OBVIOUS
<1>7. GoalAdded(g, Db, a)
  BY <1>1, <1>2, <1>6, CreateGoalFacts
<1> HIDE DEF a
<1>8. Sound(a) /\ Unlinked(a, os)
  BY <1>5, <1>7 DEF GoalAdded, Unlinked
<1>9. Added(a, os, "rtr", new)
  BY <1>3, <1>6, <1>8, CreateObjectivesFacts
<1> HIDE DEF new
<1>10. /\ Sound(new) /\ new.args = Db.args /\ new.aros = Db.aros
       /\ new.selectedBefore = Db.selectedBefore
       /\ new.reports = Db.reports
       /\ new.goals[g].status = NOT_STARTED /\ \A h \in Goals \ {g} : new.goals[h] = Db.goals[h]
  BY <1>7, <1>9 DEF GoalAdded, Added
<1>11. Proper(new)
  BY <1>2, <1>10, SameLinksProper
<1>12. NoCloser(Db, new)
  BY <1>10 DEF NoCloser
<1>13. Marked(new) /\ Used(new)
  <2>1. \A h \in Goals : SameGoal(h, Db, new) \/ Db.goals[h].status = ABSENT
    BY <1>1, <1>10 DEF SameGoal
  <2>2. \A o \in Objectives :
          \/ SameObjective(o, Db, new)
          \/ /\ new.objectives[o].via = "rtr" /\ new.objectives[o].onApprovedAR = FALSE
             /\ \A r \in Reports : Db.aros[r][o] = NoLink
    BY <1>5, <1>7, <1>9 DEF GoalAdded, Added, SameObjective
  <2> QED BY <1>10, <2>1, <2>2, InvFacts, RowsComeAndGo
<1>14. OneOpen(new)
  <2>1. \A h \in GoalsNotClosed(new) : h # g => h \in GoalsNotClosed(Db)
    BY <1>10 DEF GoalsNotClosed, LiveGoals
  <2> QED BY <2>1, <1>1 DEF OneOpen
<1> QED BY <1>1, <1>10, <1>11, <1>12, <1>13, <1>14, InvFacts, NoCloserIsFine, CommitFacts
        DEF Marks

\* The administrators' new goal.
LEMMA CreateGoalFine ==
  ASSUME NEW db, Valid(db), NEW g \in Goals, db.goals[g].status = ABSENT,
         GoalsNotClosed(db) = {}, NEW via \in {"rtr", "activityReport", "admin"}
  PROVE  /\ Fine(db, CreateGoal(db, g, via))
         /\ GoalAdded(g, db, CreateGoal(db, g, via))
<1> DEFINE new == CreateGoal(db, g, via)
<1>1. Proper(db) /\ Sound(db) /\ Marked(db) /\ Used(db) /\ Recorded(db)
  BY DEF Valid, Proper, Marks
<1>2. GoalAdded(g, db, new)
  BY <1>1, CreateGoalFacts
<1> HIDE DEF new
<1>3. Proper(new)
  BY <1>1, <1>2, SameLinksProper DEF GoalAdded
<1>4. NoCloser(db, new)
  BY <1>2 DEF GoalAdded, NoCloser
<1>5. Marked(new) /\ Used(new)
  <2>1. \A h \in Goals : SameGoal(h, db, new) \/ db.goals[h].status = ABSENT
    BY <1>2 DEF GoalAdded, SameGoal
  <2>2. \A o \in Objectives : SameObjective(o, db, new)
    BY <1>2 DEF GoalAdded, SameObjective
  <2> QED BY <1>1, <1>2, <2>1, <2>2, RowsComeAndGo DEF GoalAdded
<1>6. OneOpen(new)
  <2>1. \A h \in GoalsNotClosed(new) : h # g => h \in GoalsNotClosed(db)
    BY <1>2 DEF GoalAdded, GoalsNotClosed, LiveGoals
  <2> QED BY <2>1 DEF OneOpen
<1>7. new.reports = db.reports /\ new.aros = db.aros
  BY <1>2 DEF GoalAdded
<1>8. Fine(db, new)
  BY <1>1, <1>3, <1>4, <1>5, <1>6, <1>7, NoCloserIsFine DEF Marks
<1> QED BY <1>2, <1>8 DEF new

LEMMA CreateGoalFromAdminFine ==
  ASSUME GoalInv, NEW g \in Goals, CreateGoalFromAdmin(g)
  PROVE  GoalInv' /\ NoNewWork(Db, Db')
<1>1. Db.goals[g].status = ABSENT /\ GoalsNotClosed(Db) = {} /\ Commit(CreateGoal(Db, g, "admin"))
  BY DEF CreateGoalFromAdmin, NextGoal, GoalsNotClosed
<1> QED BY <1>1, CreateGoalFine, CommitFacts DEF GoalInv

LEMMA SetStatusAdvances ==
  ASSUME NEW db \in GoalDbs, NEW os, NEW status \in ObjectiveStatuses,
         os \subseteq LiveObjectives(db)
  PROVE  Advances(db, SetStatus(db, os, status))
BY SetStatusFacts DEF Advances, OnlyStatuses

LEMMA UpdateStandardGoalFine ==
  ASSUME GoalInv, NEW g \in Goals, NEW listed \in SUBSET PageTitles, NEW fromTemplate,
         UpdateStandardGoal(g, listed, fromTemplate)
  PROVE  GoalInv' /\ NoNewWork(Db, Db')
<1> DEFINE kept    == {o \in ObjectivesOf(Db, g) : o[2] \in listed}
           renewed == {o \in kept : /\ o[2] \notin fromTemplate
                                    /\ objectives[o].status \in {COMPLETE, SUSPENDED}}
           added   == ({g} \X listed) \ kept
           removed == RemovedByEdit(g, listed)
           a == SetStatus(Db, renewed, IN_PROGRESS)
           b == DestroyObjectives(a, removed)
           c == CreateObjectives(b, added, "rtr")
<1>1. Commit(c)
  BY DEF UpdateStandardGoal
<1>2. Proper(Db) /\ Sound(Db) /\ Db \in GoalDbs
  BY InvFacts
<1>3. renewed \subseteq LiveObjectives(Db)
  BY DEF ObjectivesOf
<1>4. \A r \in Reports, o \in removed : Db.aros[r][o] = NoLink
  BY <1>2, DbFields DEF RemovedByEdit, ObjectivesOf, LiveObjectives, Sound, ObjectivesFlagged
<1>5. /\ added \subseteq Objectives
      /\ \A r \in Reports, o \in added : Db.aros[r][o] = NoLink
  <2>1. \A o \in added : o \in Objectives /\ o[1] = g /\ o[2] \in listed
    BY TitlesAssumption DEF Objectives
  <2>2. \A o \in added : Db.objectives[o].status = ABSENT
    BY <2>1 DEF ObjectivesOf, LiveObjectives
  <2> QED BY <1>2, <2>1, <2>2 DEF Sound, LinkedObjectivesThere
<1> HIDE DEF renewed, added, removed
<1>6. Carries(Db, a) /\ a.aros = Db.aros /\ a.reports = Db.reports /\ Marks(a)
  <2>1. IN_PROGRESS \in ObjectiveStatuses
    BY DEF ObjectiveStatuses
  <2>2. Advances(Db, a)
    BY <1>2, <1>3, <2>1, SetStatusAdvances
  <2>3. OnlyStatuses(Db, a)
    BY <1>2, <1>3, <2>1, SetStatusFacts
  <2> HIDE DEF a
  <2> QED BY <1>2, <2>2, <2>3, InvFacts, AdvancesCarries, OnlyStatusesMarks DEF Advances, Keeps
<1> HIDE DEF a
<1>7. Proper(a) /\ Sound(a) /\ a \in GoalDbs
  BY <1>6 DEF Carries, Proper, Sound
<1>8. /\ Sound(b) /\ b.goals = a.goals /\ b.args = a.args /\ b.aros = a.aros
      /\ b.selectedBefore = a.selectedBefore
      /\ b.reports = a.reports
      /\ \A o \in Objectives :
           b.objectives[o] = IF o \in removed THEN NoObjective ELSE a.objectives[o]
  <2>1. \A r \in Reports, o \in Objectives : o \in removed => a.aros[r][o] = NoLink
    BY <1>4, <1>6
  <2> QED BY <1>7, <2>1, DestroyObjectivesSound, DestroyObjectivesFacts
<1> HIDE DEF b
<1>9. Unlinked(b, added)
  BY <1>5, <1>6, <1>8 DEF Unlinked
<1>10. "rtr" \in {"rtr", "activityReport"}
  OBVIOUS
<1>11. Added(b, added, "rtr", c)
  BY <1>5, <1>8, <1>9, <1>10, CreateObjectivesFacts
<1> HIDE DEF c
<1>12. /\ Sound(c) /\ c.goals = a.goals /\ c.args = a.args /\ c.aros = a.aros
       /\ c.selectedBefore = a.selectedBefore
       /\ c.reports = a.reports
  BY <1>8, <1>11 DEF Added
<1>13. Proper(c)
  BY <1>7, <1>12, SameLinksProper
<1>14. NoCloser(Db, c)
  BY <1>6, <1>12 DEF Carries, NoCloser
<1>15. Marked(c) /\ Used(c)
  <2>1. NoObjective.status = ABSENT
    BY DEF NoObjective
  <2>2. \A o \in Objectives :
          \/ SameObjective(o, a, c)
          \/ c.objectives[o].status = ABSENT
          \/ /\ c.objectives[o].via = "rtr" /\ c.objectives[o].onApprovedAR = FALSE
             /\ \A r \in Reports : a.aros[r][o] = NoLink
    <3> TAKE o \in Objectives
    <3>1. CASE o \in added
      <4>1. c.objectives[o].via = "rtr" /\ c.objectives[o].onApprovedAR = FALSE
        BY <3>1, <1>11 DEF Added
      <4>2. \A r \in Reports : a.aros[r][o] = NoLink
        BY <3>1, <1>5, <1>6
      <4> QED BY <4>1, <4>2
    <3>2. CASE o \notin added /\ o \in removed
      BY <3>2, <1>8, <1>11, <2>1 DEF Added
    <3>3. CASE o \notin added /\ o \notin removed
      BY <3>3, <1>8, <1>11 DEF Added, SameObjective
    <3> QED BY <3>1, <3>2, <3>3
  <2> QED BY <1>6, <1>12, <2>2, RowsComeAndGo DEF SameGoal, Marks
<1>16. OneOpen(c)
  BY <1>6, <1>12, OpenStays DEF Marks
<1>17. c.reports = Db.reports /\ c.aros = Db.aros
  BY <1>6, <1>12
<1> QED BY <1>1, <1>13, <1>14, <1>15, <1>16, <1>17, InvFacts, NoCloserIsFine, CommitFacts DEF Marks

\* A status that a user asks for: closing is refused while a report is at work.
LEMMA UpdateGoalStatusFacts ==
  ASSUME NEW db, Valid(db), NEW g \in LiveGoals(db), NEW old,
         NEW new \in GoalStatuses, UpdateGoalStatusById(db, g, old, new).ok
  PROVE  /\ Fine(db, UpdateGoalStatusById(db, g, old, new))
         /\ UpdateGoalStatusById(db, g, old, new).reports = db.reports
<1> DEFINE a == ChangeGoal(db, g, new)
           fits == /\ a.ok
                   /\ AllowedTransition(old, new)
                   /\ new = CLOSED => MayClose(db, g, FALSE)
           b == [a EXCEPT !.ok = fits]
<1>1. /\ db \in GoalDbs /\ g \in Goals
      /\ Proper(db) /\ OneOpen(db) /\ Marked(db) /\ Used(db) /\ Recorded(db)
  BY DEF Valid, Proper, Marks, Sound, LiveGoals
<1>2. /\ Keeps(db, a) /\ SameMarks(db, a) /\ a.goals[g].status = new
      /\ \A h \in Goals \ {g} : a.goals[h] = db.goals[h]
      /\ new = CLOSED /\ db.goals[g].status # CLOSED =>
           \A r \in Reports : <<r, g>> \in db.args => <<r, g>> \in a.selectedBefore
  BY <1>1, ChangeGoalFacts
<1>a. a.ok => OneOpen(a)
  BY <1>1, ChangeGoalOpen
<1>3. UpdateGoalStatusById(db, g, old, new) = b
  BY DEF UpdateGoalStatusById
<1>4. fits \in BOOLEAN
  BY <1>2 DEF Keeps, GoalDbs
<1> HIDE DEF a, fits
<1>5. /\ b \in GoalDbs /\ b.ok = fits
      /\ b.goals = a.goals /\ b.objectives = a.objectives /\ b.reports = a.reports
      /\ b.args = a.args /\ b.selectedBefore = a.selectedBefore /\ b.aros = a.aros
  BY <1>2, <1>4 DEF Keeps, GoalDbs
<1>6. /\ a.ok
      /\ new = CLOSED => GoalReports(db, g, Active) = {}
  BY <1>3, <1>5 DEF fits, MayClose
<1>d. a.ok => db.ok
  BY <1>2 DEF Keeps
<1> HIDE DEF b
<1>b. Marked(b) /\ Used(b)
  <2>1. Keeps(db, b) /\ SameMarks(db, b)
    BY <1>2, <1>5, <1>6, <1>d DEF Keeps, SameMarks
  <2> QED BY <1>1, <2>1, SameMarksFacts
<1>c. OneOpen(b)
  BY <1>5, <1>6, <1>a, OpenStays
<1>7. Keeps(db, b)
  BY <1>2, <1>5, <1>6, <1>d DEF Keeps
<1>8. Proper(b)
  BY <1>1, <1>7, KeepsSound DEF Proper
<1>9. NoNewWork(db, b)
  <2> SUFFICES ASSUME NEW r \in Reports, NEW h \in Goals, b.reports[r] \in Active,
                      <<r, h>> \in b.args, b.goals[h].status = CLOSED
               PROVE  <<r, h>> \in db.args /\ db.goals[h].status = CLOSED
    BY <1>7 DEF NoNewWork, NoneStarted, NoneTurnedIn, Keeps
  <2>1. db.reports[r] \in Active /\ <<r, h>> \in db.args
    BY <1>7 DEF Keeps
  <2>2. CASE h # g
    BY <2>1, <2>2, <1>2, <1>5
  <2>3. CASE h = g
    <3>1. r \in GoalReports(db, g, Active)
      BY <2>1, <2>3 DEF GoalReports
    <3> QED BY <2>3, <3>1, <1>2, <1>5, <1>6
  <2> QED BY <2>2, <2>3
<1>10. Recorded(b)
  <2> SUFFICES ASSUME NEW r \in Reports, NEW h \in Goals, db.reports[r] = APPROVED,
                      <<r, h>> \in db.args, b.goals[h].status = CLOSED
               PROVE  <<r, h>> \in b.selectedBefore \/ NoObjectives(db, r)
    BY <1>7 DEF Recorded, Keeps, NoObjectives
  <2>1. CASE db.goals[h].status = CLOSED
    BY <2>1, <1>1, <1>7 DEF Recorded, Keeps
  <2>2. CASE db.goals[h].status # CLOSED
    BY <2>2, <1>2, <1>5
  <2> QED BY <2>1, <2>2
<1>11. b.reports = db.reports
  BY <1>7 DEF Keeps
<1> QED BY <1>3, <1>8, <1>9, <1>10, <1>11, <1>b, <1>c DEF Fine, Valid, Marks

LEMMA CarriesFine ==
  ASSUME NEW a, NEW b, NEW c, Carries(a, b), Fine(b, c), c.reports = b.reports
  PROVE  Fine(a, c)
<1>1. NoNewWork(a, c)
  BY DEF Carries, Fine, NoCloser, NoNewWork, NoneStarted, NoneTurnedIn
<1> QED BY <1>1 DEF Fine

LEMMA AdvancesFine ==
  ASSUME NEW db, NEW new, Valid(db), Advances(db, new), Marks(new)
  PROVE  Carries(db, new) /\ Fine(db, new) /\ Valid(new)
<1>1. Proper(db) /\ Recorded(db) /\ SameApproved(db, new)
  BY DEF Valid, Advances, Keeps, SameApproved
<1>2. Carries(db, new)
  BY <1>1, AdvancesCarries
<1>3. Fine(db, new)
  BY <1>1, <1>2, CarriesIsFine
<1> QED BY <1>2, <1>3 DEF Fine

LEMMA KeptAlive ==
  ASSUME NEW db, NEW new, Advances(db, new), NEW g \in LiveGoals(db), db \in GoalDbs
  PROVE  g \in LiveGoals(new)
<1>1. new \in GoalDbs /\ g \in Goals
  BY DEF Advances, Keeps, LiveGoals
<1>2. db.goals[g].status # ABSENT /\ db.goals[g].status # GONE
  BY DEF LiveGoals, GoalStatuses
<1> QED BY <1>1, <1>2, GoalStatusCases DEF Advances, Keeps, LiveGoals

LEMMA ChangeGoalStatusFine ==
  ASSUME GoalInv, NEW g \in Goals, NEW new \in GivenGoalStatuses, NEW old,
         ChangeGoalStatus(g, old, new)
  PROVE  GoalInv' /\ NoNewWork(Db, Db')
<1> DEFINE running == {o \in ObjectivesOf(Db, g) : objectives[o].status = IN_PROGRESS}
           a == IF new = SUSPENDED THEN SetStatus(Db, running, SUSPENDED) ELSE Db
           b == UpdateGoalStatusById(a, g, old, new)
<1>1. g \in LiveGoals(Db) /\ Commit(b)
  BY DEF ChangeGoalStatus
<1>2. Valid(Db) /\ Db \in GoalDbs
  BY InvFacts DEF GoalInv
<1>3. running \subseteq LiveObjectives(Db)
  BY DEF ObjectivesOf
<1> HIDE DEF running
<1>4. Advances(Db, a) /\ Marks(a)
  <2>1. CASE new = SUSPENDED
    BY <2>1, <1>2, <1>3, SetStatusAdvances, SetStatusFacts, OnlyStatusesMarks
       DEF ObjectiveStatuses, Valid
  <2>2. CASE new # SUSPENDED
    BY <2>2, <1>2, KeepsItself DEF Advances, Valid
  <2> QED BY <2>1, <2>2
<1> HIDE DEF a
<1>5. Carries(Db, a) /\ Valid(a) /\ g \in LiveGoals(a)
  BY <1>1, <1>2, <1>4, AdvancesFine, KeptAlive
<1>6. new \in GoalStatuses /\ b.ok
  BY <1>1, GivenStatusesAssumption DEF Commit
<1>7. Fine(a, b) /\ b.reports = a.reports
  BY <1>5, <1>6, UpdateGoalStatusFacts
<1> HIDE DEF b
<1> QED BY <1>1, <1>5, <1>7, CarriesFine, CommitFacts

LEMMA CloseGoalFromAdminFine ==
  ASSUME GoalInv, NEW g \in Goals, NEW old, CloseGoalFromAdmin(g, old)
  PROVE  GoalInv' /\ NoNewWork(Db, Db')
<1> DEFINE done == {o \in ObjectivesOf(Db, g) : objectives[o].onApprovedAR}
           a == SetStatus(Db, done, COMPLETE)
           b == UpdateGoalStatusById(a, g, old, CLOSED)
<1>1. g \in LiveGoals(Db) /\ Commit(b)
  BY DEF CloseGoalFromAdmin
<1>2. Valid(Db) /\ Db \in GoalDbs
  BY InvFacts DEF GoalInv
<1>3. done \subseteq LiveObjectives(Db)
  BY DEF ObjectivesOf
<1> HIDE DEF done
<1>4. Advances(Db, a) /\ Marks(a)
  BY <1>2, <1>3, SetStatusAdvances, SetStatusFacts, OnlyStatusesMarks
     DEF ObjectiveStatuses, Valid
<1> HIDE DEF a
<1>5. Carries(Db, a) /\ Valid(a) /\ g \in LiveGoals(a)
  BY <1>1, <1>2, <1>4, AdvancesFine, KeptAlive
<1>6. CLOSED \in GoalStatuses /\ b.ok
  BY <1>1 DEF Commit, GoalStatuses
<1>7. Fine(a, b) /\ b.reports = a.reports
  BY <1>5, <1>6, UpdateGoalStatusFacts
<1> HIDE DEF b
<1> QED BY <1>1, <1>5, <1>7, CarriesFine, CommitFacts

LEMMA ReopenGoalFine ==
  ASSUME GoalInv, NEW g \in Goals, ReopenGoal(g)
  PROVE  GoalInv' /\ NoNewWork(Db, Db')
<1> DEFINE new == ChangeGoal(Db, g, IN_PROGRESS)
<1>1. g \in LiveGoals(Db) /\ Commit(new) /\ new.ok
  BY DEF ReopenGoal, Commit
<1>2. Valid(Db) /\ Db \in GoalDbs
  BY InvFacts DEF GoalInv
<1>3. IN_PROGRESS \in GoalStatuses
  BY DEF GoalStatuses
<1>4. /\ Keeps(Db, new) /\ SameMarks(Db, new) /\ new.goals[g].status = IN_PROGRESS
      /\ \A h \in Goals \ {g} : new.goals[h] = Db.goals[h]
  BY <1>1, <1>2, <1>3, ChangeGoalFacts
<1>5. OneOpen(new)
  BY <1>1, <1>2, <1>3, ChangeGoalOpen DEF Valid, Marks
<1> HIDE DEF new
<1>6. Advances(Db, new)
  BY <1>4 DEF Advances
<1>7. Marks(new)
  BY <1>2, <1>4, <1>5, SameMarksFacts DEF Valid, Marks
<1> QED BY <1>1, <1>2, <1>6, <1>7, AdvancesFine, CommitFacts

LEMMA DeleteGoalFine ==
  ASSUME GoalInv, NEW g \in Goals, DeleteGoal(g)
  PROVE  GoalInv' /\ NoNewWork(Db, Db')
<1> DEFINE os == ObjectivesOf(Db, g)
           a == DestroyObjectives(Db, os)
           b == DestroyGoals(a, {g})
<1>1. GoalReports(Db, g, NotDeleted) = {} /\ Commit(b)
  BY DEF DeleteGoal
<1>2. Proper(Db) /\ Sound(Db) /\ Db \in GoalDbs
  BY InvFacts
<1>3. \A r \in Reports : Db.reports[r] # DELETED => <<r, g>> \notin Db.args
  <2> SUFFICES ASSUME NEW r \in Reports, Db.reports[r] # DELETED, <<r, g>> \in Db.args PROVE FALSE
    OBVIOUS
  <2>1. Db.reports[r] \in NotDeleted
    BY <1>2 DEF GoalDbs, NotDeleted
  <2>2. r \in GoalReports(Db, g, NotDeleted)
    BY <2>1 DEF GoalReports
  <2> QED BY <1>1, <2>2
<1>4. \A r \in Reports, o \in Objectives : o \in os => Db.aros[r][o] = NoLink
  BY <1>2, <1>3, NoGoalNoObjective DEF ObjectivesOf
<1> HIDE DEF os
<1>5. /\ Sound(a) /\ a.goals = Db.goals /\ a.reports = Db.reports
      /\ a.args = Db.args /\ a.selectedBefore = Db.selectedBefore /\ a.aros = Db.aros
      /\ \A o \in Objectives :
           a.objectives[o] = IF o \in os THEN NoObjective ELSE Db.objectives[o]
  BY <1>2, <1>4, DestroyObjectivesSound, DestroyObjectivesFacts
<1> HIDE DEF a
<1>6. \A r \in Reports, h \in Goals : h \in {g} /\ <<r, h>> \in a.args => a.reports[r] = DELETED
  BY <1>3, <1>5
<1>7. /\ Sound(b) /\ b.reports = a.reports /\ b.args = a.args /\ b.aros = a.aros
      /\ b.selectedBefore = a.selectedBefore
      /\ b.objectives = a.objectives
      /\ \A h \in Goals : IF h \in {g} THEN b.goals[h].status = GONE ELSE b.goals[h] = a.goals[h]
  BY <1>5, <1>6, DestroyGoalsSound, DestroyGoalsFacts DEF Sound
<1> HIDE DEF b
<1>8. Proper(b)
  BY <1>2, <1>5, <1>7, SameLinksProper
<1>9. NoCloser(Db, b)
  BY <1>5, <1>7 DEF NoCloser
<1>10. Marked(b) /\ Used(b)
  <2>1. NoObjective.status = ABSENT
    BY DEF NoObjective
  <2>2. \A o \in Objectives : SameObjective(o, Db, b) \/ b.objectives[o].status = ABSENT
    BY <1>5, <1>7, <2>1 DEF SameObjective
  <2>3. \A h \in Goals : SameGoal(h, Db, b) \/ b.goals[h].status = GONE
    BY <1>5, <1>7 DEF SameGoal
  <2> QED BY <1>5, <1>7, <2>2, <2>3, InvFacts, RowsComeAndGo
<1>11. OneOpen(b)
  BY <1>5, <1>7, InvFacts, OpenStays
<1>12. b.reports = Db.reports /\ b.aros = Db.aros
  BY <1>5, <1>7
<1> QED BY <1>1, <1>8, <1>9, <1>10, <1>11, <1>12, InvFacts, NoCloserIsFine, CommitFacts DEF Marks

LEMMA UpdateObjectiveStatusFine ==
  ASSUME GoalInv, NEW o \in Objectives, NEW status \in GivenObjectiveStatuses,
         UpdateObjectiveStatus(o, status)
  PROVE  GoalInv' /\ NoNewWork(Db, Db')
<1>1. {o} \subseteq LiveObjectives(Db) /\ Commit(SetStatus(Db, {o}, status))
  BY DEF UpdateObjectiveStatus
<1>2. Valid(Db) /\ Db \in GoalDbs
  BY InvFacts DEF GoalInv
<1>3. status \in ObjectiveStatuses
  BY GivenStatusesAssumption
<1>4. Marks(SetStatus(Db, {o}, status))
  BY <1>1, <1>2, <1>3, OnlyStatusesMarks, SetStatusFacts DEF Valid
<1> QED BY <1>1, <1>2, <1>3, <1>4, SetStatusAdvances, AdvancesFine, CommitFacts

-----------------------------------------------------------------------------
\* The two requests that ask for no status.

\* A report without links gets all the goals there are.
LEMMA LinkGoalsFacts ==
  ASSUME NEW db, Valid(db), NEW r \in Reports, db.reports[r] = DRAFT, NoObjectives(db, r)
  PROVE  LET new == LinkGoals(db, r, LiveGoals(db))
         IN /\ Valid(new) /\ new.reports = db.reports
            /\ \A s \in Reports \ {r}, g \in Goals :
                 /\ <<s, g>> \in new.args <=> <<s, g>> \in db.args
                 /\ new.goals[g].status = db.goals[g].status
<1> DEFINE gs == LiveGoals(db)
           new == LinkGoals(db, r, gs)
           row(g) == [db.goals[g] EXCEPT !.onAR = TRUE]
<1>1. /\ db \in GoalDbs /\ Proper(db) /\ Sound(db)
      /\ OneOpen(db) /\ Marked(db) /\ Used(db) /\ Recorded(db)
  BY DEF Valid, Proper, Sound, Marks
<1>2. gs \subseteq Goals
  BY DEF LiveGoals
<1>3. \A g \in Goals : /\ row(g) \in GoalRows /\ row(g).onAR = TRUE
                       /\ row(g).status = db.goals[g].status
                       /\ row(g).onApprovedAR = db.goals[g].onApprovedAR
  BY <1>1 DEF GoalDbs, GoalRows
<1>4. \A g \in gs : db.goals[g].status # ABSENT /\ db.goals[g].status # GONE
  BY DEF LiveGoals, GoalStatuses
<1>5. new = [db EXCEPT !.args = db.args \union ({r} \X gs),
                       !.goals = [g \in Goals |-> IF g \in gs THEN row(g) ELSE db.goals[g]]]
  BY <1>1 DEF LinkGoals, GoalDbs
<1> HIDE DEF gs, new, row
<1>6. /\ new \in GoalDbs
      /\ new.objectives = db.objectives /\ new.reports = db.reports /\ new.aros = db.aros
      /\ new.selectedBefore = db.selectedBefore /\ new.args = db.args \union ({r} \X gs)
      /\ \A g \in Goals : new.goals[g] = IF g \in gs THEN row(g) ELSE db.goals[g]
  <2>1. db.args \union ({r} \X gs) \in SUBSET (Reports \X Goals)
    BY <1>1, <1>2 DEF GoalDbs
  <2> QED BY <1>1, <1>3, <1>5, <2>1 DEF GoalDbs
<1>7. \A s \in Reports, g \in Goals :
        <<s, g>> \in new.args <=> <<s, g>> \in db.args \/ (s = r /\ g \in gs)
  BY <1>6
<1>8. \A g \in Goals : SameGoal(g, db, new)
  BY <1>3, <1>6 DEF SameGoal
<1>9. Sound(new)
  <2>1. LinkedGoalsThere(new)
    BY <1>1, <1>4, <1>6, <1>7, <1>8 DEF Sound, LinkedGoalsThere, SameGoal
  <2>2. LinkedObjectivesThere(new) /\ ObjectivesFlagged(new)
    BY <1>1, <1>6 DEF Sound, LinkedObjectivesThere, ObjectivesFlagged
  <2>3. GoalsFlagged(new)
    <3> SUFFICES ASSUME NEW g \in Goals, db.goals[g].status # GONE
                 PROVE  new.goals[g].onAR <=> \E s \in Reports : <<s, g>> \in new.args
      BY <1>8 DEF GoalsFlagged, SameGoal
    <3>1. CASE g \in gs
      BY <3>1, <1>3, <1>6, <1>7
    <3>2. CASE g \notin gs
      BY <3>2, <1>1, <1>6, <1>7 DEF Sound, GoalsFlagged
    <3> QED BY <3>1, <3>2
  <2> QED BY <1>6, <2>1, <2>2, <2>3 DEF Sound
<1>10. \A s \in Reports : OneCycle(new, s)
  <2> TAKE s \in Reports
  <2>1. ObjectivesFit(new, s)
    BY <1>1, <1>6, <1>7 DEF Proper, OneCycle, ObjectivesFit, Objectives
  <2>2. CASE s = r
    BY <2>1, <2>2, <1>6 DEF OneCycle, NoObjectives
  <2>3. CASE s # r
    <3>1. Single(db, s) => Single(new, s)
      BY <2>3, <1>7 DEF Single
    <3>2. NoObjectives(db, s) => NoObjectives(new, s)
      BY <1>6 DEF NoObjectives
    <3> QED BY <2>1, <3>1, <3>2, <1>1, <1>6 DEF Proper, OneCycle
  <2> QED BY <2>2, <2>3
<1>11. Marked(new) /\ Used(new)
  <2>1. \A o \in Objectives : SameObjective(o, db, new)
    BY <1>6 DEF SameObjective
  <2> QED BY <2>1, <1>1, <1>6, <1>8, RowsComeAndGo
<1>12. OneOpen(new)
  BY <1>1, <1>8, OpenStays DEF SameGoal
<1>13. Recorded(new)
  BY <1>1, <1>6, <1>7, <1>8 DEF Recorded, SameGoal, NoObjectives
<1>14. \A s \in Reports \ {r}, g \in Goals :
         /\ <<s, g>> \in new.args <=> <<s, g>> \in db.args
         /\ new.goals[g].status = db.goals[g].status
  BY <1>7, <1>8 DEF SameGoal
<1> QED BY <1>6, <1>9, <1>10, <1>11, <1>12, <1>13, <1>14 DEF Valid, Proper, Marks, new, gs

\* The administrators' new report is the only one it puts to work.
LEMMA CreateReportFromAdminFine ==
  ASSUME GoalInv, NEW r \in Reports, NEW g \in Goals, CreateReportFromAdmin(r, g)
  PROVE  /\ GoalInv'
         /\ \A s \in Reports, h \in Goals : <<s, h>> \in Db'.args /\ Db'.goals[h].status = CLOSED =>
              /\ s = r \/ NoneStarted(s, h, Db, Db')
              /\ NoneTurnedIn(s, h, Db, Db')
<1> DEFINE made == IF LiveGoals(Db) = {} THEN CreateGoal(Db, g, "admin") ELSE Db
           new == LinkGoals(made, r, LiveGoals(made))
<1>1. Commit(new) /\ Db.reports[r] = DRAFT /\ ReportObjectives(Db, r) = {}
  BY DbFields DEF CreateReportFromAdmin
<1>2. Valid(Db) /\ Sound(Db)
  BY InvFacts DEF GoalInv
<1>3. NoObjectives(Db, r)
  BY <1>1, <1>2 DEF Sound, LinkedObjectivesThere, ReportObjectives, LiveObjectives, NoObjectives
<1>4. /\ Valid(made) /\ made.reports = Db.reports /\ made.aros = Db.aros
      /\ NoCloser(Db, made)
  <2>1. CASE LiveGoals(Db) = {}
    <3>1. Db.goals[g].status = ABSENT /\ GoalsNotClosed(Db) = {}
      BY <2>1 DEF CreateReportFromAdmin, NextGoal, GoalsNotClosed
    <3>2. Fine(Db, CreateGoal(Db, g, "admin")) /\ GoalAdded(g, Db, CreateGoal(Db, g, "admin"))
      BY <3>1, <1>2, CreateGoalFine
    <3>3. NoCloser(Db, CreateGoal(Db, g, "admin"))
      BY <3>2 DEF GoalAdded, NoCloser
    <3> QED BY <2>1, <3>2, <3>3 DEF Fine, GoalAdded
  <2>2. CASE LiveGoals(Db) # {}
    BY <2>2, <1>2 DEF NoCloser
  <2> QED BY <2>1, <2>2
<1> HIDE DEF made
<1>5. NoObjectives(made, r) /\ made.reports[r] = DRAFT
  BY <1>1, <1>3, <1>4 DEF NoObjectives
<1>6. /\ Valid(new) /\ new.reports = Db.reports
      /\ \A s \in Reports \ {r}, h \in Goals :
           /\ <<s, h>> \in new.args <=> <<s, h>> \in made.args
           /\ new.goals[h].status = made.goals[h].status
  BY <1>4, <1>5, LinkGoalsFacts
<1> HIDE DEF new
<1>7. Db' = new /\ GoalInv'
  BY <1>1, <1>6, CommitIsDb
<1> QED BY <1>4, <1>6, <1>7 DEF NoneStarted, NoneTurnedIn, NoCloser

\* A goal is given a status: no approved report with objectives is on it.
LEMMA SaveGivenGoalFacts ==
  ASSUME NEW db, Valid(db), NEW g \in GoalsNotClosed(db) \union NextGoal(db),
         NEW status \in GoalStatuses
  PROVE  LET new == SaveGivenGoal(db, g, status)
         IN /\ Proper(new) /\ Marked(new) /\ Used(new) /\ Recorded(new)
            /\ new.ok => OneOpen(new)
            /\ new.objectives = db.objectives /\ new.reports = db.reports
            /\ new.args = db.args /\ new.aros = db.aros
            /\ \A h \in Goals : new.goals[h].status = CLOSED =>
                 db.goals[h].status = CLOSED \/ (h = g /\ status = CLOSED)
<1> DEFINE row == IF g \in LiveGoals(db) THEN db.goals[g] ELSE NoGoal
           given == [row EXCEPT !.status = status]
           fits == db.ok /\ (status # CLOSED => GoalsNotClosed(db) \subseteq {g})
           new == SaveGivenGoal(db, g, status)
<1>1. /\ db \in GoalDbs /\ Proper(db) /\ Sound(db)
      /\ OneOpen(db) /\ Marked(db) /\ Used(db) /\ Recorded(db)
  BY DEF Valid, Proper, Sound, Marks
<1>2. /\ g \in Goals
      /\ \/ g \in LiveGoals(db) /\ db.goals[g].status \in GoalStatuses
         \/ g \notin LiveGoals(db) /\ db.goals[g].status = ABSENT
  BY DEF GoalsNotClosed, LiveGoals, NextGoal, GoalStatuses
<1>3. row \in GoalRows
  BY <1>1, <1>2 DEF GoalDbs, NoGoal, GoalRows
<1>4. CASE row.onApprovedAR
  <2>1. new = db
    BY <1>4 DEF SaveGivenGoal
  <2> QED BY <2>1, <1>1 DEF new
<1>5. CASE ~row.onApprovedAR
  <2>1. /\ given \in GoalRows /\ given.status = status
        /\ given.onAR = row.onAR /\ given.onApprovedAR = row.onApprovedAR
    BY <1>3 DEF GoalRows
  <2>2. fits \in BOOLEAN
    BY <1>1 DEF GoalDbs
  <2>3. new = [db EXCEPT !.goals[g] = given, !.ok = fits]
    BY <1>1, <1>5 DEF SaveGivenGoal, GoalDbs
  <2>4. \A r \in Reports : <<r, g>> \in db.args => g \in LiveGoals(db)
    BY <1>1, <1>2 DEF Sound, LinkedGoalsThere
  <2>5. g \in LiveGoals(db) => row = db.goals[g]
    OBVIOUS
  <2>6. g \notin LiveGoals(db) => row.onAR = FALSE
    BY DEF NoGoal
  <2> HIDE DEF row, given, new, fits
  <2>7. /\ new \in GoalDbs /\ new.ok = fits
        /\ new.objectives = db.objectives /\ new.reports = db.reports /\ new.aros = db.aros
        /\ new.args = db.args /\ new.selectedBefore = db.selectedBefore
        /\ new.goals[g] = given /\ \A h \in Goals \ {g} : new.goals[h] = db.goals[h]
    BY <1>1, <1>2, <2>1, <2>2, <2>3 DEF GoalDbs
  <2>8. status # ABSENT /\ status # GONE
    BY DEF GoalStatuses
  <2>9. Sound(new)
    <3>1. LinkedGoalsThere(new)
      BY <1>1, <2>1, <2>7, <2>8 DEF Sound, LinkedGoalsThere
    <3>2. LinkedObjectivesThere(new) /\ ObjectivesFlagged(new)
      BY <1>1, <2>7 DEF Sound, LinkedObjectivesThere, ObjectivesFlagged
    <3>3. given.onAR <=> \E r \in Reports : <<r, g>> \in db.args
      <4>1. CASE g \in LiveGoals(db)
        <5>1. db.goals[g].status # GONE
          BY <4>1 DEF LiveGoals, GoalStatuses
        <5> QED BY <4>1, <5>1, <1>1, <1>2, <2>1, <2>5 DEF Sound, GoalsFlagged
      <4>2. CASE g \notin LiveGoals(db)
        BY <4>2, <2>1, <2>4, <2>6
      <4> QED BY <4>1, <4>2
    <3>4. GoalsFlagged(new)
      BY <3>3, <1>1, <2>7 DEF Sound, GoalsFlagged
    <3> QED BY <2>7, <3>1, <3>2, <3>4 DEF Sound
  <2>10. Proper(new)
    BY <1>1, <2>7, <2>9, SameLinksProper
  <2>11. \A o \in Objectives : db.objectives[o].onApprovedAR => o[1] # g
                                 \/ db.objectives[o].status = ABSENT
    <3> SUFFICES ASSUME NEW o \in Objectives, db.objectives[o].onApprovedAR, o[1] = g,
                        db.objectives[o].status # ABSENT
                 PROVE  FALSE
      OBVIOUS
    <3>1. HasMark(g, db)
      BY <1>1 DEF Marked
    <3> QED BY <3>1, <1>2, <1>5, <2>5 DEF HasMark, GoalStatuses
  <2>12. Marked(new)
    <3> SUFFICES ASSUME NEW o \in Objectives, db.objectives[o].status # ABSENT
                 PROVE  /\ db.objectives[o].onApprovedAR <=> Approved(o, db)
                        /\ db.objectives[o].onApprovedAR => HasMark(o[1], new)
      BY <2>7 DEF Marked, Approved
    <3>1. db.objectives[o].onApprovedAR => HasMark(o[1], db) /\ o[1] # g /\ o[1] \in Goals
      BY <1>1, <2>11 DEF Marked, Objectives
    <3> QED BY <3>1, <1>1, <2>7 DEF Marked, HasMark
  <2>13. Used(new)
    BY <1>1, <2>7 DEF Used, Linked
  <2>14. Recorded(new)
    <3> SUFFICES ASSUME NEW r \in Reports, NEW h \in Goals, db.reports[r] = APPROVED,
                        <<r, h>> \in db.args, new.goals[h].status = CLOSED
                 PROVE  <<r, h>> \in db.selectedBefore \/ NoObjectives(db, r)
      BY <2>7 DEF Recorded, NoObjectives
    <3>1. CASE h # g
      BY <3>1, <1>1, <2>7 DEF Recorded
    <3>2. CASE h = g
      <4> SUFFICES ASSUME NEW o \in Objectives, db.aros[r][o] # NoLink PROVE FALSE
        BY DEF NoObjectives
      <4>1. OneCycle(db, r)
        BY <1>1 DEF Proper
      <4>2. <<r, o[1]>> \in db.args /\ o[1] \in Goals
        BY <4>1 DEF OneCycle, ObjectivesFit, Objectives
      <4>3. Single(db, r)
        BY <4>1 DEF OneCycle
      <4>4. o[1] = g
        BY <3>2, <4>2, <4>3, <1>2 DEF Single
      <4>5. db.objectives[o].status # ABSENT
        BY <1>1 DEF Sound, LinkedObjectivesThere
      <4>6. db.objectives[o].onApprovedAR
        BY <1>1, <4>5 DEF Marked, Approved
      <4> QED BY <2>11, <4>4, <4>5, <4>6
    <3> QED BY <3>1, <3>2
  <2>15. new.ok => OneOpen(new)
    <3>1. CASE status = CLOSED
      BY <3>1, <1>1, <2>1, <2>7, OpenStays
    <3>2. CASE status # CLOSED /\ fits
      <4>1. \A h \in GoalsNotClosed(new) : h # g => h \in GoalsNotClosed(db)
        BY <2>7 DEF GoalsNotClosed, LiveGoals
      <4> QED BY <4>1, <3>2 DEF OneOpen, fits
    <3> QED BY <3>1, <3>2, <2>7
  <2>16. \A h \in Goals : new.goals[h].status = CLOSED =>
           db.goals[h].status = CLOSED \/ (h = g /\ status = CLOSED)
    BY <2>1, <2>7
  <2> QED BY <2>7, <2>10, <2>12, <2>13, <2>14, <2>15, <2>16 DEF new
<1> QED BY <1>4, <1>5

LEMMA CreateOrUpdateGoalFine ==
  ASSUME GoalInv, NEW g \in Goals, NEW status \in GivenGoalStatuses,
         NEW listed \in SUBSET PageTitles, NEW objectiveStatus \in GivenObjectiveStatuses,
         NEW skipCleanup, CreateOrUpdateGoal(g, status, listed, objectiveStatus, skipCleanup)
  PROVE  /\ GoalInv'
         /\ \A r \in Reports, h \in Goals : <<r, h>> \in Db'.args /\ Db'.goals[h].status = CLOSED =>
              /\ NoneStarted(r, h, Db, Db') \/ (h = g /\ status = CLOSED)
              /\ NoneTurnedIn(r, h, Db, Db')
<1> DEFINE added == ({g} \X listed) \ LiveObjectives(Db)
           a == SaveGivenGoal(Db, g, status)
           b == CreateObjectives(a, added, "rtr")
           unlisted == {o \in ObjectivesOf(Db, g) :
                          o[2] \notin listed /\ ObjectiveReports(Db, o, NotDeleted) = {}}
           gone == IF skipCleanup THEN {} ELSE unlisted
           c == SetStatus(b, added, objectiveStatus)
           d == DestroyObjectives(c, gone)
<1>1. Commit(d) /\ g \in GoalsNotClosed(Db) \union NextGoal(Db)
  BY DEF CreateOrUpdateGoal
<1>2. Valid(Db) /\ Sound(Db) /\ Db \in GoalDbs
  BY InvFacts DEF GoalInv
<1>3. status \in GoalStatuses /\ objectiveStatus \in ObjectiveStatuses
  BY GivenStatusesAssumption
<1>4. /\ added \subseteq Objectives
      /\ \A r \in Reports, o \in added : Db.aros[r][o] = NoLink
  <2>1. \A o \in added : o \in Objectives
    BY TitlesAssumption DEF Objectives
  <2>2. \A o \in added : Db.objectives[o].status = ABSENT
    BY <2>1 DEF LiveObjectives
  <2> QED BY <1>2, <2>1, <2>2 DEF Sound, LinkedObjectivesThere
<1>5. \A r \in Reports, o \in gone : o \in Objectives /\ Db.aros[r][o] = NoLink
  <2> SUFFICES ASSUME NEW r \in Reports, NEW o \in unlisted
               PROVE  o \in Objectives /\ Db.aros[r][o] = NoLink
    OBVIOUS
  <2>1. o \in Objectives
    BY DEF ObjectivesOf, LiveObjectives
  <2>2. ASSUME Db.aros[r][o] # NoLink PROVE FALSE
    <3>1. Db.reports[r] \in NotDeleted
      BY <1>2, <2>1, <2>2 DEF Sound, LinkedObjectivesThere, GoalDbs, NotDeleted
    <3>2. r \in ObjectiveReports(Db, o, NotDeleted)
      BY <2>2, <3>1 DEF ObjectiveReports
    <3> QED BY <3>2
  <2> QED BY <2>1, <2>2
<1> HIDE DEF added, gone
<1>6. /\ Proper(a) /\ Marked(a) /\ Used(a) /\ Recorded(a)
      /\ a.ok => OneOpen(a)
      /\ a.objectives = Db.objectives /\ a.reports = Db.reports
      /\ a.args = Db.args /\ a.aros = Db.aros
      /\ \A h \in Goals : a.goals[h].status = CLOSED =>
           Db.goals[h].status = CLOSED \/ (h = g /\ status = CLOSED)
  BY <1>1, <1>2, <1>3, SaveGivenGoalFacts
<1> HIDE DEF a
<1>7. Sound(a) /\ a \in GoalDbs
  BY <1>6 DEF Proper, Sound
<1>8. b.ok = a.ok
  BY <1>7 DEF CreateObjectives, SetObjectives, GoalDbs
<1>9. Added(a, added, "rtr", b)
  BY <1>4, <1>6, <1>7, CreateObjectivesFacts DEF Unlinked
<1> HIDE DEF b
<1>10. b \in GoalDbs /\ added \subseteq LiveObjectives(b)
  BY <1>4, <1>9 DEF Added, Sound, LiveObjectives
<1>11. OnlyStatuses(b, c)
  BY <1>3, <1>10, SetStatusFacts
<1> HIDE DEF c
<1>12. /\ Sound(c) /\ c.goals = a.goals /\ c.reports = a.reports
       /\ c.args = a.args /\ c.aros = a.aros /\ a.selectedBefore \subseteq c.selectedBefore
  <2>1. Sound(b) /\ b.goals = a.goals /\ b.reports = a.reports
        /\ b.args = a.args /\ b.aros = a.aros /\ b.selectedBefore = a.selectedBefore
    BY <1>9 DEF Added
  <2> QED BY <2>1, <1>11, KeepsSound DEF OnlyStatuses, Keeps
<1>13. /\ Sound(d) /\ d.goals = c.goals /\ d.reports = c.reports /\ d.ok = c.ok
       /\ d.args = c.args /\ d.aros = c.aros /\ d.selectedBefore = c.selectedBefore
       /\ \A o \in Objectives :
            d.objectives[o] = IF o \in gone THEN NoObjective ELSE c.objectives[o]
  <2>1. \A r \in Reports, o \in Objectives : o \in gone => c.aros[r][o] = NoLink
    BY <1>5, <1>6, <1>12
  <2> QED BY <2>1, <1>12, DestroyObjectivesSound, DestroyObjectivesFacts DEF Sound
<1> HIDE DEF d
<1>14. /\ Sound(d) /\ d.goals = a.goals /\ d.reports = a.reports
       /\ d.args = a.args /\ d.aros = a.aros /\ a.selectedBefore \subseteq d.selectedBefore
  BY <1>12, <1>13
<1>15. a.ok
  BY <1>1, <1>8, <1>11, <1>13 DEF Commit, OnlyStatuses, Keeps
<1>16. Proper(d)
  BY <1>6, <1>14, SameLinksProper
<1>17. Marked(d) /\ Used(d)
  <2>1. Marked(b) /\ Used(b)
    <3>1. \A o \in Objectives :
            \/ SameObjective(o, a, b)
            \/ /\ b.objectives[o].via = "rtr" /\ b.objectives[o].onApprovedAR = FALSE
               /\ \A r \in Reports : a.aros[r][o] = NoLink
      <4> TAKE o \in Objectives
      <4>1. CASE o \in added
        <5>1. b.objectives[o].via = "rtr" /\ b.objectives[o].onApprovedAR = FALSE
          BY <4>1, <1>9 DEF Added
        <5>2. \A r \in Reports : a.aros[r][o] = NoLink
          BY <4>1, <1>4, <1>6
        <5> QED BY <5>1, <5>2
      <4>2. CASE o \notin added
        BY <4>2, <1>9 DEF Added, SameObjective
      <4> QED BY <4>1, <4>2
    <3>2. \A h \in Goals : SameGoal(h, a, b)
      BY <1>9 DEF Added, SameGoal
    <3> QED BY <3>1, <3>2, <1>6, <1>9, RowsComeAndGo DEF Added
  <2>2. Marked(c) /\ Used(c)
    BY <2>1, <1>11, SameMarksFacts DEF OnlyStatuses
  <2>3. NoObjective.status = ABSENT
    BY DEF NoObjective
  <2>4. \A o \in Objectives : SameObjective(o, c, d) \/ d.objectives[o].status = ABSENT
    BY <2>3, <1>13 DEF SameObjective
  <2>5. \A h \in Goals : SameGoal(h, c, d)
    BY <1>13 DEF SameGoal
  <2> QED BY <2>2, <2>4, <2>5, <1>13, RowsComeAndGo
<1>18. OneOpen(d)
  BY <1>6, <1>14, <1>15, OpenStays
<1>19. Recorded(d)
  BY <1>6, <1>14 DEF Recorded, NoObjectives
<1>20. Valid(d)
  BY <1>16, <1>17, <1>18, <1>19 DEF Valid, Marks
<1>21. Db' = d /\ GoalInv'
  BY <1>1, <1>20, CommitIsDb
<1> QED BY <1>6, <1>14, <1>21 DEF NoneStarted, NoneTurnedIn

-----------------------------------------------------------------------------
LEMMA InitFacts == Init => GoalInv
<1> SUFFICES ASSUME Init PROVE Proper(Db) /\ Marks(Db) /\ Recorded(Db)
  BY DEF GoalInv, Valid
<1>1. NoGoal \in GoalRows /\ NoObjective \in ObjectiveRows
  BY DEF NoGoal, GoalRows, NoObjective, ObjectiveRows
<1>2. DRAFT \in ReportStatuses /\ NoLink \in Links
  BY DEF ReportStatuses, Links
<1>3. Db \in GoalDbs
  BY <1>1, <1>2 DEF Init, Db, GoalDbs
<1>4. \A g \in Goals : Db.goals[g].status = ABSENT /\ Db.goals[g].onAR = FALSE
  BY DEF Init, Db, NoGoal
<1>5. \A o \in Objectives : Db.objectives[o].onAR = FALSE
  BY DEF Init, Db, NoObjective
<1>6. Db.args = {} /\ \A r \in Reports, o \in Objectives : Db.aros[r][o] = NoLink
  BY DEF Init, Db
<1>7. Proper(Db)
  <2>1. Sound(Db)
    BY <1>3, <1>4, <1>5, <1>6 DEF Sound, LinkedGoalsThere, LinkedObjectivesThere,
       ObjectivesFlagged, GoalsFlagged
  <2>2. \A r \in Reports : OneCycle(Db, r)
    BY <1>6 DEF OneCycle, ObjectivesFit, Single
  <2> QED BY <2>1, <2>2 DEF Proper
<1>8. \A o \in Objectives : Db.objectives[o].status = ABSENT
  BY DEF Init, Db, NoObjective
<1>9. Marks(Db)
  BY <1>4, <1>8 DEF Marks, OneOpen, GoalsNotClosed, LiveGoals, GoalStatuses, Marked, Used
<1>10. Recorded(Db)
  BY <1>6 DEF Recorded
<1> QED BY <1>7, <1>9, <1>10

\* What NoNewWorkOnClosedGoals says of a step.
NoNewWorkStep ==
  \A r \in Reports, g \in Goals :
    <<r, g>> \in args' /\ goals'[g].status = CLOSED =>
      /\ \/ reports'[r] \notin Active
         \/ <<r, g>> \in args /\ goals[g].status = CLOSED
         \/ \E h \in Goals : CreateReportFromAdmin(r, h)
         \/ GoalIsGiven(g, CLOSED)
      /\ \/ reports'[r] \notin {SUBMITTED, APPROVED} \/ reports'[r] = reports[r]
         \/ <<r, g>> \in selectedBefore

LEMMA StepOfRequest ==
  ASSUME \A r \in Reports, g \in Goals : <<r, g>> \in Db'.args /\ Db'.goals[g].status = CLOSED =>
           /\ \/ NoneStarted(r, g, Db, Db')
              \/ \E h \in Goals : CreateReportFromAdmin(r, h)
              \/ GoalIsGiven(g, CLOSED)
           /\ NoneTurnedIn(r, g, Db, Db')
  PROVE  NoNewWorkStep
<1>1. Db'.args = args' /\ Db'.goals = goals' /\ Db'.reports = reports'
  BY DEF Db
<1>2. \A r \in Reports, g \in Goals :
        /\ NoneStarted(r, g, Db, Db') <=>
             (reports'[r] \in Active => <<r, g>> \in args /\ goals[g].status = CLOSED)
        /\ NoneTurnedIn(r, g, Db, Db') <=>
             \/ reports'[r] \notin {SUBMITTED, APPROVED} \/ reports'[r] = reports[r]
             \/ <<r, g>> \in selectedBefore
  BY <1>1, DbFields DEF NoneStarted, NoneTurnedIn
<1> QED BY <1>1, <1>2 DEF NoNewWorkStep

\* Every request keeps the invariant, and starts no work on a closed goal.
LEMMA StepFacts == GoalInv /\ [Next]_vars => GoalInv' /\ [NoNewWorkStep]_vars
<1> SUFFICES ASSUME GoalInv, [Next]_vars PROVE GoalInv' /\ [NoNewWorkStep]_vars
  OBVIOUS
<1>1. CASE UNCHANGED vars
  <2>1. Db' = Db
    BY <1>1 DEF vars, Db
  <2> QED BY <1>1, <2>1 DEF GoalInv
<1>a. ASSUME GoalInv' /\ NoNewWork(Db, Db') PROVE GoalInv' /\ NoNewWorkStep
  BY <1>a, StepOfRequest DEF NoNewWork
<1>2. CASE \E r \in Reports, g \in Goals,
              want \in [Titles -> GivenObjectiveStatuses \union {NoLink}] :
                SaveReportGoal(r, g, want)
  BY <1>2, <1>a, SaveReportGoalFine
<1>3. CASE \E r \in Reports : SaveReportWithoutGoal(r)
  BY <1>3, <1>a, SaveReportWithoutGoalFine
<1>4. CASE \E r \in Reports : RemoveRecipient(r)
  BY <1>4, <1>a, RemoveRecipientFine
<1>5. CASE \E r \in Reports, outcome \in {SUBMITTED, APPROVED},
              begun \in SUBSET SuspendedObjectives : SubmitReport(r, outcome, begun)
  BY <1>5, <1>a, StatusRequestsFine
<1>6. CASE \E r \in Reports, outcome \in {APPROVED, NEEDS_ACTION},
              begun \in SUBSET SuspendedObjectives : ReviewReport(r, outcome, begun)
  BY <1>6, <1>a, StatusRequestsFine
<1>7. CASE \E r \in Reports, begun \in SUBSET SuspendedObjectives : UnlockReport(r, begun)
  BY <1>7, <1>a, StatusRequestsFine
<1>8. CASE \E r \in Reports, begun \in SUBSET SuspendedObjectives : ResetToDraft(r, begun)
  BY <1>8, <1>a, ResetToDraftFine
<1>9. CASE \E r \in Reports : SoftDeleteReport(r)
  BY <1>9, <1>a, SoftDeleteReportFine
<1>10. CASE \E g \in Goals, ts \in SUBSET PageTitles : NewStandardGoal(g, ts)
  BY <1>10, <1>a, NewStandardGoalFine
<1>11. CASE \E g \in Goals, listed \in SUBSET PageTitles : \E fromTemplate \in SUBSET listed :
               UpdateStandardGoal(g, listed, fromTemplate)
  BY <1>11, <1>a, UpdateStandardGoalFine
<1>12. CASE \E g \in Goals, new \in GivenGoalStatuses : \E old \in ShownStatuses(g) :
               ChangeGoalStatus(g, old, new)
  BY <1>12, <1>a, ChangeGoalStatusFine
<1>13. CASE \E g \in Goals : ReopenGoal(g)
  BY <1>13, <1>a, ReopenGoalFine
<1>14. CASE \E g \in Goals : DeleteGoal(g)
  BY <1>14, <1>a, DeleteGoalFine
<1>15. CASE \E g \in Goals : \E old \in ShownStatuses(g) : CloseGoalFromAdmin(g, old)
  BY <1>15, <1>a, CloseGoalFromAdminFine
<1>16. CASE \E o \in Objectives, status \in GivenObjectiveStatuses :
               UpdateObjectiveStatus(o, status)
  BY <1>16, <1>a, UpdateObjectiveStatusFine
<1>17. CASE \E g \in Goals : CreateGoalFromAdmin(g)
  BY <1>17, <1>a, CreateGoalFromAdminFine
<1>18. CASE \E r \in Reports, g \in Goals : CreateReportFromAdmin(r, g)
  <2>1. PICK r \in Reports, g \in Goals : CreateReportFromAdmin(r, g)
    BY <1>18
  <2>2. /\ GoalInv'
        /\ \A s \in Reports, h \in Goals :
             <<s, h>> \in Db'.args /\ Db'.goals[h].status = CLOSED =>
               /\ s = r \/ NoneStarted(s, h, Db, Db')
               /\ NoneTurnedIn(s, h, Db, Db')
    BY <2>1, CreateReportFromAdminFine
  <2>3. NoNewWorkStep
    BY <2>1, <2>2, StepOfRequest
  <2> QED BY <2>2, <2>3
<1>19. CASE \E g \in Goals, status \in GivenGoalStatuses : GoalIsGiven(g, status)
  <2>1. PICK g \in Goals, status \in GivenGoalStatuses : GoalIsGiven(g, status)
    BY <1>19
  <2>2. PICK listed \in SUBSET PageTitles, objectiveStatus \in GivenObjectiveStatuses,
             skipCleanup \in BOOLEAN :
               CreateOrUpdateGoal(g, status, listed, objectiveStatus, skipCleanup)
    BY <2>1 DEF GoalIsGiven
  <2>3. /\ GoalInv'
        /\ \A r \in Reports, h \in Goals :
             <<r, h>> \in Db'.args /\ Db'.goals[h].status = CLOSED =>
               /\ NoneStarted(r, h, Db, Db') \/ (h = g /\ status = CLOSED)
               /\ NoneTurnedIn(r, h, Db, Db')
    BY <2>2, CreateOrUpdateGoalFine
  <2>4. NoNewWorkStep
    BY <2>1, <2>3, StepOfRequest
  <2> QED BY <2>3, <2>4
<1> QED BY <1>1, <1>2, <1>3, <1>4, <1>5, <1>6, <1>7, <1>8, <1>9, <1>10, <1>11, <1>12, <1>13,
           <1>14, <1>15, <1>16, <1>17, <1>18, <1>19 DEF Next

\* The invariant, for any reports, titles and number of cycles.
THEOREM Invariance == Spec => []GoalInv
<1>1. Init => GoalInv
  BY InitFacts
<1>2. GoalInv /\ [Next]_vars => GoalInv'
  BY StepFacts
<1> QED BY <1>1, <1>2, PTL DEF Spec

LEMMA InvImplies ==
  ASSUME GoalInv
  PROVE  /\ TypeOK /\ OneCyclePerReport /\ UsedRowsKept
         /\ OnARFlagTrue /\ ApprovedFlagTrue /\ NoAbandonedObjectives
<1>1. Proper(Db) /\ Sound(Db) /\ Db \in GoalDbs
  BY InvFacts
<1>2. TypeOK
  BY <1>1, DbFields DEF TypeOK, GoalDbs
<1>3. OneCyclePerReport
  BY <1>1, DbFields DEF Proper, OneCycle, ObjectivesFit, Single, NoObjectives, OneCyclePerReport
<1>4. UsedRowsKept
  BY <1>1, DbFields, GoalStatusCases DEF Sound, LinkedGoalsThere, LinkedObjectivesThere,
     UsedRowsKept
<1>5. OnARFlagTrue
  <2>1. \A o \in Objectives : ObjectiveReports(Db, o, ReportStatuses) # {}
                                <=> \E r \in Reports : Db.aros[r][o] # NoLink
    BY <1>1 DEF ObjectiveReports, GoalDbs
  <2>2. \A g \in Goals : GoalReports(Db, g, ReportStatuses) # {}
                           <=> \E r \in Reports : <<r, g>> \in Db.args
    BY <1>1 DEF GoalReports, GoalDbs
  <2>3. \A g \in LiveGoals(Db) : g \in Goals /\ Db.goals[g].status # GONE
    BY DEF LiveGoals, GoalStatuses
  <2>4. \A o \in LiveObjectives(Db) : o \in Objectives
    BY DEF LiveObjectives
  <2>5. \A o \in LiveObjectives(Db) :
          Db.objectives[o].onAR <=> ObjectiveReports(Db, o, ReportStatuses) # {}
    BY <1>1, <2>1, <2>4 DEF Sound, ObjectivesFlagged
  <2>6. \A g \in LiveGoals(Db) : Db.goals[g].onAR <=> GoalReports(Db, g, ReportStatuses) # {}
    BY <1>1, <2>2, <2>3 DEF Sound, GoalsFlagged
  <2> QED BY <2>5, <2>6, DbFields DEF OnARFlagTrue
<1>6. ApprovedFlagTrue
  <2> SUFFICES ASSUME NEW o \in LiveObjectives(Db)
               PROVE  /\ Db.objectives[o].onApprovedAR <=> ObjectiveReports(Db, o, {APPROVED}) # {}
                      /\ Db.objectives[o].onApprovedAR /\ o[1] \in LiveGoals(Db)
                           => Db.goals[o[1]].onApprovedAR
    BY DbFields DEF ApprovedFlagTrue
  <2>1. o \in Objectives /\ Db.objectives[o].status # ABSENT
    BY DEF LiveObjectives
  <2>2. ObjectiveReports(Db, o, {APPROVED}) # {} <=> Approved(o, Db)
    BY DEF ObjectiveReports, Approved
  <2>3. o[1] \in LiveGoals(Db) /\ HasMark(o[1], Db) => Db.goals[o[1]].onApprovedAR
    BY DEF LiveGoals, HasMark, GoalStatuses
  <2> QED BY <2>1, <2>2, <2>3, InvFacts DEF Marked
<1>7. NoAbandonedObjectives
  <2> SUFFICES ASSUME NEW o \in LiveObjectives(Db), Db.objectives[o].via = "activityReport"
               PROVE  ObjectiveReports(Db, o, NotDeleted) # {}
    BY DbFields DEF NoAbandonedObjectives
  <2>1. o \in Objectives /\ Linked(o, Db)
    BY InvFacts DEF LiveObjectives, Used
  <2>2. PICK s \in Reports : Db.aros[s][o] # NoLink
    BY <2>1 DEF Linked
  <2>3. Db.reports[s] \in NotDeleted
    BY <1>1, <2>1, <2>2 DEF Sound, LinkedObjectivesThere, GoalDbs, NotDeleted
  <2>4. s \in ObjectiveReports(Db, o, NotDeleted)
    BY <2>2, <2>3 DEF ObjectiveReports
  <2> QED BY <2>4
<1> QED BY <1>2, <1>3, <1>4, <1>5, <1>6, <1>7

\* The rows of goals, objectives and links keep their types.
THEOREM TypeCorrect == Spec => []TypeOK
BY Invariance, InvImplies, PTL

\* A report that is not deleted uses one cycle of a goal and objectives of that
\* cycle only, however many cycles there are and whoever closes and starts them:
\* an administrator's new draft is on all of them, and is settled before it gets an
\* objective or leaves the draft.
THEOREM OneCycleAlways == Spec => []OneCyclePerReport
BY Invariance, InvImplies, PTL

\* No clean-up deletes a goal or an objective that a report still uses.
THEOREM UsedRowsAlwaysKept == Spec => []UsedRowsKept
BY Invariance, InvImplies, PTL

\* The flag onAR says whether a report uses the row.
THEOREM OnARAlwaysTrue == Spec => []OnARFlagTrue
BY Invariance, InvImplies, PTL

\* An objective has the mark of approval exactly when an approved report uses it,
\* through every approval, unlock, deletion and new cycle, and its goal has it too.
THEOREM ApprovedFlagAlwaysTrue == Spec => []ApprovedFlagTrue
BY Invariance, InvImplies, PTL

\* No objective that a report made outlives its last use.
THEOREM NothingAbandoned == Spec => []NoAbandonedObjectives
BY Invariance, InvImplies, PTL

\* No request but the administrators' new report puts a report to work on a
\* finished cycle, none but the goals' API closes a goal under one, and no report
\* is submitted or approved on a closed goal that it had not selected before a
\* recorded change closed it.
THEOREM NoNewWorkStarts == Spec => NoNewWorkOnClosedGoals
<1>1. GoalInv /\ [Next]_vars => [NoNewWorkStep]_vars
  BY StepFacts
<1> QED BY <1>1, Invariance, PTL DEF Spec, NoNewWorkOnClosedGoals, NoNewWorkStep
=============================================================================
