-------------------------- MODULE ImportFiles_proofs --------------------------
(***************************************************************************)
(* The import with any number of files, jobs at once and failures: no      *)
(* file is overtaken, none that was given up comes back, and no attempt is *)
(* forgotten.                                                              *)
(***************************************************************************)
EXTENDS ImportFiles, TLAPS

USE DEF NONE, IDENTIFIED, COLLECTED, COLLECTION_FAILED, PROCESSED, PROCESSING_FAILED

-----------------------------------------------------------------------------
Steps == {"idle", "prior", "list", "record", "more", "next", "release", "commit"}

Jobs == [pc : Steps, seen : SUBSET Files, list : SUBSET Files]

Shapes ==
  /\ server \subseteq Files /\ posted \in 0 .. NumFiles
  /\ rows \in [Files -> Rows] /\ draft \in [Files -> Rows]
  /\ lock \in [Files -> Runs \cup {Free}]
  /\ mutex \in Processors \cup {Free, Orphan}
  /\ queue \subseteq {IMPORT_DOWNLOAD, IMPORT_PROCESS}
  /\ run \in [Runs -> Jobs]
  /\ failures \in 0 .. MaxFailures

\* The status and the counters of a row go together.
Consistent(row) ==
  /\ row.status \in {NONE, IDENTIFIED} => row.downloads = 0 /\ row.attempts = 0 /\ ~row.hash
  /\ row.status \in {COLLECTED, PROCESSED, PROCESSING_FAILED} => row.hash

\* The download is over: there is a file, or no attempt is left.
Done(row) == row.hash \/ GivenUp(row)

\* What a job may make of a row.
Grows(old, new) ==
  /\ new.downloads >= old.downloads /\ new.attempts >= old.attempts
  /\ GivenUp(old) => GivenUp(new)
  /\ Done(old) => Done(new)

\* A lock is held by a job that runs, and only its owner's draft differs.
DraftsGrow ==
  \A f \in Files :
    /\ Consistent(rows[f]) /\ Consistent(draft[f])
    /\ Grows(rows[f], draft[f])
    /\ lock[f] = Free => draft[f] = rows[f]

\* A file whose download is over has appeared.
AppearedBefore ==
  /\ server \subseteq 1 .. posted
  /\ \A f \in Files : f > posted => ~Done(rows[f]) /\ ~Done(draft[f])

\* Whatever the server still shows and is older is over as well: in what is
\* committed, and in what each job will commit.
RowsInOrder ==
  \A f, g \in Files : f < g /\ Done(rows[g]) /\ f \in server => Done(rows[f])

DraftsInOrder ==
  \A r \in Runs, f, g \in Files :
    f < g /\ lock[g] = r /\ Done(draft[g]) /\ f \in server => Done(View(r, f))

\* What a download has left out of its list needs no download.
ListsComplete ==
  \A d \in Runs :
    /\ run[d].pc = "list" =>
         \A f \in Files \ run[d].list :
           f <= posted /\ (f \in server => Done(rows[f]))
    /\ run[d].pc = "record" =>
         /\ run[d].list \subseteq 1 .. posted
         /\ \A g \in run[d].list, f \in Files \ run[d].list :
              f < g /\ f \in server => Done(rows[f])

\* A job holds no lock before the first query that takes one has got it.
IdleHoldsNothing ==
  \A r \in Runs : run[r].pc \in {"idle", "prior", "next"} => \A f \in Files : lock[f] # r

ImportInv ==
  /\ Shapes
  /\ IdleHoldsNothing
  /\ DraftsGrow
  /\ AppearedBefore
  /\ RowsInOrder
  /\ DraftsInOrder
  /\ ListsComplete

LEMMA ImportInvType == ImportInv => TypeOK
BY DEF ImportInv, Shapes, DraftsGrow, TypeOK, Jobs

-----------------------------------------------------------------------------
LEMMA GrowsTwice ==
  ASSUME NEW a \in Rows, NEW b \in Rows, NEW c \in Rows, Grows(a, b), Grows(b, c)
  PROVE  Grows(a, c)
BY DEF Grows, Rows

LEMMA GrowsSelf ==
  ASSUME NEW a \in Rows PROVE Grows(a, a)
BY DEF Grows, Rows

\* An attempt is counted, and a file given up stays so.
LEMMA CollectGrows ==
  ASSUME NEW row \in Rows, Consistent(row), NEW new \in Collect(row)
  PROVE  /\ new \in Rows /\ Consistent(new) /\ Grows(row, new)
         /\ new # row /\ new.status = COLLECTED => new.hash
<1>0. MaxAttempts \in Nat
  BY ImportAssumption
<1>1. CASE new = row
  BY <1>1, GrowsSelf
<1>2. CASE new # row
  <2> DEFINE most == Max({MaxAttempts, row.downloads})
  <2>1. most \in Nat
    <3>1. \E x \in {MaxAttempts, row.downloads} : \A y \in {MaxAttempts, row.downloads} : x >= y
      BY <1>0 DEF Rows
    <3>2. most \in {MaxAttempts, row.downloads}
      BY <3>1 DEF Max
    <3> QED BY <1>0, <3>2 DEF Rows
  <2> HIDE DEF most
  <2>2. new \in Tried(row) /\ (new.status = COLLECTED => new.downloads <= MaxAttempts)
    BY <1>2 DEF Collect
  <2>3. PICK status \in {COLLECTED, COLLECTION_FAILED}, n \in row.downloads + 1 .. most + 1 :
          new = AfterAttempt(row, status, n)
    BY <2>2 DEF Tried, most
  <2>4. n \in Nat /\ n > row.downloads
    BY <2>1, <2>3 DEF Rows
  <2>5. new \in Rows /\ new.status = status /\ new.downloads = n /\ new.attempts = row.attempts
        /\ (new.hash <=> row.hash \/ status = COLLECTED)
    BY <2>3, <2>4 DEF Rows, AfterAttempt
  <2>6. Consistent(new)
    BY <2>3, <2>5 DEF Consistent
  <2>7. GivenUp(row) => GivenUp(new)
    BY <1>0, <2>2, <2>3, <2>4, <2>5 DEF GivenUp, Rows
  <2> QED BY <2>4, <2>5, <2>6, <2>7 DEF Grows, Done, Rows
<1> QED BY <1>1, <1>2

\* What an attempt at processing makes of a row.
LEMMA ProcessedGrows ==
  ASSUME NEW row \in Rows, Consistent(row), IsNext(row),
         NEW status \in {PROCESSED, PROCESSING_FAILED},
         NEW new, new = [row EXCEPT !.status = status, !.attempts = @ + 1]
  PROVE  new \in Rows /\ Consistent(new) /\ Grows(row, new) /\ Done(row)
<1> DEFINE k == row.attempts + 1
<1>0. k \in Nat /\ k > row.attempts /\ new = [row EXCEPT !.status = status, !.attempts = k]
  BY DEF Rows
<1> HIDE DEF k
<1>1. /\ new \in Rows /\ new.status = status /\ new.downloads = row.downloads
      /\ new.attempts = k /\ new.hash = row.hash
  BY <1>0 DEF Rows
<1>2. row.hash
  BY DEF Consistent, IsNext
<1>3. ~GivenUp(row)
  BY DEF IsNext, GivenUp
<1>4. new.attempts >= row.attempts /\ new.downloads >= row.downloads
  BY <1>0, <1>1 DEF Rows
<1> QED BY <1>1, <1>2, <1>3, <1>4 DEF Consistent, Grows, Done

-----------------------------------------------------------------------------
LEMMA ImportInvInit == Init => ImportInv
<1> SUFFICES ASSUME Init PROVE ImportInv
  OBVIOUS
<1>1. NoRow \in Rows /\ Consistent(NoRow) /\ Grows(NoRow, NoRow) /\ ~Done(NoRow)
  BY DEF NoRow, Rows, Consistent, Grows, Done, GivenUp
<1>2. Idle \in Jobs /\ Idle.pc = "idle"
  BY DEF Idle, Jobs, Steps
<1> HIDE DEF NoRow, Idle
<1>3. Free \notin Runs
  BY ImportAssumption DEF Runs
<1>4. Shapes
  BY ImportAssumption, <1>1, <1>2 DEF Init, Shapes
<1> QED
  BY <1>1, <1>2, <1>3, <1>4
     DEF Init, ImportInv, IdleHoldsNothing, DraftsGrow, AppearedBefore, RowsInOrder,
         DraftsInOrder, ListsComplete

\* What holds of the data alone.
DataInv == DraftsGrow /\ AppearedBefore /\ RowsInOrder /\ DraftsInOrder

LEMMA FreeIsNoRun == Free \notin Runs
BY ImportAssumption DEF Runs

\* What is over for everyone is over as any job sees it.
LEMMA DoneIsSeen ==
  ASSUME DraftsGrow, NEW r \in Runs, NEW f \in Files, Done(rows[f])
  PROVE  Done(View(r, f)) /\ Done(draft[f])
BY DEF DraftsGrow, Grows, View

\* A job that waits for rows gets those that are free, or its own.
LEMMA RowsGot ==
  ASSUME Shapes, NEW r \in Runs, GetsRows(r)
  PROVE  /\ Wanted(r) \in SUBSET Files
         /\ \A f \in Wanted(r) : lock[f] \in {Free, r}
<1>1. Wanted(r) \subseteq Files
  <2>1. run[r].seen \subseteq Files /\ run[r].list \subseteq Files
    BY DEF Shapes, Jobs
  <2> QED BY <2>1 DEF Wanted, Last, First
<1> QED BY <1>1 DEF GetsRows, WaitsFor, Shapes

\* Steps that leave rows, locks and drafts alone.
LEMMA DataStays ==
  ASSUME ImportInv, server' \subseteq server, UNCHANGED <<posted, rows, draft, lock>>
  PROVE  DataInv'
BY DEF ImportInv, DataInv, DraftsGrow, AppearedBefore, RowsInOrder, DraftsInOrder, View

\* Rows that are locked without being changed.
LEMMA DataWhenLocked ==
  ASSUME ImportInv, NEW r \in Runs, NEW fs \in SUBSET Files,
         \A f \in fs : lock[f] \in {Free, r},
         LockRows(r, fs), UNCHANGED <<server, posted, rows, draft>>
  PROVE  DataInv' /\ lock' \in [Files -> Runs \cup {Free}]
<1>1. /\ lock' \in [Files -> Runs \cup {Free}]
      /\ \A f \in Files : lock'[f] = IF f \in fs THEN r ELSE lock[f]
  BY DEF LockRows, ImportInv, Shapes
<1>2. DraftsGrow' /\ AppearedBefore' /\ RowsInOrder'
  BY <1>1, FreeIsNoRun DEF ImportInv, DraftsGrow, AppearedBefore, RowsInOrder
<1>3. DraftsInOrder'
  <2> SUFFICES ASSUME NEW s \in Runs, NEW f \in Files, NEW g \in Files,
                      f < g, lock'[g] = s, Done(draft[g]), f \in server
               PROVE  Done(IF lock'[f] = s THEN draft[f] ELSE rows[f])
    BY DEF DraftsInOrder, View
  <2>1. CASE lock[g] = s
    <3>1. Done(View(s, f))
      BY <2>1 DEF ImportInv, DraftsInOrder
    <3> QED BY <1>1, <3>1, FreeIsNoRun DEF View, ImportInv, DraftsGrow
  <2>2. CASE lock[g] # s
    <3>1. lock[g] = Free
      BY <1>1, <2>2
    <3>2. Done(rows[f])
      BY <3>1 DEF ImportInv, DraftsGrow, RowsInOrder
    <3> QED BY <3>2 DEF ImportInv, DraftsGrow, Grows
  <2> QED BY <2>1, <2>2
<1> QED BY <1>1, <1>2, <1>3 DEF DataInv

\* Lists that nobody touches stay complete while rows only grow.
LEMMA ListsStay ==
  ASSUME ListsComplete, posted' = posted, server' \subseteq server,
         \A f \in Files : Done(rows[f]) => Done(rows'[f]),
         \A d \in Runs : run'[d] = run[d] \/ run'[d].pc \notin {"list", "record"}
  PROVE  ListsComplete'
BY DEF ListsComplete

\* A step of one job.
LEMMA OneRun ==
  ASSUME Shapes, NEW r \in Runs, NEW job \in Jobs, run' = [run EXCEPT ![r] = job]
  PROVE  run' \in [Runs -> Jobs] /\ run'[r] = job /\ \A s \in Runs \ {r} : run'[s] = run[s]
BY DEF Shapes

LEMMA Combined ==
  ASSUME Shapes', IdleHoldsNothing', DataInv', ListsComplete'
  PROVE  ImportInv'
BY DEF DataInv, ImportInv

-----------------------------------------------------------------------------
(* The download job. *)

LEMMA StartDownloadKeepsInv ==
  ASSUME ImportInv, NEW d \in Downloaders, StartDownload(d)
  PROVE  ImportInv'
<1> DEFINE job == [Idle EXCEPT !.pc = "prior", !.seen = {f \in Files : IsPrior(rows[f])}]
<1>1. d \in Runs /\ job \in Jobs /\ job.pc = "prior"
  BY DEF Runs, Idle, Jobs, Steps
<1>2. run' = [run EXCEPT ![d] = job]
  BY DEF StartDownload
<1> HIDE DEF job
<1>3. run' \in [Runs -> Jobs] /\ run'[d] = job /\ \A s \in Runs \ {d} : run'[s] = run[s]
  BY <1>1, <1>2, OneRun DEF ImportInv
<1>4. Shapes'
  BY <1>3 DEF StartDownload, ImportInv, Shapes
<1>5. IdleHoldsNothing'
  BY <1>1, <1>3 DEF StartDownload, ImportInv, IdleHoldsNothing
<1>6. DataInv'
  BY DataStays DEF StartDownload
<1>7. ListsComplete'
  BY <1>1, <1>3, ListsStay DEF StartDownload, ImportInv
<1> QED BY <1>4, <1>5, <1>6, <1>7, Combined

\* The listing starts after a file whose download is over, and so are those of
\* the older files.
LEMMA GetPriorFileKeepsInv ==
  ASSUME ImportInv, NEW d \in Downloaders, GetPriorFile(d)
  PROVE  ImportInv'
<1>0. d \in Runs /\ Shapes /\ UNCHANGED <<server, posted, rows, draft, mutex, queue, failures>>
  BY DEF Runs, ImportInv, GetPriorFile
<1>1. run[d] \in Jobs /\ run[d].pc = "prior" /\ run \in [Runs -> Jobs]
  BY <1>0 DEF GetPriorFile, Shapes
<1>2. CASE run[d].seen = {} /\ run' = [run EXCEPT ![d].pc = "list", ![d].list = Files] /\ UNCHANGED lock
  <2>1. /\ run' \in [Runs -> Jobs] /\ run'[d].pc = "list" /\ run'[d].list = Files
        /\ \A s \in Runs \ {d} : run'[s] = run[s]
    BY <1>0, <1>1, <1>2 DEF Jobs, Steps
  <2>2. Shapes'
    BY <1>0, <1>2, <2>1 DEF Shapes
  <2>3. IdleHoldsNothing'
    BY <1>2, <2>1 DEF ImportInv, IdleHoldsNothing
  <2>4. DataInv'
    BY <1>0, <1>2, DataStays
  <2>5. ListsComplete'
    BY <1>0, <2>1 DEF ImportInv, ListsComplete
  <2> QED BY <2>2, <2>3, <2>4, <2>5, Combined
<1>3. ASSUME NEW f \in Last(run[d].seen), ~IsPrior(rows[f]),
             run' = [run EXCEPT ![d].seen = @ \ {f}], UNCHANGED lock
      PROVE  ImportInv'
  <2>1. /\ run' \in [Runs -> Jobs] /\ run'[d].pc = "prior"
        /\ \A s \in Runs \ {d} : run'[s] = run[s]
    BY <1>0, <1>1, <1>3 DEF Jobs, Steps
  <2>2. Shapes'
    BY <1>0, <1>3, <2>1 DEF Shapes
  <2>3. IdleHoldsNothing'
    BY <1>1, <1>3, <2>1 DEF ImportInv, IdleHoldsNothing
  <2>4. DataInv'
    BY <1>0, <1>3, DataStays
  <2>5. ListsComplete'
    BY <1>0, <2>1, ListsStay DEF ImportInv
  <2> QED BY <2>2, <2>3, <2>4, <2>5, Combined
<1>4. ASSUME NEW f \in Last(run[d].seen), IsPrior(rows[f]), LockRows(d, {f}), GetsRows(d),
             run' = [run EXCEPT ![d].pc = "list", ![d].list = {g \in Files : g > f}]
      PROVE  ImportInv'
  <2>0. f \in Files /\ f \in Nat
    BY <1>1 DEF Last, Jobs, Files
  <2>1. /\ run' \in [Runs -> Jobs] /\ run'[d].pc = "list" /\ run'[d].list = {g \in Files : g > f}
        /\ \A s \in Runs \ {d} : run'[s] = run[s]
    BY <1>0, <1>1, <1>4 DEF Jobs, Steps
  <2>2. lock[f] \in {Free, d}
    BY <1>0, <1>1, <1>4, RowsGot DEF Wanted
  <2>3. DataInv' /\ lock' \in [Files -> Runs \cup {Free}]
    BY <1>0, <1>4, <2>0, <2>2, DataWhenLocked
  <2>4. Done(rows[f])
    BY <1>4, <2>0 DEF IsPrior, Done, ImportInv, DraftsGrow, Consistent
  <2>5. f <= posted /\ posted \in Nat
    BY <1>0, <2>0, <2>4 DEF ImportInv, AppearedBefore, Shapes
  <2>6. Shapes'
    BY <1>0, <2>1, <2>3 DEF Shapes
  <2>7. IdleHoldsNothing'
    BY <1>0, <1>4, <2>1 DEF ImportInv, IdleHoldsNothing, LockRows, Shapes
  <2>8. \A e \in Files \ run'[d].list : e <= posted /\ (e \in server => Done(rows[e]))
    <3> SUFFICES ASSUME NEW e \in Files, ~(e > f) PROVE e <= posted /\ (e \in server => Done(rows[e]))
      BY <2>1
    <3>1. e \in Nat /\ e <= f
      BY <2>0 DEF Files
    <3> QED BY <2>0, <2>4, <2>5, <3>1 DEF ImportInv, RowsInOrder
  <2>9. ListsComplete'
    BY <1>0, <2>1, <2>8 DEF ImportInv, ListsComplete
  <2> QED BY <2>3, <2>6, <2>7, <2>9, Combined
<1> QED BY <1>2, <1>3, <1>4 DEF GetPriorFile

LEMMA ListFilesKeepsInv ==
  ASSUME ImportInv, NEW d \in Downloaders, ListFiles(d)
  PROVE  ImportInv'
<1>0. /\ d \in Runs /\ Shapes /\ run[d].pc = "list"
      /\ UNCHANGED <<server, posted, rows, draft, lock, mutex, queue, failures>>
  BY DEF Runs, ImportInv, ListFiles
<1> DEFINE shown == {f \in Files : Recorded(rows[f])}
<1>1. shown \subseteq Files /\ run' = [run EXCEPT ![d].pc = "record", ![d].list = @ \cap server,
                                                  ![d].seen = shown]
  BY DEF ListFiles
<1> HIDE DEF shown
<1>2. /\ run' \in [Runs -> Jobs] /\ run'[d].pc = "record" /\ run'[d].list = run[d].list \cap server
      /\ \A s \in Runs \ {d} : run'[s] = run[s]
  BY <1>0, <1>1 DEF Shapes, Jobs, Steps
<1>3. Shapes'
  BY <1>0, <1>2 DEF Shapes
<1>4. IdleHoldsNothing'
  BY <1>0, <1>2 DEF ImportInv, IdleHoldsNothing
<1>5. DataInv'
  BY <1>0, DataStays
<1>6. ListsComplete'
  BY <1>0, <1>2 DEF ImportInv, ListsComplete, AppearedBefore
<1> QED BY <1>3, <1>4, <1>5, <1>6, Combined

LEMMA SftpFailsKeepsInv ==
  ASSUME ImportInv, NEW d \in Downloaders, SftpFails(d)
  PROVE  ImportInv'
<1>0. /\ d \in Runs /\ Shapes /\ failures' \in 0 .. MaxFailures
      /\ UNCHANGED <<server, posted, rows, draft, lock, mutex, queue>>
  BY ImportAssumption DEF Runs, ImportInv, SftpFails, Shapes
<1>1. /\ run' \in [Runs -> Jobs] /\ run'[d].pc = "commit"
      /\ \A s \in Runs \ {d} : run'[s] = run[s]
  BY <1>0 DEF Shapes, Jobs, Steps, SftpFails, Goto
<1>2. Shapes'
  BY <1>0, <1>1 DEF Shapes
<1>3. IdleHoldsNothing'
  BY <1>0, <1>1 DEF ImportInv, IdleHoldsNothing
<1>4. DataInv'
  BY <1>0, DataStays
<1>5. ListsComplete'
  BY <1>0, <1>1, ListsStay DEF ImportInv
<1> QED BY <1>2, <1>3, <1>4, <1>5, Combined

\* What is queued at the end of a job changes no row, but locks those that the
\* queries select.
LEMMA QueueingKeepsInv ==
  ASSUME ImportInv, NEW r \in Runs, run[r].pc = "more", GetsRows(r), LockRows(r, Wanted(r)),
         NEW pc \in {"commit", "release"}, Goto(r, pc),
         queue' \subseteq queue \cup {IMPORT_DOWNLOAD, IMPORT_PROCESS},
         UNCHANGED <<server, posted, rows, draft, mutex, failures>>
  PROVE  ImportInv'
<1>1. /\ run' \in [Runs -> Jobs] /\ run'[r].pc = pc
      /\ \A s \in Runs \ {r} : run'[s] = run[s]
  BY DEF ImportInv, Shapes, Jobs, Steps, Goto
<1>2. DataInv' /\ lock' \in [Files -> Runs \cup {Free}]
  BY RowsGot, DataWhenLocked DEF ImportInv
<1>3. Shapes'
  BY <1>1, <1>2 DEF ImportInv, Shapes
<1>4. IdleHoldsNothing'
  BY <1>1 DEF ImportInv, IdleHoldsNothing, LockRows
<1>5. ListsComplete'
  BY <1>1, ListsStay DEF ImportInv
<1> QED BY <1>2, <1>3, <1>4, <1>5, Combined

\* Recording what the server shows makes and removes only rows that nobody has
\* tried to download.
LEMMA RecordKeepsRows ==
  ASSUME ImportInv, NEW d \in Runs, run[d].pc = "record", GetsRows(d), NEW f \in Files
  PROVE  LET old == RecordAvailableFiles(d)[f] IN
           /\ old \in Rows /\ Consistent(old) /\ Grows(draft[f], old)
           /\ Done(old) => Done(draft[f])
           /\ f \notin Wanted(d) => old = draft[f]
<1> DEFINE old == RecordAvailableFiles(d)[f]
<1> SUFFICES /\ old \in Rows /\ Consistent(old) /\ Grows(draft[f], old)
             /\ Done(old) => Done(draft[f])
             /\ f \notin Wanted(d) => old = draft[f]
  OBVIOUS
<1>1. draft[f] \in Rows /\ Consistent(draft[f])
  BY DEF ImportInv, Shapes, DraftsGrow
<1>2. Wanted(d) = run[d].seen \cup run[d].list
  BY DEF Wanted
<1>3. f \in Wanted(d) => View(d, f) = draft[f]
  BY RowsGot, FreeIsNoRun DEF View, ImportInv, DraftsGrow
<1>4. CASE f \in run[d].list /\ ~Recorded(View(d, f))
  <2>1. old = NewRow /\ draft[f].status = NONE
    BY <1>2, <1>3, <1>4 DEF RecordAvailableFiles, Recorded
  <2>2. /\ NewRow \in Rows /\ NewRow.status = IDENTIFIED /\ NewRow.downloads = 0
        /\ NewRow.attempts = 0 /\ ~NewRow.hash
    BY DEF NewRow, NoRow, Rows
  <2> HIDE DEF old
  <2> QED BY <1>1, <1>2, <1>4, <2>1, <2>2 DEF Consistent, Grows, Done, GivenUp, Rows
<1>5. CASE /\ ~(f \in run[d].list /\ ~Recorded(View(d, f)))
           /\ f \in run[d].seen \ run[d].list /\ View(d, f).status = IDENTIFIED
  <2>1. old = NoRow /\ draft[f].status = IDENTIFIED
    BY <1>2, <1>3, <1>5 DEF RecordAvailableFiles
  <2>2. /\ NoRow \in Rows /\ NoRow.status = NONE /\ NoRow.downloads = 0
        /\ NoRow.attempts = 0 /\ ~NoRow.hash
    BY DEF NoRow, Rows
  <2> HIDE DEF old
  <2> QED BY <1>1, <1>2, <1>5, <2>1, <2>2 DEF Consistent, Grows, Done, GivenUp, Rows
<1>6. CASE /\ ~(f \in run[d].list /\ ~Recorded(View(d, f)))
           /\ ~(f \in run[d].seen \ run[d].list /\ View(d, f).status = IDENTIFIED)
  <2>1. old = draft[f]
    BY <1>6 DEF RecordAvailableFiles
  <2> HIDE DEF old
  <2> QED BY <1>1, <2>1, GrowsSelf
<1> QED BY <1>4, <1>5, <1>6

\* A download job takes the files of its list in order, so that what it leaves
\* behind is over.
LEMMA CollectKeepsInv ==
  ASSUME ImportInv, NEW d \in Downloaders, CollectFilesFromSource(d)
  PROVE  ImportInv'
<1> DEFINE list == run[d].list
           old  == RecordAvailableFiles(d)
<1>0. /\ d \in Runs /\ Shapes /\ run[d].pc = "record" /\ GetsRows(d) /\ LockRows(d, Wanted(d))
      /\ run' = [run EXCEPT ![d] = [Idle EXCEPT !.pc = "more"]]
      /\ UNCHANGED <<server, posted, rows, mutex, queue, failures>>
  BY DEF Runs, ImportInv, CollectFilesFromSource
<1>1. PICK new \in [list -> UNION {Collect(old[f]) : f \in list}] :
        /\ \A f \in list : new[f] \in Collect(old[f])
        /\ InOrder(old, new, list)
        /\ draft' = [f \in Files |-> IF f \in list THEN new[f] ELSE old[f]]
  BY DEF CollectFilesFromSource
<1>2. list \subseteq Files /\ list \subseteq Wanted(d) /\ Wanted(d) \subseteq Files
      /\ \A f \in Wanted(d) : lock[f] \in {Free, d}
  BY <1>0, RowsGot DEF Wanted, Shapes, Jobs
<1>3. \A f \in Files : /\ old[f] \in Rows /\ Consistent(old[f]) /\ Grows(draft[f], old[f])
                       /\ Done(old[f]) => Done(draft[f])
                       /\ f \notin Wanted(d) => old[f] = draft[f]
  BY <1>0, RecordKeepsRows
<1> HIDE DEF old
<1>4. \A f \in list : /\ new[f] \in Rows /\ Consistent(new[f]) /\ Grows(old[f], new[f])
                      /\ new[f] # old[f] /\ (new[f].status = COLLECTED \/ GivenUp(new[f]))
                           => Done(new[f])
  BY <1>1, <1>2, <1>3, CollectGrows DEF Done
<1>5. \A f \in Files : /\ rows[f] \in Rows /\ draft[f] \in Rows /\ draft'[f] \in Rows
                       /\ Consistent(draft'[f])
                       /\ Grows(draft[f], draft'[f]) /\ Grows(rows[f], draft'[f])
                       /\ f \notin Wanted(d) => draft'[f] = draft[f]
  <2> SUFFICES ASSUME NEW f \in Files
               PROVE  /\ rows[f] \in Rows /\ draft[f] \in Rows /\ draft'[f] \in Rows
                      /\ Consistent(draft'[f])
                      /\ Grows(draft[f], draft'[f]) /\ Grows(rows[f], draft'[f])
                      /\ f \notin Wanted(d) => draft'[f] = draft[f]
    OBVIOUS
  <2>1. rows[f] \in Rows /\ draft[f] \in Rows /\ Grows(rows[f], draft[f])
    BY DEF ImportInv, Shapes, DraftsGrow
  <2>2. draft'[f] \in Rows /\ Consistent(draft'[f]) /\ Grows(old[f], draft'[f])
    BY <1>1, <1>3, <1>4, GrowsSelf
  <2>3. Grows(draft[f], draft'[f])
    BY <1>3, <2>1, <2>2, GrowsTwice
  <2> QED BY <1>1, <1>2, <1>3, <2>1, <2>2, <2>3, GrowsTwice
<1>6. /\ \A f \in Files : lock'[f] = IF f \in Wanted(d) THEN d ELSE lock[f]
      /\ lock' \in [Files -> Runs \cup {Free}]
  BY <1>0, <1>2 DEF LockRows, Shapes
<1>7. run' \in [Runs -> Jobs] /\ run'[d].pc = "more" /\ \A s \in Runs \ {d} : run'[s] = run[s]
  BY <1>0 DEF Shapes, Jobs, Steps, Idle
<1>8. Shapes'
  BY <1>0, <1>1, <1>5, <1>6, <1>7 DEF Shapes
<1>9. IdleHoldsNothing'
  BY <1>0, <1>6, <1>7 DEF ImportInv, IdleHoldsNothing
<1>10. DraftsGrow'
  BY <1>0, <1>5, <1>6, FreeIsNoRun DEF ImportInv, DraftsGrow
<1>11. AppearedBefore'
  <2>1. \A f \in Files : f > posted => ~Done(draft'[f])
    <3> SUFFICES ASSUME NEW f \in Files, f > posted PROVE ~Done(draft'[f])
      OBVIOUS
    <3>1. f \notin list
      BY <1>0, <1>2 DEF ImportInv, ListsComplete, AppearedBefore, Shapes
    <3> QED BY <1>1, <1>3, <3>1 DEF ImportInv, AppearedBefore
  <2> QED BY <1>0, <2>1 DEF ImportInv, AppearedBefore
<1>12. RowsInOrder'
  BY <1>0 DEF ImportInv, RowsInOrder
<1>13. DraftsInOrder'
  <2> SUFFICES ASSUME NEW s \in Runs, NEW f \in Files, NEW g \in Files,
                      f < g, lock'[g] = s, Done(draft'[g]), f \in server
               PROVE  Done(IF lock'[f] = s THEN draft'[f] ELSE rows[f])
    BY <1>0 DEF DraftsInOrder, View
  <2>1. Done(rows[f]) => Done(IF lock'[f] = s THEN draft'[f] ELSE rows[f])
    BY <1>5 DEF Grows
  <2>2. CASE s # d
    <3>1. g \notin Wanted(d) /\ lock[g] = s
      BY <1>6, <2>2
    <3>2. Done(View(s, f))
      BY <1>5, <3>1 DEF ImportInv, DraftsInOrder
    <3>3. lock[f] = s => f \notin Wanted(d)
      BY <1>2, <2>2, FreeIsNoRun
    <3> QED BY <1>5, <1>6, <2>1, <2>2, <3>2, <3>3 DEF View
  <2>3. CASE s = d /\ (g \notin list \/ new[g] = old[g])
    <3>1. Done(draft[g])
      BY <1>1, <1>3, <2>3
    <3>2. lock[g] \in {Free, d}
      BY <1>2, <1>6, <2>3
    <3>3. Done(View(d, f))
      <4>1. CASE lock[g] = d
        BY <1>0, <3>1, <4>1 DEF ImportInv, DraftsInOrder
      <4>2. CASE lock[g] = Free
        BY <1>0, <3>1, <4>2, DoneIsSeen DEF ImportInv, DraftsGrow, RowsInOrder
      <4> QED BY <3>2, <4>1, <4>2
    <3>4. lock[f] = d => lock'[f] = d
      BY <1>6
    <3> QED BY <1>5, <2>1, <2>3, <3>3, <3>4 DEF View, Grows
  <2>4. CASE s = d /\ g \in list /\ new[g] # old[g]
    <3>1. CASE f \in list
      BY <1>1, <1>2, <1>4, <1>6, <2>4, <3>1 DEF InOrder
    <3>2. CASE f \notin list
      BY <1>0, <2>1, <2>4, <3>2 DEF ImportInv, ListsComplete
    <3> QED BY <3>1, <3>2
  <2> QED BY <2>2, <2>3, <2>4
<1>14. ListsComplete'
  BY <1>0, <1>7, ListsStay DEF ImportInv
<1> QED BY <1>8, <1>9, <1>10, <1>11, <1>12, <1>13, <1>14, Combined DEF DataInv

-----------------------------------------------------------------------------
(* The processing job. *)

LEMMA StartProcessKeepsInv ==
  ASSUME ImportInv, NEW p \in Processors, StartProcess(p)
  PROVE  ImportInv'
<1> DEFINE job == [Idle EXCEPT !.pc = "next", !.seen = {f \in Files : IsNext(rows[f])}]
<1>1. p \in Runs /\ job \in Jobs /\ job.pc = "next"
  BY DEF Runs, Idle, Jobs, Steps
<1>2. run' = [run EXCEPT ![p] = job]
  BY DEF StartProcess
<1> HIDE DEF job
<1>3. run' \in [Runs -> Jobs] /\ run'[p] = job /\ \A s \in Runs \ {p} : run'[s] = run[s]
  BY <1>1, <1>2, OneRun DEF ImportInv
<1>4. Shapes'
  BY <1>3 DEF StartProcess, ImportInv, Shapes
<1>5. IdleHoldsNothing'
  BY <1>1, <1>3 DEF StartProcess, ImportInv, IdleHoldsNothing
<1>6. DataInv'
  BY DataStays DEF StartProcess
<1>7. ListsComplete'
  BY <1>1, <1>3, ListsStay DEF StartProcess, ImportInv
<1> QED BY <1>4, <1>5, <1>6, <1>7, Combined

\* Only a collected file is processed, so that nothing is over that was not.
LEMMA ProcessKeepsInv ==
  ASSUME ImportInv, NEW p \in Processors, ProcessZipFileFromS3(p)
  PROVE  ImportInv'
<1>0. /\ p \in Runs /\ Shapes /\ run[p].pc = "next" /\ GetsRows(p)
      /\ UNCHANGED <<server, posted, rows, mutex, queue, failures>>
  BY DEF Runs, ImportInv, ProcessZipFileFromS3
<1>1. run[p] \in Jobs /\ run \in [Runs -> Jobs]
  BY <1>0 DEF Shapes
<1>2. ASSUME UNCHANGED <<lock, draft>>,
             \/ Goto(p, "more")
             \/ \E f \in Files : run' = [run EXCEPT ![p].seen = @ \ {f}]
      PROVE  ImportInv'
  <2>1. /\ run' \in [Runs -> Jobs] /\ run'[p].pc \in {"more", "next"}
        /\ \A s \in Runs \ {p} : run'[s] = run[s]
    BY <1>0, <1>1, <1>2 DEF Goto, Jobs, Steps
  <2>2. Shapes'
    BY <1>0, <1>2, <2>1 DEF Shapes
  <2>3. IdleHoldsNothing'
    BY <1>0, <1>2, <2>1 DEF ImportInv, IdleHoldsNothing
  <2>4. DataInv'
    BY <1>0, <1>2, DataStays
  <2>5. ListsComplete'
    BY <1>0, <2>1, ListsStay DEF ImportInv
  <2> QED BY <2>2, <2>3, <2>4, <2>5, Combined
<1>3. ASSUME NEW f \in First(run[p].seen), NEW status \in {PROCESSED, PROCESSING_FAILED},
             IsNext(rows[f]), LockRows(p, {f}),
             draft' = [draft EXCEPT ![f].status = status, ![f].attempts = @ + 1],
             run' = [run EXCEPT ![p] = [Idle EXCEPT !.pc = "more"]]
      PROVE  ImportInv'
  <2>0. f \in Files
    BY <1>1, <1>3 DEF First, Jobs
  <2>1. lock[f] = Free /\ draft[f] = rows[f] /\ \A e \in Files : lock[e] # p
    <3>1. lock[f] \in {Free, p}
      BY <1>0, <1>3, RowsGot DEF Wanted
    <3> QED BY <1>0, <2>0, <3>1 DEF ImportInv, IdleHoldsNothing, DraftsGrow
  <2>2. /\ draft'[f] = [rows[f] EXCEPT !.status = status, !.attempts = @ + 1]
        /\ \A e \in Files \ {f} : draft'[e] = draft[e]
    BY <1>0, <1>3, <2>0, <2>1 DEF Shapes
  <2>3. /\ draft'[f] \in Rows /\ Consistent(draft'[f]) /\ Grows(rows[f], draft'[f])
        /\ Done(rows[f])
    BY <1>0, <1>3, <2>0, <2>2, ProcessedGrows DEF ImportInv, Shapes, DraftsGrow
  <2>4. draft' \in [Files -> Rows]
    <3>1. draft' = [e \in Files |-> draft'[e]]
      BY <1>0, <1>3 DEF Shapes
    <3> QED BY <1>0, <2>2, <2>3, <3>1 DEF Shapes
  <2>5. /\ \A e \in Files : lock'[e] = IF e = f THEN p ELSE lock[e]
        /\ lock' \in [Files -> Runs \cup {Free}]
    BY <1>0, <1>3 DEF LockRows, Shapes
  <2>6. run' \in [Runs -> Jobs] /\ run'[p].pc = "more" /\ \A s \in Runs \ {p} : run'[s] = run[s]
    BY <1>0, <1>3 DEF Shapes, Jobs, Steps, Idle
  <2>7. Shapes'
    BY <1>0, <2>4, <2>5, <2>6 DEF Shapes
  <2>8. IdleHoldsNothing'
    BY <2>5, <2>6 DEF ImportInv, IdleHoldsNothing
  <2>9. DraftsGrow'
    BY <1>0, <2>1, <2>2, <2>3, <2>5, FreeIsNoRun DEF ImportInv, DraftsGrow
  <2>10. AppearedBefore'
    BY <1>0, <2>0, <2>2, <2>3 DEF ImportInv, AppearedBefore
  <2>11. RowsInOrder'
    BY <1>0 DEF ImportInv, RowsInOrder
  <2>12. DraftsInOrder'
    <3> SUFFICES ASSUME NEW s \in Runs, NEW e \in Files, NEW g \in Files,
                        e < g, lock'[g] = s, Done(draft'[g]), e \in server
                 PROVE  Done(IF lock'[e] = s THEN draft'[e] ELSE rows[e])
      BY <1>0 DEF DraftsInOrder, View
    <3>1. CASE g = f
      <4>1. s = p /\ e # f
        BY <2>5, <3>1 DEF Files
      <4>2. Done(rows[e])
        BY <2>0, <2>3, <3>1 DEF ImportInv, RowsInOrder
      <4> QED BY <2>1, <2>5, <4>1, <4>2
    <3>2. CASE g # f
      <4>1. lock[g] = s /\ s # p /\ Done(draft[g])
        BY <2>1, <2>2, <2>5, <3>2
      <4>2. Done(View(s, e))
        BY <4>1 DEF ImportInv, DraftsInOrder
      <4> QED BY <2>1, <2>2, <2>5, <4>1, <4>2, FreeIsNoRun DEF View
    <3> QED BY <3>1, <3>2
  <2>13. ListsComplete'
    BY <1>0, <2>6, ListsStay DEF ImportInv
  <2> QED BY <2>7, <2>8, <2>9, <2>10, <2>11, <2>12, <2>13, Combined DEF DataInv
<1>4. First(run[p].seen) \subseteq Files
  BY <1>1 DEF First, Jobs
<1> QED BY <1>2, <1>3, <1>4 DEF ProcessZipFileFromS3

LEMMA ReleaseLockKeepsInv ==
  ASSUME ImportInv, NEW p \in Processors, ReleaseLock(p)
  PROVE  ImportInv'
<1>0. /\ p \in Runs /\ Shapes /\ mutex' \in Processors \cup {Free, Orphan}
      /\ UNCHANGED <<server, posted, rows, draft, lock, queue, failures>>
  BY DEF Runs, ImportInv, ReleaseLock, Shapes
<1>1. /\ run' \in [Runs -> Jobs] /\ run'[p].pc = "commit"
      /\ \A s \in Runs \ {p} : run'[s] = run[s]
  BY <1>0 DEF Shapes, Jobs, Steps, ReleaseLock, Goto
<1>2. Shapes'
  BY <1>0, <1>1 DEF Shapes
<1>3. IdleHoldsNothing'
  BY <1>0, <1>1 DEF ImportInv, IdleHoldsNothing
<1>4. DataInv'
  BY <1>0, DataStays
<1>5. ListsComplete'
  BY <1>0, <1>1, ListsStay DEF ImportInv
<1> QED BY <1>2, <1>3, <1>4, <1>5, Combined

-----------------------------------------------------------------------------
(* The end of a job. *)

\* A commit makes of a row what its owner made of it, and only that.
LEMMA CommitKeepsInv ==
  ASSUME ImportInv, NEW r \in Runs, Commit(r)
  PROVE  ImportInv' /\ \A f \in Files : Grows(rows[f], rows'[f])
<1>0. /\ Shapes /\ UNCHANGED <<server, posted, draft, mutex, queue, failures>>
      /\ run' = [run EXCEPT ![r] = Idle]
  BY DEF ImportInv, Commit
<1>1. /\ rows' \in [Files -> Rows]
      /\ \A f \in Files : rows'[f] = IF lock[f] = r THEN draft[f] ELSE rows[f]
  BY <1>0 DEF Commit, View, Shapes
<1>2. /\ lock' \in [Files -> Runs \cup {Free}]
      /\ \A f \in Files : lock'[f] = IF lock[f] = r THEN Free ELSE lock[f]
  BY <1>0 DEF Commit, Shapes
<1>3. \A f \in Files : /\ Consistent(rows'[f]) /\ Grows(rows[f], rows'[f])
                       /\ Grows(rows'[f], draft[f])
  BY <1>0, <1>1, GrowsSelf DEF ImportInv, DraftsGrow, Shapes
<1>4. Idle \in Jobs /\ Idle.pc = "idle"
  BY DEF Idle, Jobs, Steps
<1>5. run' \in [Runs -> Jobs] /\ run'[r].pc = "idle" /\ \A s \in Runs \ {r} : run'[s] = run[s]
  BY <1>0, <1>4, OneRun
<1>6. Shapes'
  BY <1>0, <1>1, <1>2, <1>5 DEF Shapes
<1>7. IdleHoldsNothing'
  BY <1>2, <1>5, FreeIsNoRun DEF ImportInv, IdleHoldsNothing
<1>8. DraftsGrow'
  BY <1>0, <1>1, <1>2, <1>3 DEF ImportInv, DraftsGrow
<1>9. AppearedBefore'
  BY <1>0, <1>1 DEF ImportInv, AppearedBefore
<1>10. RowsInOrder'
  <2> SUFFICES ASSUME NEW f \in Files, NEW g \in Files, f < g, Done(rows'[g]), f \in server
               PROVE  Done(rows'[f])
    BY <1>0 DEF RowsInOrder
  <2>1. CASE lock[g] = r
    <3>1. Done(View(r, f))
      BY <1>1, <2>1 DEF ImportInv, DraftsInOrder
    <3> QED BY <1>1, <3>1 DEF View
  <2>2. CASE lock[g] # r
    <3>1. Done(rows[f])
      BY <1>1, <2>2 DEF ImportInv, RowsInOrder
    <3> QED BY <1>3, <3>1 DEF Grows
  <2> QED BY <2>1, <2>2
<1>11. DraftsInOrder'
  <2> SUFFICES ASSUME NEW s \in Runs, NEW f \in Files, NEW g \in Files,
                      f < g, lock'[g] = s, Done(draft[g]), f \in server
               PROVE  Done(IF lock'[f] = s THEN draft[f] ELSE rows'[f])
    BY <1>0 DEF DraftsInOrder, View
  <2>1. lock[g] = s /\ s # r
    BY <1>2, FreeIsNoRun
  <2>2. Done(View(s, f))
    BY <2>1 DEF ImportInv, DraftsInOrder
  <2> QED BY <1>2, <1>3, <2>1, <2>2 DEF View, Grows
<1>12. ListsComplete'
  BY <1>0, <1>3, <1>5, ListsStay DEF ImportInv, Grows
<1> QED BY <1>3, <1>6, <1>7, <1>8, <1>9, <1>10, <1>11, <1>12, Combined DEF DataInv

\* A job that fails leaves the rows as they were before.
LEMMA RollbackKeepsInv ==
  ASSUME ImportInv, NEW r \in Runs, Rollback(r),
         mutex' \in Processors \cup {Free, Orphan}, failures' \in 0 .. MaxFailures
  PROVE  ImportInv'
<1>0. /\ Shapes /\ UNCHANGED <<server, posted, rows>> /\ run' = [run EXCEPT ![r] = Idle]
      /\ queue' \subseteq {IMPORT_DOWNLOAD, IMPORT_PROCESS}
  BY DEF ImportInv, Rollback, Shapes
<1>1. /\ draft' \in [Files -> Rows]
      /\ \A f \in Files : draft'[f] = IF lock[f] = r THEN rows[f] ELSE draft[f]
  BY <1>0 DEF Rollback, Shapes
<1>2. /\ lock' \in [Files -> Runs \cup {Free}]
      /\ \A f \in Files : lock'[f] = IF lock[f] = r THEN Free ELSE lock[f]
  BY <1>0 DEF Rollback, Shapes
<1>3. Idle \in Jobs /\ Idle.pc = "idle"
  BY DEF Idle, Jobs, Steps
<1>4. run' \in [Runs -> Jobs] /\ run'[r].pc = "idle" /\ \A s \in Runs \ {r} : run'[s] = run[s]
  BY <1>0, <1>3, OneRun
<1>5. Shapes'
  BY <1>0, <1>1, <1>2, <1>4 DEF Shapes
<1>6. IdleHoldsNothing'
  BY <1>2, <1>4, FreeIsNoRun DEF ImportInv, IdleHoldsNothing
<1>7. DraftsGrow'
  BY <1>0, <1>1, <1>2, GrowsSelf DEF ImportInv, DraftsGrow, Shapes
<1>8. AppearedBefore'
  BY <1>0, <1>1 DEF ImportInv, AppearedBefore
<1>9. RowsInOrder'
  BY <1>0 DEF ImportInv, RowsInOrder
<1>10. DraftsInOrder'
  BY <1>0, <1>1, <1>2, FreeIsNoRun DEF ImportInv, DraftsInOrder, View
<1>11. ListsComplete'
  BY <1>0, <1>4, ListsStay DEF ImportInv
<1> QED BY <1>5, <1>6, <1>7, <1>8, <1>9, <1>10, <1>11, Combined DEF DataInv

-----------------------------------------------------------------------------
(* The world. *)

\* A new file is newer than every one whose download is over or that is listed.
LEMMA PostFileKeepsInv ==
  ASSUME ImportInv, PostFile
  PROVE  ImportInv'
<1>0. /\ Shapes /\ posted \in 0 .. NumFiles /\ posted < NumFiles /\ posted' = posted + 1
      /\ server' = server \cup {posted + 1}
      /\ UNCHANGED <<rows, draft, lock, mutex, queue, run, failures>>
  BY DEF ImportInv, PostFile, Shapes
<1>1. posted \in Nat /\ NumFiles \in Nat /\ Files \subseteq Nat /\ posted + 1 \in Files
  BY <1>0, ImportAssumption DEF Files
<1>2. server \subseteq 1 .. posted
  BY DEF ImportInv, AppearedBefore
<1>3. Shapes'
  BY <1>0, <1>1 DEF Shapes, Files
<1>4. IdleHoldsNothing' /\ DraftsGrow'
  BY <1>0 DEF ImportInv, IdleHoldsNothing, DraftsGrow
<1>5. AppearedBefore'
  BY <1>0, <1>1, <1>2 DEF ImportInv, AppearedBefore
<1>6. \A f, g \in Files : f < g /\ f \in server' /\ (Done(rows[g]) \/ Done(draft[g])) => f \in server
  BY <1>0, <1>1 DEF ImportInv, AppearedBefore
<1>7. RowsInOrder'
  BY <1>0, <1>6 DEF ImportInv, RowsInOrder
<1>8. DraftsInOrder'
  BY <1>0, <1>6 DEF ImportInv, DraftsInOrder, View
<1>9. ListsComplete'
  <2> SUFFICES ASSUME NEW d \in Runs
               PROVE  /\ run[d].pc = "list" =>
                           \A f \in Files \ run[d].list :
                             f <= posted + 1 /\ (f \in server' => Done(rows[f]))
                      /\ run[d].pc = "record" =>
                           /\ run[d].list \subseteq 1 .. posted + 1
                           /\ \A g \in run[d].list, f \in Files \ run[d].list :
                                f < g /\ f \in server' => Done(rows[f])
    BY <1>0 DEF ListsComplete
  <2>1. CASE run[d].pc = "list"
    BY <1>0, <1>1, <2>1 DEF ImportInv, ListsComplete
  <2>2. CASE run[d].pc = "record"
    <3>1. run[d].list \subseteq 1 .. posted
      BY <2>2 DEF ImportInv, ListsComplete
    <3>2. \A g \in run[d].list, f \in Files : f < g => f # posted + 1
      BY <1>1, <3>1
    <3> QED BY <1>0, <1>1, <2>2, <3>1, <3>2 DEF ImportInv, ListsComplete
  <2> QED BY <2>1, <2>2
<1> QED BY <1>3, <1>4, <1>5, <1>7, <1>8, <1>9, Combined DEF DataInv

\* Steps that change neither rows nor jobs.
LEMMA WorldKeepsInv ==
  ASSUME ImportInv, server' \subseteq server, mutex' \in Processors \cup {Free, Orphan},
         queue' \subseteq {IMPORT_DOWNLOAD, IMPORT_PROCESS},
         UNCHANGED <<posted, rows, draft, lock, run, failures>>
  PROVE  ImportInv'
<1>1. Shapes' /\ IdleHoldsNothing'
  BY DEF ImportInv, Shapes, IdleHoldsNothing
<1>2. DataInv'
  BY DataStays
<1>3. ListsComplete'
  BY ListsStay DEF ImportInv
<1> QED BY <1>1, <1>2, <1>3, Combined

-----------------------------------------------------------------------------
LEMMA ImportInvStep ==
  ASSUME ImportInv, [Next]_vars
  PROVE  ImportInv' /\ \A f \in Files : Grows(rows[f], rows'[f])
<1>0. /\ server \subseteq Files /\ mutex \in Processors \cup {Free, Orphan}
      /\ queue \subseteq {IMPORT_DOWNLOAD, IMPORT_PROCESS} /\ failures \in 0 .. MaxFailures
      /\ \A f \in Files : rows[f] \in Rows
      /\ Downloaders \subseteq Runs /\ Processors \subseteq Runs
  BY DEF ImportInv, Shapes, Runs
<1>1. rows' = rows => \A f \in Files : Grows(rows[f], rows'[f])
  BY <1>0, GrowsSelf
<1>2. ASSUME NEW d \in Downloaders, Download(d) PROVE ImportInv' /\ rows' = rows
  <2>1. StartDownload(d) => ImportInv' /\ rows' = rows
    BY StartDownloadKeepsInv DEF StartDownload
  <2>2. GetPriorFile(d) => ImportInv' /\ rows' = rows
    BY GetPriorFileKeepsInv DEF GetPriorFile
  <2>3. ListFiles(d) => ImportInv' /\ rows' = rows
    BY ListFilesKeepsInv DEF ListFiles
  <2>4. CollectFilesFromSource(d) => ImportInv' /\ rows' = rows
    BY CollectKeepsInv DEF CollectFilesFromSource
  <2>5. DuplicateFile(d) => ImportInv' /\ rows' = rows
    BY <1>0, RollbackKeepsInv DEF DuplicateFile, Rollback
  <2>6. QueueMoreDownloads(d) => ImportInv' /\ rows' = rows
    BY <1>0, QueueingKeepsInv DEF QueueMoreDownloads
  <2> QED BY <1>2, <2>1, <2>2, <2>3, <2>4, <2>5, <2>6 DEF Download
<1>3. ASSUME NEW d \in Downloaders, SftpFails(d) PROVE ImportInv' /\ rows' = rows
  BY <1>3, SftpFailsKeepsInv DEF SftpFails
<1>4. ASSUME NEW p \in Processors, Process(p) PROVE ImportInv' /\ rows' = rows
  <2>1. StartProcess(p) => ImportInv' /\ rows' = rows
    BY StartProcessKeepsInv DEF StartProcess
  <2>2. SkipProcess(p) => ImportInv' /\ rows' = rows
    BY <1>0, WorldKeepsInv DEF SkipProcess
  <2>3. ProcessZipFileFromS3(p) => ImportInv' /\ rows' = rows
    BY ProcessKeepsInv DEF ProcessZipFileFromS3
  <2>4. QueueMoreProcessing(p) => ImportInv' /\ rows' = rows
    BY <1>0, QueueingKeepsInv DEF QueueMoreProcessing
  <2>5. ReleaseLock(p) => ImportInv' /\ rows' = rows
    BY ReleaseLockKeepsInv DEF ReleaseLock
  <2> QED BY <1>4, <2>1, <2>2, <2>3, <2>4, <2>5 DEF Process
<1>5. ASSUME NEW r \in Runs, AbortDeadlocked(r) PROVE ImportInv' /\ rows' = rows
  BY <1>0, <1>5, RollbackKeepsInv DEF AbortDeadlocked, Rollback
<1>6. ASSUME NEW r \in Runs, Crash(r) PROVE ImportInv' /\ rows' = rows
  <2>1. failures' \in 0 .. MaxFailures
    BY <1>0, <1>6, ImportAssumption DEF Crash
  <2>2. Rollback(r) /\ mutex' \in Processors \cup {Free, Orphan}
    BY <1>0, <1>6 DEF Crash
  <2> QED BY <2>1, <2>2, RollbackKeepsInv DEF Rollback
<1>7. LeaseExpires => ImportInv' /\ rows' = rows
  BY <1>0, WorldKeepsInv DEF LeaseExpires
<1>8. PostFile => ImportInv' /\ rows' = rows
  BY PostFileKeepsInv DEF PostFile
<1>9. ASSUME NEW f \in Removable, RemoveFile(f) PROVE ImportInv' /\ rows' = rows
  BY <1>0, <1>9, WorldKeepsInv DEF RemoveFile
<1>10. ASSUME NEW kind \in {IMPORT_DOWNLOAD, IMPORT_PROCESS}, EnqueueImportMaintenanceJob(kind)
       PROVE  ImportInv' /\ rows' = rows
  BY <1>0, <1>10, WorldKeepsInv DEF EnqueueImportMaintenanceJob
<1>11. UNCHANGED vars => ImportInv' /\ rows' = rows
  BY <1>0, WorldKeepsInv DEF vars
<1> QED
  BY <1>1, <1>2, <1>3, <1>4, <1>5, <1>6, <1>7, <1>8, <1>9, <1>10, <1>11, CommitKeepsInv DEF Next

LEMMA ImportInvAlways == Spec => []ImportInv
<1>1. ImportInv /\ [Next]_vars => ImportInv'
  BY ImportInvStep
<1> QED BY ImportInvInit, <1>1, PTL DEF Spec

\* The types, and that nobody but the owner of a row's lock has changed it.
THEOREM TypeCorrect == Spec => []TypeOK
BY ImportInvAlways, ImportInvType, PTL

\* No file is overtaken, whatever number of downloads run at once, with lists
\* and prior files that are no longer current, and whichever of them fail.
THEOREM NoFileEverOvertaken == Spec => []NoFileOvertaken
<1>1. ImportInv => NoFileOvertaken
  BY DEF ImportInv, RowsInOrder, NoFileOvertaken, Done
<1> QED BY ImportInvAlways, <1>1, PTL

\* A file that was given up is given up for good.
THEOREM GivenUpStaysSo == Spec => GivenUpForGood
<1>1. ImportInv /\ [Next]_vars
        => [\A f \in Files : GivenUp(rows[f]) => GivenUp(rows'[f])]_rows
  BY ImportInvStep DEF Grows
<1> QED BY ImportInvAlways, <1>1, PTL DEF Spec, GivenUpForGood

\* No attempt at a file is forgotten.
THEOREM AttemptsNeverLost == Spec => AttemptsNotLost
<1>1. ImportInv /\ [Next]_vars
        => [\A f \in Files : /\ rows'[f].downloads >= rows[f].downloads
                             /\ rows'[f].attempts >= rows[f].attempts]_rows
  BY ImportInvStep DEF Grows
<1> QED BY ImportInvAlways, <1>1, PTL DEF Spec, AttemptsNotLost
=============================================================================
