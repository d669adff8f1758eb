---------------------------- MODULE ImportFiles ----------------------------
(***************************************************************************)
(* The monitoring import: files that appear on an SFTP server are          *)
(* downloaded (collected) by one kind of job and processed by another.     *)
(*                                                                         *)
(* Every job is one database transaction (transactionQueueWrapper), READ   *)
(* COMMITTED, in which "lock: true" is SELECT ... FOR UPDATE: a query      *)
(* takes the rows its snapshot shows, waits for those that others hold,    *)
(* and looks again at each row once it has it.  What a job puts in the     *)
(* queue (Redis) is seen before the job commits.                           *)
(*                                                                         *)
(* Abstractions.  A file is its position in the order of names, and files  *)
(* appear in that order.  Waiting jobs of one kind count as one job.  A    *)
(* query that waits gets all its rows at once.  The mutex of processing is *)
(* a LockManager's; its lease is lost only with its owner.                 *)
(***************************************************************************)
EXTENDS Integers, FiniteSets, FiniteSetsExt

CONSTANTS
  NumFiles,     \* files that will ever appear on the server
  Downloaders,  \* slots for download jobs that run at the same time
  Processors,   \* slots for processing jobs that run at the same time
  Removable,    \* files the server may stop to show
  MaxAttempts,  \* 5 in the code, for downloads and for processing
  MaxFailures,  \* crashes and SFTP errors a behaviour may contain
  Free,         \* no owner
  Orphan        \* the owner of the mutex crashed, its lease still runs

ASSUME ImportAssumption ==
  /\ NumFiles \in Nat \ {0} /\ MaxAttempts \in Nat \ {0} /\ MaxFailures \in Nat
  /\ Removable \subseteq 1 .. NumFiles
  /\ Downloaders \cap Processors = {}
  /\ Free # Orphan /\ {Free, Orphan} \cap (Downloaders \cup Processors) = {}

Files == 1 .. NumFiles
Runs  == Downloaders \cup Processors

NONE              == "none"
IDENTIFIED        == "IDENTIFIED"
COLLECTED         == "COLLECTED"
COLLECTION_FAILED == "COLLECTION_FAILED"
PROCESSED         == "PROCESSED"
PROCESSING_FAILED == "PROCESSING_FAILED"

IMPORT_DOWNLOAD == "IMPORT_DOWNLOAD"
IMPORT_PROCESS  == "IMPORT_PROCESS"

VARIABLES
  server,    \* the files the SFTP server shows
  posted,    \* how many have appeared
  rows,      \* ImportFiles, as committed
  draft,     \* what the owner of a row's lock has made of it
  lock,      \* the run that holds a row's lock
  mutex,     \* the owner of the lock IMPORT_PROCESS-id in Redis
  queue,     \* the kinds of job that wait
  run,       \* where each run is, and what its last query showed
  failures

vars == <<server, posted, rows, draft, lock, mutex, queue, run, failures>>

NoRow  == [status |-> NONE, downloads |-> 0, attempts |-> 0, hash |-> FALSE]
NewRow == [NoRow EXCEPT !.status = IDENTIFIED]
Idle   == [pc |-> "idle", seen |-> {}, list |-> {}]

Init ==
  /\ server = {} /\ posted = 0
  /\ rows = [f \in Files |-> NoRow] /\ draft = rows
  /\ lock = [f \in Files |-> Free]
  /\ mutex = Free /\ queue = {} /\ failures = 0
  /\ run = [r \in Runs |-> Idle]

----------------------------------------------------------------------------
(* What the queries select. *)

GivenUp(row) == row.status = COLLECTION_FAILED /\ row.downloads > MaxAttempts

\* Mutant: every failed download counts as given up.
IsPriorOrFailed(row) == row.status \in {COLLECTED, PROCESSED, COLLECTION_FAILED}

\* getPriorFile: a file after which the server's listing starts.
IsPrior(row) == row.status \in {COLLECTED, PROCESSED} \/ GivenUp(row)

\* importHasMoreToDownload, importHasMoreToProcess.
ToDownload(row) ==
  row.status \in {IDENTIFIED, COLLECTION_FAILED} /\ row.downloads < MaxAttempts
ToProcess(row) ==
  row.status \in {COLLECTED, PROCESSING_FAILED} /\ row.attempts < MaxAttempts

\* getNextFileToProcess.
IsNext(row) ==
  \/ row.status = COLLECTED
  \/ row.status = PROCESSING_FAILED /\ row.attempts < MaxAttempts

Recorded(row) == row.status # NONE

\* A row as run r sees it: its own changes, else what is committed.
View(r, f) == IF lock[f] = r THEN draft[f] ELSE rows[f]

\* ORDER BY name DESC, or createdAt, and LIMIT 1: one file, unless there is none.
Last(files)  == {f \in files : \A g \in files : g <= f}
First(files) == {f \in files : \A g \in files : f <= g}

\* The rows the statement that r is at wants to lock.
Wanted(r) ==
  CASE run[r].pc = "prior"  -> Last(run[r].seen)
    [] run[r].pc = "next"   -> First(run[r].seen)
    [] run[r].pc = "record" -> run[r].seen \cup run[r].list
    [] run[r].pc = "more"   ->
         {f \in Files : \/ ToProcess(View(r, f))
                        \/ r \in Downloaders /\ ToDownload(View(r, f))}
    [] OTHER -> {}

WaitsFor(r, s) == r # s /\ \E f \in Wanted(r) : lock[f] = s
GetsRows(r) == \A s \in Runs : ~WaitsFor(r, s)
LockRows(r, fs) == lock' = [f \in Files |-> IF f \in fs THEN r ELSE lock[f]]
Goto(r, pc) == run' = [run EXCEPT ![r].pc = pc]

----------------------------------------------------------------------------
(* The download job. *)

StartDownload(d) ==
  /\ run[d].pc = "idle" /\ IMPORT_DOWNLOAD \in queue
  /\ queue' = queue \ {IMPORT_DOWNLOAD}
  /\ run' = [run EXCEPT ![d] =
       [Idle EXCEPT !.pc = "prior", !.seen = {f \in Files : IsPrior(rows[f])}]]
  /\ UNCHANGED <<server, posted, rows, draft, lock, mutex, failures>>

\* ORDER BY name DESC LIMIT 1 FOR UPDATE: a row that no longer qualifies when
\* its lock is got is passed over for the next one the snapshot showed.
GetPriorFile(d) ==
  /\ run[d].pc = "prior" /\ GetsRows(d)
  /\ \/ /\ run[d].seen = {}
        /\ run' = [run EXCEPT ![d].pc = "list", ![d].list = Files]
        /\ UNCHANGED lock
     \/ \E f \in Last(run[d].seen) :
          IF IsPrior(rows[f])
          THEN /\ run' = [run EXCEPT ![d].pc = "list", ![d].list = {g \in Files : g > f}]
               /\ LockRows(d, {f})
          ELSE /\ run' = [run EXCEPT ![d].seen = @ \ {f}]
               /\ UNCHANGED lock
  /\ UNCHANGED <<server, posted, rows, draft, mutex, queue, failures>>

\* listFiles: what the server shows after the prior file.
ListFiles(d) ==
  /\ run[d].pc = "list"
  /\ run' = [run EXCEPT ![d].pc = "record", ![d].list = @ \cap server,
                        ![d].seen = {f \in Files : Recorded(rows[f])}]
  /\ UNCHANGED <<server, posted, rows, draft, lock, mutex, queue, failures>>

\* An SFTP error, before the listing or on disconnecting, is caught: the job
\* commits what it has done, and nothing more is queued.
SftpFails(d) ==
  /\ run[d].pc \in {"list", "more"} /\ failures < MaxFailures
  /\ failures' = failures + 1
  /\ Goto(d, "commit")
  /\ UNCHANGED <<server, posted, rows, draft, lock, mutex, queue>>

\* The listed files that the job's snapshot did not show, but are there now.
RecordedByOthers(d) == {f \in run[d].list \ run[d].seen : Recorded(View(d, f))}

\* Mutant: whatever is not listed any more is forgotten.
ForgetUnlistedFiles(d) == [f \in Files |->
  CASE f \in run[d].list /\ ~Recorded(View(d, f)) -> NewRow
    [] f \in run[d].seen \ run[d].list -> NoRow
    [] OTHER -> draft[f]]

\* recordAvailableFiles: rows for new files; identified files that are not
\* listed any more lose theirs.
RecordAvailableFiles(d) == [f \in Files |->
  CASE f \in run[d].list /\ ~Recorded(View(d, f)) -> NewRow
    [] f \in run[d].seen \ run[d].list /\ View(d, f).status = IDENTIFIED -> NoRow
    [] OTHER -> draft[f]]

\* What attempts make of a row: each is counted (logFileToBeCollected), the
\* last one stores its outcome (setImportFileHash, setImportFileStatus).
AfterAttempt(row, status, n) ==
  [status |-> status, downloads |-> n, attempts |-> row.attempts,
   hash |-> row.hash \/ status = COLLECTED]

Tried(row) ==
  {AfterAttempt(row, status, n) :
     status \in {COLLECTED, COLLECTION_FAILED},
     n \in row.downloads + 1 .. Max({MaxAttempts, row.downloads}) + 1}

\* Mutant: the number of attempts is not looked at.
CollectRegardless(row) == {row} \cup Tried(row)

\* collectNextFile for one file: not reached, or tried until it is uploaded,
\* given up, or out of time; the attempt that gives it up uploads nothing.
Collect(row) ==
  {row} \cup {new \in Tried(row) : new.status = COLLECTED => new.downloads <= MaxAttempts}

\* Mutant: a file that could not be collected is left for another time.
InAnyOrder(old, new, list) == list # {} => \E f \in list : new[f] # old[f]

\* The files are taken in the order of their names, at least the first is
\* tried, and one is left only when it is collected or given up.
InOrder(old, new, list) ==
  \A f \in list : \/ f # Min(list) /\ new[f] = old[f]
                  \/ /\ new[f] # old[f]
                     /\ \A e \in list : e < f => new[e] # old[e]
                          /\ (new[e].status = COLLECTED \/ GivenUp(new[e]))

\* recordAvailableFiles and collectNextFile, to the last file or the end of
\* the time box: all rows are locked, so that nobody sees what comes between.
CollectFilesFromSource(d) ==
  /\ run[d].pc = "record" /\ GetsRows(d) /\ RecordedByOthers(d) = {}
  /\ LockRows(d, Wanted(d))
  /\ LET list == run[d].list
         old  == RecordAvailableFiles(d)
     IN \E new \in {n \in [list -> UNION {Collect(old[f]) : f \in list}] :
                      /\ \A f \in list : n[f] \in Collect(old[f])
                      /\ InOrder(old, n, list)} :
          draft' = [f \in Files |-> IF f \in list THEN new[f] ELSE old[f]]
  /\ run' = [run EXCEPT ![d] = [Idle EXCEPT !.pc = "more"]]
  /\ UNCHANGED <<server, posted, rows, mutex, queue, failures>>

\* Mutant: processing is queued only for what this job collected.
QueueProcessingOfCollected(d) ==
  /\ run[d].pc = "more" /\ GetsRows(d)
  /\ LockRows(d, Wanted(d))
  /\ queue' = queue
       \cup {k \in {IMPORT_DOWNLOAD} : \E f \in Files : ToDownload(View(d, f))}
       \cup {k \in {IMPORT_PROCESS} :
               \E f \in Files : ToProcess(View(d, f)) /\ draft[f] # rows[f]}
  /\ Goto(d, "commit")
  /\ UNCHANGED <<server, posted, rows, draft, mutex, failures>>

\* importDownload, after the download: the jobs it queues before it commits.
QueueMoreDownloads(d) ==
  /\ run[d].pc = "more" /\ GetsRows(d)
  /\ LockRows(d, Wanted(d))
  /\ queue' = queue
       \cup {k \in {IMPORT_DOWNLOAD} : \E f \in Files : ToDownload(View(d, f))}
       \cup {k \in {IMPORT_PROCESS} : \E f \in Files : ToProcess(View(d, f))}
  /\ Goto(d, "commit")
  /\ UNCHANGED <<server, posted, rows, draft, mutex, failures>>

----------------------------------------------------------------------------
(* The processing job. *)

StartProcess(p) ==
  /\ run[p].pc = "idle" /\ IMPORT_PROCESS \in queue /\ mutex = Free
  /\ queue' = queue \ {IMPORT_PROCESS}
  /\ mutex' = p
  /\ run' = [run EXCEPT ![p] =
       [Idle EXCEPT !.pc = "next", !.seen = {f \in Files : IsNext(rows[f])}]]
  /\ UNCHANGED <<server, posted, rows, draft, lock, failures>>

\* executeWithLock does nothing while the lock is another's; the job is done.
SkipProcess(p) ==
  /\ run[p].pc = "idle" /\ IMPORT_PROCESS \in queue /\ mutex # Free
  /\ queue' = queue \ {IMPORT_PROCESS}
  /\ UNCHANGED <<server, posted, rows, draft, lock, mutex, run, failures>>

\* getNextFileToProcess and processZipFileFromS3: the oldest file, looked at
\* again once its row is locked, is processed or not; the attempt counts.
ProcessZipFileFromS3(p) ==
  /\ run[p].pc = "next" /\ GetsRows(p)
  /\ \/ /\ run[p].seen = {}
        /\ Goto(p, "more")
        /\ UNCHANGED <<lock, draft>>
     \/ \E f \in First(run[p].seen), status \in {PROCESSED, PROCESSING_FAILED} :
          IF IsNext(rows[f])
          THEN /\ LockRows(p, {f})
               /\ draft' = [draft EXCEPT ![f].status = status, ![f].attempts = @ + 1]
               /\ run' = [run EXCEPT ![p] = [Idle EXCEPT !.pc = "more"]]
          ELSE /\ run' = [run EXCEPT ![p].seen = @ \ {f}]
               /\ UNCHANGED <<lock, draft>>
  /\ UNCHANGED <<server, posted, rows, mutex, queue, failures>>

\* importProcess: the next job is queued while this one still has the mutex.
QueueMoreProcessing(p) ==
  /\ run[p].pc = "more" /\ GetsRows(p)
  /\ LockRows(p, Wanted(p))
  /\ queue' = queue \cup {k \in {IMPORT_PROCESS} : \E f \in Files : ToProcess(View(p, f))}
  /\ Goto(p, "release")
  /\ UNCHANGED <<server, posted, rows, draft, mutex, failures>>

\* The end of executeWithLock: the mutex is given back before the commit.
ReleaseLock(p) ==
  /\ run[p].pc = "release"
  /\ mutex' = IF mutex = p THEN Free ELSE mutex
  /\ Goto(p, "commit")
  /\ UNCHANGED <<server, posted, rows, draft, lock, queue, failures>>

----------------------------------------------------------------------------
(* The end of a job. *)

Commit(r) ==
  /\ run[r].pc = "commit"
  /\ rows' = [f \in Files |-> View(r, f)]
  /\ lock' = [f \in Files |-> IF lock[f] = r THEN Free ELSE lock[f]]
  /\ run' = [run EXCEPT ![r] = Idle]
  /\ UNCHANGED <<server, posted, draft, mutex, queue, failures>>

\* Mutant: what the job has done to its rows stays.
RollbackNothing(r) ==
  /\ lock' = [f \in Files |-> IF lock[f] = r THEN Free ELSE lock[f]]
  /\ run' = [run EXCEPT ![r] = Idle]
  /\ queue' = queue
  /\ UNCHANGED <<server, posted, rows, draft>>

\* A failed job leaves nothing in the database; the queue tries it again
\* while it has attempts left.
Rollback(r) ==
  /\ draft' = [f \in Files |-> IF lock[f] = r THEN rows[f] ELSE draft[f]]
  /\ lock' = [f \in Files |-> IF lock[f] = r THEN Free ELSE lock[f]]
  /\ run' = [run EXCEPT ![r] = Idle]
  /\ queue' \in {queue, queue \cup {IF r \in Downloaders THEN IMPORT_DOWNLOAD
                                                         ELSE IMPORT_PROCESS}}
  /\ UNCHANGED <<server, posted, rows>>

\* The unique index on the file's name refuses a second row.
DuplicateFile(d) ==
  /\ run[d].pc = "record" /\ GetsRows(d) /\ RecordedByOthers(d) # {}
  /\ Rollback(d)
  /\ UNCHANGED <<mutex, failures>>

\* PostgreSQL ends one of two transactions that wait for each other; the
\* mutex is given back as the error passes executeWithLock.
AbortDeadlocked(r) ==
  /\ \E s \in Runs : WaitsFor(r, s) /\ WaitsFor(s, r)
  /\ Rollback(r)
  /\ mutex' = IF mutex = r THEN Free ELSE mutex
  /\ UNCHANGED failures

\* The worker stops: its mutex stays until the lease runs out.
Crash(r) ==
  /\ run[r].pc # "idle" /\ failures < MaxFailures
  /\ failures' = failures + 1
  /\ Rollback(r)
  /\ mutex' = IF mutex = r THEN Orphan ELSE mutex

LeaseExpires ==
  /\ mutex = Orphan /\ mutex' = Free
  /\ UNCHANGED <<server, posted, rows, draft, lock, queue, run, failures>>

----------------------------------------------------------------------------
(* The world: the server's files, the schedule, and jobs queued by hand or *)
(* again because their time-out passed while they still run.               *)

PostFile ==
  /\ posted < NumFiles
  /\ posted' = posted + 1 /\ server' = server \cup {posted'}
  /\ UNCHANGED <<rows, draft, lock, mutex, queue, run, failures>>

RemoveFile(f) ==
  /\ f \in server /\ server' = server \ {f}
  /\ UNCHANGED <<posted, rows, draft, lock, mutex, queue, run, failures>>

EnqueueImportMaintenanceJob(kind) ==
  /\ kind \notin queue /\ queue' = queue \cup {kind}
  /\ UNCHANGED <<server, posted, rows, draft, lock, mutex, run, failures>>

Download(d) ==
  \/ StartDownload(d) \/ GetPriorFile(d) \/ ListFiles(d) \/ CollectFilesFromSource(d)
  \/ DuplicateFile(d) \/ QueueMoreDownloads(d)

Process(p) ==
  \/ StartProcess(p) \/ SkipProcess(p) \/ ProcessZipFileFromS3(p)
  \/ QueueMoreProcessing(p) \/ ReleaseLock(p)

Next ==
  \/ \E d \in Downloaders : Download(d) \/ SftpFails(d)
  \/ \E p \in Processors : Process(p)
  \/ \E r \in Runs : Commit(r) \/ AbortDeadlocked(r) \/ Crash(r)
  \/ LeaseExpires \/ PostFile
  \/ \E f \in Removable : RemoveFile(f)
  \/ \E kind \in {IMPORT_DOWNLOAD, IMPORT_PROCESS} : EnqueueImportMaintenanceJob(kind)

\* The schedule goes on queueing downloads, leases run out and every job goes
\* on.  A statement that waits for a row gets it in the end: PostgreSQL grants
\* a lock in the order it was asked for.  A deadlock is broken, and not always
\* at the expense of processing.
Fairness ==
  /\ WF_vars(EnqueueImportMaintenanceJob(IMPORT_DOWNLOAD))
  /\ WF_vars(LeaseExpires)
  /\ \A d \in Downloaders :
       /\ WF_vars(Download(d) \/ Commit(d))
       /\ SF_vars(GetPriorFile(d)) /\ SF_vars(CollectFilesFromSource(d))
       /\ SF_vars(QueueMoreDownloads(d)) /\ SF_vars(AbortDeadlocked(d))
  /\ \A p \in Processors :
       /\ WF_vars(Process(p) \/ Commit(p))
       /\ SF_vars(ProcessZipFileFromS3(p)) /\ SF_vars(QueueMoreProcessing(p))

Spec == Init /\ [][Next]_vars /\ Fairness

----------------------------------------------------------------------------
(* Properties. *)

Rows == [status : {NONE, IDENTIFIED, COLLECTED, COLLECTION_FAILED, PROCESSED,
                   PROCESSING_FAILED},
         downloads : Nat, attempts : Nat, hash : BOOLEAN]

\* Types, and what a row's lock is for: only its owner's draft differs from
\* what is committed.
TypeOK ==
  /\ server \subseteq Files /\ posted \in 0 .. NumFiles
  /\ rows \in [Files -> Rows] /\ draft \in [Files -> Rows]
  /\ lock \in [Files -> Runs \cup {Free}]
  /\ mutex \in Processors \cup {Free, Orphan}
  /\ queue \subseteq {IMPORT_DOWNLOAD, IMPORT_PROCESS}
  /\ \A r \in Runs : run[r].seen \subseteq Files /\ run[r].list \subseteq Files
  /\ \A f \in Files : lock[f] = Free => draft[f] = rows[f]
  /\ failures \in 0 .. MaxFailures

\* No file is overtaken: when one has been collected, every older file that
\* the server still shows has been collected or given up.  Two downloads at
\* once, listings that grow stale and failed jobs do not open a gap.
NoFileOvertaken ==
  \A f, g \in Files :
    f < g /\ rows[g].hash /\ f \in server => rows[f].hash \/ GivenUp(rows[f])

\* A file that was given up is never collected after all, by a download with a
\* stale listing either.
GivenUpForGood ==
  [][\A f \in Files : GivenUp(rows[f]) => GivenUp(rows'[f])]_rows

\* Attempts are counted together, whoever makes them: no job overwrites the
\* counters of another with what it read earlier, or forgets a file tried.
AttemptsNotLost ==
  [][\A f \in Files : /\ rows'[f].downloads >= rows[f].downloads
                      /\ rows'[f].attempts >= rows[f].attempts]_rows

\* Every file that appears is collected, given up, or taken off the server.
EveryFileCollected ==
  \A f \in Files :
    f \in server ~> f \notin server \/ rows[f].hash \/ GivenUp(rows[f])

\* A collected file with attempts left is processed, or at least tried,
\* although the job queued for it can start before the download commits, be
\* skipped because the mutex is held, or be lost in a crash.
CollectedIsProcessed ==
  \A f \in Files :
    rows[f].status = COLLECTED /\ rows[f].attempts < MaxAttempts
      ~> rows[f].status # COLLECTED
============================================================================
