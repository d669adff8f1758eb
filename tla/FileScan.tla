------------------------------ MODULE FileScan ------------------------------
(***************************************************************************)
(* An uploaded file: the request that stores it, the job that has it       *)
(* scanned for viruses, the request that deletes it and the job that       *)
(* deletes its object from S3.  Requests and jobs run at the same time,    *)
(* each in one READ COMMITTED transaction that locks the file's row from   *)
(* its first write to its end.  Jobs go to the queues in Redis at once,    *)
(* before the transaction that queued them commits, and stay there if it   *)
(* rolls back.                                                             *)
(*                                                                         *)
(* A file has one link, to what it was uploaded for, which is written and  *)
(* removed together with its row (a file of several objectives: with the   *)
(* last one), so links are left out.                                       *)
(***************************************************************************)
EXTENDS Naturals

CONSTANTS
  Files,        \* the files that are uploaded; each has a key of its own
  Attempts,     \* FILE_SCAN_RETRIES: how often Bull tries a scan
  MaxStalled,   \* how often Bull starts a job again whose worker died
  MaxFaults     \* bound: failures of S3, the scanner, Redis or a process

ASSUME AttemptsAssumption == Attempts \in Nat \ {0} /\ MaxStalled \in Nat /\ MaxFaults \in Nat

\* FILE_STATUSES.
UPLOADING       == "UPLOADING"
UPLOADED        == "UPLOADED"
SCANNING_QUEUED == "SCANNING_QUEUED"
SCANNING        == "SCANNING"
SCANNING_FAILED == "SCANNING_FAILED"
APPROVED        == "APPROVED"
REJECTED        == "REJECTED"
NONE            == "none"      \* no row yet
GONE            == "deleted"   \* the row is destroyed

FileStatuses == {UPLOADING, UPLOADED, SCANNING_QUEUED, SCANNING, SCANNING_FAILED, APPROVED, REJECTED}

\* What a file may be uploaded for, by what its deletion does: with the hook
\* that queues the deletion of the object, with the handler's own call to S3.
Kinds      == {"report", "objective", "session", "log", "attachment"}
Hooked     == {"report", "log", "attachment"}

FileRecords == [kind : Kinds, dirty : BOOLEAN]

Free == "free"
NoJob == [state |-> "none", tries |-> 0, stalled |-> 0]

VARIABLES
  row,      \* the status in the committed row of each file
  version,  \* the status in the newest version of the row
  holder,   \* whose transaction has locked the row
  file,     \* what each file was uploaded for, and does it have a virus?
  object,   \* is the object in S3?
  upload,   \* the request that uploads the file
  job,      \* the file's job in the scan queue
  scan,     \* the worker that runs the job
  delete,   \* the request that deletes the file
  s3jobs,   \* the files with a job in the s3 queue
  faults    \* the failures so far

vars == <<row, version, holder, file, object, upload, job, scan, delete, s3jobs, faults>>

Init ==
  /\ row = [f \in Files |-> NONE]
  /\ version = row
  /\ holder = [f \in Files |-> Free]
  /\ file \in [Files -> FileRecords]
  /\ object = [f \in Files |-> FALSE]
  /\ upload = [f \in Files |-> "idle"]
  /\ job = [f \in Files |-> NoJob]
  /\ scan = [f \in Files |-> "idle"]
  /\ delete = [f \in Files |-> "idle"]
  /\ s3jobs = {}
  /\ faults = 0

-----------------------------------------------------------------------------
Fault == faults < MaxFaults /\ faults' = faults + 1

\* A write of the row, or its first one, which locks it.
Write(f, who, status) ==
  /\ holder[f] \in {Free, who}
  /\ holder' = [holder EXCEPT ![f] = who]
  /\ version' = [version EXCEPT ![f] = status]

\* The end of the transaction.
CommitRow(f, who) ==
  IF holder[f] = who
  THEN /\ row' = [row EXCEPT ![f] = version[f]]
       /\ holder' = [holder EXCEPT ![f] = Free]
       /\ UNCHANGED version
  ELSE UNCHANGED <<row, version, holder>>

\* Mutant: the transaction commits although its job failed.
CommitAnyway(f, who) == CommitRow(f, who)

\* Mutant: the row is unlocked, but what was written stays.
RollbackLock(f, who) ==
  /\ holder' = [holder EXCEPT ![f] = IF @ = who THEN Free ELSE @]
  /\ UNCHANGED <<row, version>>

RollbackRow(f, who) ==
  IF holder[f] = who
  THEN /\ version' = [version EXCEPT ![f] = row[f]]
       /\ holder' = [holder EXCEPT ![f] = Free]
       /\ UNCHANGED row
  ELSE UNCHANGED <<row, version, holder>>

Exists(f) == row[f] \in FileStatuses

-----------------------------------------------------------------------------
\* uploadHandler: the row is created, ...
BeginUpload(f) ==
  /\ upload[f] = "idle"
  /\ Write(f, "upload", UPLOADING)
  /\ upload' = [upload EXCEPT ![f] = "storing"]
  /\ UNCHANGED <<row, file, object, job, scan, delete, s3jobs, faults>>

\* ... the object stored, ...
StoreObject(f) ==
  /\ upload[f] = "storing"
  /\ Write(f, "upload", UPLOADED)
  /\ object' = [object EXCEPT ![f] = TRUE]
  /\ upload' = [upload EXCEPT ![f] = "stored"]
  /\ UNCHANGED <<row, file, job, scan, delete, s3jobs, faults>>

\* ... and the answer sent.  Then the job is queued, without waiting for the
\* queue: when Redis fails, nobody notices.
QueueScan(f) ==
  /\ upload[f] = "stored"
  /\ Write(f, "upload", SCANNING_QUEUED)
  /\ upload' = [upload EXCEPT ![f] = "queued"]
  /\ \/ job' = [job EXCEPT ![f].state = "waiting"] /\ UNCHANGED faults
     \/ Fault /\ UNCHANGED job
  /\ UNCHANGED <<row, file, object, scan, delete, s3jobs>>

CommitUpload(f) ==
  /\ upload[f] = "queued"
  /\ CommitRow(f, "upload")
  /\ upload' = [upload EXCEPT ![f] = "done"]
  /\ UNCHANGED <<file, object, job, scan, delete, s3jobs, faults>>

\* The upload of this or another file of the request fails, which throws the
\* UPLOAD_FAILED just written away, or the process dies.
AbortUpload(f) ==
  /\ upload[f] \in {"storing", "stored", "queued"}
  /\ Fault
  /\ RollbackRow(f, "upload")
  /\ upload' = [upload EXCEPT ![f] = "failed"]
  /\ UNCHANGED <<file, object, job, scan, delete, s3jobs>>

-----------------------------------------------------------------------------
EndJob(f) == job' = [job EXCEPT ![f].state = "ended"]

\* processFile finds the file by its key; a job that does not find it completes.
StartScan(f) ==
  /\ job[f].state = "waiting"
  /\ IF Exists(f)
     THEN job' = [job EXCEPT ![f].state = "active"] /\ scan' = [scan EXCEPT ![f] = "found"]
     ELSE EndJob(f) /\ UNCHANGED scan
  /\ UNCHANGED <<row, version, holder, file, object, upload, delete, s3jobs, faults>>

\* Mutant: a row that is gone is written again.
MarkScanningAgain(f) ==
  /\ scan[f] = "found"
  /\ Write(f, "scan", SCANNING)
  /\ scan' = [scan EXCEPT ![f] = "scanning"]
  /\ UNCHANGED <<row, file, object, upload, job, delete, s3jobs, faults>>

\* The update to SCANNING waits for the row, which may be gone by then.
MarkScanning(f) ==
  /\ scan[f] = "found"
  /\ holder[f] = Free
  /\ IF Exists(f) THEN Write(f, "scan", SCANNING) ELSE UNCHANGED <<version, holder>>
  /\ scan' = [scan EXCEPT ![f] = "scanning"]
  /\ UNCHANGED <<row, file, object, upload, job, delete, s3jobs, faults>>

\* Mutant: tries are not counted.
FailUncounted(f) ==
  /\ job' = [job EXCEPT ![f].state = "waiting"]
  /\ scan' = [scan EXCEPT ![f] = "idle"]

\* Bull tries a failed job again.
Tried(j) == [state   |-> IF j.tries + 1 = Attempts THEN "ended" ELSE "waiting",
             tries   |-> j.tries + 1,
             stalled |-> j.stalled]

FailTry(f) ==
  /\ job' = [job EXCEPT ![f] = Tried(job[f])]
  /\ scan' = [scan EXCEPT ![f] = "idle"]

\* The scanner answers, and the verdict is written.  When the row is gone, the
\* clean file's job completes; the other's throws from within the catch block.
Verdict(f) ==
  /\ scan[f] = "scanning"
  /\ object[f]
  /\ IF holder[f] = "scan"
     THEN /\ Write(f, "scan", IF file[f].dirty THEN REJECTED ELSE APPROVED)
          /\ scan' = [scan EXCEPT ![f] = "judged"]
          /\ UNCHANGED job
     ELSE /\ IF file[f].dirty THEN FailTry(f)
                            ELSE EndJob(f) /\ scan' = [scan EXCEPT ![f] = "idle"]
          /\ UNCHANGED <<version, holder>>
  /\ UNCHANGED <<row, file, object, upload, delete, s3jobs, faults>>

\* The object is missing, or S3 or the scanner fails: SCANNING_FAILED is written,
\* the error thrown again, and the transaction rolled back.
ScanFails(f) ==
  /\ scan[f] = "scanning"
  /\ IF object[f] THEN Fault ELSE UNCHANGED faults
  /\ RollbackRow(f, "scan")
  /\ FailTry(f)
  /\ UNCHANGED <<file, object, upload, delete, s3jobs>>

CommitScan(f) ==
  /\ scan[f] = "judged"
  /\ CommitRow(f, "scan")
  /\ scan' = [scan EXCEPT ![f] = "committed"]
  /\ UNCHANGED <<file, object, upload, job, delete, s3jobs, faults>>

CompleteJob(f) ==
  /\ scan[f] = "committed"
  /\ EndJob(f)
  /\ scan' = [scan EXCEPT ![f] = "idle"]
  /\ UNCHANGED <<row, version, holder, file, object, upload, delete, s3jobs, faults>>

\* The worker dies; Bull starts the stalled job again, but not for ever.
Stalled(j) == [state   |-> IF j.stalled = MaxStalled THEN "ended" ELSE "waiting",
               tries   |-> j.tries,
               stalled |-> j.stalled + 1]

WorkerDies(f) ==
  /\ job[f].state = "active"
  /\ Fault
  /\ RollbackRow(f, "scan")
  /\ job' = [job EXCEPT ![f] = Stalled(job[f])]
  /\ scan' = [scan EXCEPT ![f] = "idle"]
  /\ UNCHANGED <<file, object, upload, delete, s3jobs>>

-----------------------------------------------------------------------------
\* deleteHandler and deleteActivityReportObjectiveFile find the file.
BeginDelete(f) ==
  /\ delete[f] = "idle"
  /\ Exists(f)
  /\ delete' = [delete EXCEPT ![f] = IF file[f].kind = "attachment" THEN "object" ELSE "row"]
  /\ UNCHANGED <<row, version, holder, file, object, upload, job, scan, s3jobs, faults>>

\* deleteFileFromS3, of files whose links deleteHandler does not count: after
\* the row when the link's hook destroys it, else before.
DeleteObject(f) ==
  /\ delete[f] = "object"
  /\ object' = [object EXCEPT ![f] = FALSE]
  /\ delete' = [delete EXCEPT ![f] = IF file[f].kind = "attachment" THEN "row" ELSE "commit"]
  /\ UNCHANGED <<row, version, holder, file, upload, job, scan, s3jobs, faults>>

\* File.destroy waits for the row, and its hook queues the object's deletion;
\* the orphan clean-up of the other kinds runs no hook.
DestroyRow(f) ==
  /\ delete[f] = "row"
  /\ holder[f] = Free
  /\ Write(f, "delete", GONE)
  /\ s3jobs' = IF file[f].kind \in Hooked THEN s3jobs \union {f} ELSE s3jobs
  /\ delete' = [delete EXCEPT ![f] = IF file[f].kind = "log" THEN "object" ELSE "commit"]
  /\ UNCHANGED <<row, file, object, upload, job, scan, faults>>

CommitDelete(f) ==
  /\ delete[f] = "commit"
  /\ CommitRow(f, "delete")
  /\ delete' = [delete EXCEPT ![f] = "idle"]
  /\ UNCHANGED <<file, object, upload, job, scan, s3jobs, faults>>

\* S3 fails or the process dies: the row is back, jobs and objects are not.
AbortDelete(f) ==
  /\ delete[f] # "idle"
  /\ Fault
  /\ RollbackRow(f, "delete")
  /\ delete' = [delete EXCEPT ![f] = "idle"]
  /\ UNCHANGED <<file, object, upload, job, scan, s3jobs>>

\* deleteFileFromS3Job: a failure is logged and not tried again.
RunS3Job(f) ==
  /\ f \in s3jobs
  /\ s3jobs' = s3jobs \ {f}
  /\ \/ object' = [object EXCEPT ![f] = FALSE] /\ UNCHANGED faults
     \/ Fault /\ UNCHANGED object
  /\ UNCHANGED <<row, version, holder, file, upload, job, scan, delete>>

-----------------------------------------------------------------------------
UploadStep(f) == StoreObject(f) \/ QueueScan(f) \/ CommitUpload(f) \/ AbortUpload(f)

ScanStep(f) ==
  \/ StartScan(f)
  \/ MarkScanning(f)
  \/ Verdict(f)
  \/ ScanFails(f)
  \/ CommitScan(f)
  \/ CompleteJob(f)
  \/ WorkerDies(f)

DeleteStep(f) == DeleteObject(f) \/ DestroyRow(f) \/ CommitDelete(f) \/ AbortDelete(f)

Next ==
  \E f \in Files :
    \/ BeginUpload(f) \/ UploadStep(f)
    \/ ScanStep(f)
    \/ BeginDelete(f) \/ DeleteStep(f)
    \/ RunS3Job(f)

\* Requests and jobs go on once begun, and the row goes to its waiters in turn
\* (PostgreSQL's lock queue); nobody has to upload or delete.
Fairness ==
  \A f \in Files : /\ WF_vars(UploadStep(f))
                   /\ SF_vars(ScanStep(f))
                   /\ SF_vars(DeleteStep(f))
                   /\ WF_vars(RunS3Job(f))

Spec == Init /\ [][Next]_vars /\ Fairness

-----------------------------------------------------------------------------
\* The variables keep their types, and an unlocked row has no other version.
TypeOK ==
  /\ row \in [Files -> FileStatuses \union {NONE, GONE}]
  /\ version \in [Files -> FileStatuses \union {NONE, GONE}]
  /\ holder \in [Files -> {Free, "upload", "scan", "delete"}]
  /\ file \in [Files -> FileRecords]
  /\ object \in [Files -> BOOLEAN]
  /\ upload \in [Files -> {"idle", "storing", "stored", "queued", "done", "failed"}]
  /\ job \in [Files -> [state : {"none", "waiting", "active", "ended"},
                        tries : 0..Attempts, stalled : 0..(MaxStalled + 1)]]
  /\ scan \in [Files -> {"idle", "found", "scanning", "judged", "committed"}]
  /\ delete \in [Files -> {"idle", "row", "object", "commit"}]
  /\ s3jobs \subseteq Files
  /\ faults \in 0..MaxFaults
  /\ \A f \in Files : holder[f] = Free => version[f] = row[f]

\* Although nine statuses are written, only three are ever seen by others: the
\* steps of an upload and of a scan are undone or overwritten before they commit,
\* a failed upload or scan included.
OnlySettledStatusesShown ==
  \A f \in Files : row[f] \in {NONE, SCANNING_QUEUED, APPROVED, REJECTED, GONE}

\* The scanner's verdict is what others see from then on, and a deleted file does
\* not come back, although a job runs again when its worker dies, fails after an
\* earlier run committed, or ends after the file was deleted.
SettledForGood ==
  [][\A f \in Files :
       /\ row[f] \in {APPROVED, REJECTED} => row'[f] \in {row[f], GONE}
       /\ row[f] = GONE => row'[f] = GONE]_vars

\* Every scan that is queued ends, whatever fails, dies or is deleted meanwhile.
ScansEnd == \A f \in Files : job[f].state = "waiting" ~> job[f].state = "ended"

\* "... that we will pass all user-uploaded files through" (ADR 12): a file that
\* waits for its scan gets a verdict, or is deleted.
EveryFileScanned ==
  \A f \in Files : row[f] = SCANNING_QUEUED ~> row[f] \in {APPROVED, REJECTED, GONE}
=============================================================================
