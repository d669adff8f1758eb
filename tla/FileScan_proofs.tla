--------------------------- MODULE FileScan_proofs ---------------------------
(***************************************************************************)
(* Proofs about FileScan, for any set of files and any bounds on tries,    *)
(* stalled jobs and failures.                                              *)
(***************************************************************************)
EXTENDS FileScan, TLAPS

USE DEF NONE, GONE, UPLOADING, UPLOADED, SCANNING_QUEUED, SCANNING, SCANNING_FAILED,
        APPROVED, REJECTED, Free

JobRecords == [state : {"none", "waiting", "active", "ended"},
               tries : 0..Attempts, stalled : 0..(MaxStalled + 1)]
ScanStates == {"idle", "found", "scanning", "judged", "committed"}

\* A job that may run again has tries and stalls left.
MayRun(j) == j.state # "ended" => j.tries < Attempts /\ j.stalled <= MaxStalled

\* Of the file's row: an unlocked one has no other version than the committed one.
RowsTyped ==
  /\ row \in [Files -> FileStatuses \union {NONE, GONE}]
  /\ version \in [Files -> FileStatuses \union {NONE, GONE}]
  /\ holder \in [Files -> {Free, "upload", "scan", "delete"}]
  /\ \A f \in Files : holder[f] = Free => version[f] = row[f]

\* Of the requests and what they leave outside the database.
RequestsTyped ==
  /\ file \in [Files -> FileRecords]
  /\ object \in [Files -> BOOLEAN]
  /\ upload \in [Files -> {"idle", "storing", "stored", "queued", "done", "failed"}]
  /\ delete \in [Files -> {"idle", "row", "object", "commit"}]
  /\ s3jobs \subseteq Files
  /\ faults \in 0..MaxFaults

\* A file has no job before its upload queues one, and a worker exactly while
\* its job is active.
JobsCounted ==
  /\ job \in [Files -> JobRecords]
  /\ scan \in [Files -> ScanStates]
  /\ \A f \in Files :
       /\ MayRun(job[f])
       /\ upload[f] \in {"idle", "storing", "stored"} => job[f].state = "none"
       /\ scan[f] # "idle" <=> job[f].state = "active"

\* The verdict that a scan of the file gives.
VerdictOf(f) == IF file[f].dirty THEN REJECTED ELSE APPROVED

\* What others may see of a row: nothing before its upload has committed, and
\* then its job, the one verdict that fits the file, or its end.
RowsSettled ==
  \A f \in Files :
    /\ upload[f] # "done" => row[f] = NONE
    /\ delete[f] # "idle" => row[f] # NONE
    /\ row[f] \in {NONE, SCANNING_QUEUED, GONE, VerdictOf(f)}

\* What the transaction that has locked a row is about to commit.
LocksJustified ==
  \A f \in Files :
    /\ upload[f] = "queued" => holder[f] = "upload" /\ version[f] = SCANNING_QUEUED
    /\ scan[f] = "judged" => holder[f] = "scan" /\ version[f] = VerdictOf(f)
    /\ holder[f] = "scan" => scan[f] \in {"scanning", "judged"} /\ row[f] \in FileStatuses
    /\ holder[f] = "delete" => version[f] = GONE /\ row[f] # NONE

Inv == RowsTyped /\ RequestsTyped /\ JobsCounted /\ RowsSettled /\ LocksJustified

-----------------------------------------------------------------------------
\* Ends of transactions keep the types of the row.
LEMMA CommitRowType ==
  ASSUME NEW f \in Files, NEW who, RowsTyped, CommitRow(f, who)
  PROVE  RowsTyped'
BY DEF RowsTyped, CommitRow, FileStatuses

LEMMA RollbackRowType ==
  ASSUME NEW f \in Files, NEW who, RowsTyped, RollbackRow(f, who)
  PROVE  RowsTyped'
BY DEF RowsTyped, RollbackRow, FileStatuses

\* A failure stays within the bound.
LEMMA FaultType ==
  ASSUME faults \in 0..MaxFaults, Fault
  PROVE  faults' \in 0..MaxFaults
BY AttemptsAssumption DEF Fault

\* A step of the job of one file that leaves it in order.
LEMMA JobStep ==
  ASSUME NEW f \in Files, NEW j \in JobRecords, NEW s \in ScanStates,
         JobsCounted, MayRun(j), s # "idle" <=> j.state = "active",
         upload[f] \in {"idle", "storing", "stored"} => j.state = "none",
         job' = [job EXCEPT ![f] = j], scan' = [scan EXCEPT ![f] = s], UNCHANGED upload
  PROVE  JobsCounted'
<1>1. job' \in [Files -> JobRecords] /\ scan' \in [Files -> ScanStates]
  BY DEF JobsCounted
<1>2. ASSUME NEW g \in Files
      PROVE  /\ MayRun(job'[g])
             /\ upload[g] \in {"idle", "storing", "stored"} => job'[g].state = "none"
             /\ scan'[g] # "idle" <=> job'[g].state = "active"
  <2>1. CASE g = f
    BY <2>1 DEF JobsCounted
  <2>2. CASE g # f
    BY <2>2 DEF JobsCounted
  <2> QED BY <2>1, <2>2
<1> QED BY <1>1, <1>2 DEF JobsCounted, MayRun

\* A worker's job is active, with tries and stalls left, and its upload is over.
LEMMA ActiveJob ==
  ASSUME NEW f \in Files, JobsCounted, scan[f] # "idle"
  PROVE  /\ job[f] \in JobRecords /\ job[f].state = "active"
         /\ job[f].tries \in 0..(Attempts - 1) /\ job[f].stalled \in 0..MaxStalled
         /\ upload[f] \notin {"idle", "storing", "stored"}
BY AttemptsAssumption DEF JobsCounted, JobRecords, MayRun

\* A failed try ends the job or leaves it a try.
LEMMA FailTryType ==
  ASSUME NEW f \in Files, JobsCounted, scan[f] # "idle", FailTry(f), UNCHANGED upload
  PROVE  JobsCounted'
<1>1. job' = [job EXCEPT ![f] = Tried(job[f])] /\ scan' = [scan EXCEPT ![f] = "idle"]
  BY DEF FailTry
<1>2. job[f].tries + 1 \in 0..Attempts /\ job[f].stalled \in 0..MaxStalled
  BY ActiveJob, AttemptsAssumption
<1>3. job[f].tries + 1 # Attempts => job[f].tries + 1 < Attempts
  BY <1>2, AttemptsAssumption
<1>4. Tried(job[f]) \in JobRecords /\ MayRun(Tried(job[f])) /\ Tried(job[f]).state # "active"
  BY <1>2, <1>3, AttemptsAssumption DEF Tried, JobRecords, MayRun
<1> QED BY <1>1, <1>4, ActiveJob, JobStep DEF ScanStates

\* So does a worker that dies.
LEMMA WorkerDiesType ==
  ASSUME NEW f \in Files, JobsCounted, WorkerDies(f)
  PROVE  JobsCounted'
<1>1. /\ job' = [job EXCEPT ![f] = Stalled(job[f])] /\ scan' = [scan EXCEPT ![f] = "idle"]
      /\ UNCHANGED upload
  BY DEF WorkerDies
<1>2. scan[f] # "idle"
  BY DEF WorkerDies, JobsCounted
<1>3. job[f].stalled \in 0..MaxStalled /\ job[f].tries \in 0..(Attempts - 1)
  BY <1>2, ActiveJob, AttemptsAssumption
<1>4. job[f].stalled # MaxStalled => job[f].stalled + 1 <= MaxStalled
  BY <1>3, AttemptsAssumption
<1>5. Stalled(job[f]) \in JobRecords /\ MayRun(Stalled(job[f])) /\ Stalled(job[f]).state # "active"
  BY <1>3, <1>4, AttemptsAssumption DEF Stalled, JobRecords, MayRun
<1> QED BY <1>1, <1>2, <1>5, ActiveJob, JobStep DEF ScanStates

\* And one that completes.
LEMMA EndJobType ==
  ASSUME NEW f \in Files, JobsCounted, job[f].state \in {"waiting", "active"},
         EndJob(f), scan' = [scan EXCEPT ![f] = "idle"], UNCHANGED upload
  PROVE  JobsCounted'
<1> DEFINE j == [job[f] EXCEPT !.state = "ended"]
<1>1. job' = [job EXCEPT ![f] = j]
  BY DEF EndJob
<1>2. j \in JobRecords /\ MayRun(j) /\ j.state # "active"
  BY DEF JobsCounted, JobRecords, MayRun
<1>3. upload[f] \notin {"idle", "storing", "stored"}
  BY DEF JobsCounted
<1> HIDE DEF j
<1> QED BY <1>1, <1>2, <1>3, JobStep DEF ScanStates

-----------------------------------------------------------------------------
\* Before any upload nothing is locked and no job is queued.
LEMMA InitInv == Init => Inv
BY AttemptsAssumption DEF Init, Inv, RowsTyped, RequestsTyped, JobsCounted, RowsSettled,
   LocksJustified, VerdictOf, NoJob, MayRun, JobRecords, ScanStates, FileStatuses

\* The request that uploads the file.
LEMMA UploadKeepsInv ==
  ASSUME NEW f \in Files, Inv, BeginUpload(f) \/ UploadStep(f)
  PROVE  Inv'
<1> USE DEF Inv, VerdictOf, FileStatuses
<1>1. CASE BeginUpload(f)
  <2>1. RowsTyped'
    BY <1>1 DEF RowsTyped, FileStatuses, BeginUpload, Write
  <2>2. RequestsTyped'
    BY <1>1 DEF RequestsTyped, BeginUpload, Write
  <2>3. JobsCounted'
    BY <1>1 DEF JobsCounted, BeginUpload
  <2>4. RowsSettled'
    BY <1>1 DEF RowsTyped, RequestsTyped, JobsCounted, RowsSettled, LocksJustified, BeginUpload, Write
  <2>5. LocksJustified'
    BY <1>1 DEF RowsTyped, RequestsTyped, JobsCounted, RowsSettled, LocksJustified, BeginUpload, Write
  <2> QED BY <2>1, <2>2, <2>3, <2>4, <2>5
<1>2. CASE StoreObject(f)
  <2>1. RowsTyped'
    BY <1>2 DEF RowsTyped, FileStatuses, StoreObject, Write
  <2>2. RequestsTyped'
    BY <1>2 DEF RequestsTyped, StoreObject, Write
  <2>3. JobsCounted'
    BY <1>2 DEF JobsCounted, StoreObject
  <2>4. RowsSettled'
    BY <1>2 DEF RowsTyped, RequestsTyped, JobsCounted, RowsSettled, LocksJustified, StoreObject, Write
  <2>5. LocksJustified'
    BY <1>2 DEF RowsTyped, RequestsTyped, JobsCounted, RowsSettled, LocksJustified, StoreObject, Write
  <2> QED BY <2>1, <2>2, <2>3, <2>4, <2>5
<1>3. CASE QueueScan(f)
  <2>1. RowsTyped'
    BY <1>3 DEF RowsTyped, FileStatuses, QueueScan, Write
  <2>2. RequestsTyped'
    BY <1>3, FaultType DEF RequestsTyped, QueueScan, Write
  <2>3. JobsCounted'
    <3> DEFINE j == [job[f] EXCEPT !.state = "waiting"]
    <3>1. /\ upload' = [upload EXCEPT ![f] = "queued"]
          /\ scan' = scan
          /\ job' = [job EXCEPT ![f] = j] \/ job' = job
      BY <1>3 DEF QueueScan, JobsCounted
    <3>2. job[f] \in JobRecords /\ job[f].state = "none" /\ scan[f] = "idle"
      BY <1>3 DEF QueueScan, JobsCounted
    <3>3. j \in JobRecords /\ MayRun(j) /\ j.state = "waiting"
      BY <3>2 DEF JobsCounted, JobRecords, MayRun
    <3> HIDE DEF j
    <3> QED BY <3>1, <3>2, <3>3 DEF JobsCounted, RequestsTyped
  <2>4. RowsSettled'
    BY <1>3 DEF RowsTyped, RequestsTyped, JobsCounted, RowsSettled, LocksJustified, QueueScan, Write
  <2>5. LocksJustified'
    BY <1>3 DEF RowsTyped, RequestsTyped, JobsCounted, RowsSettled, LocksJustified, QueueScan, Write
  <2> QED BY <2>1, <2>2, <2>3, <2>4, <2>5
<1>4. CASE CommitUpload(f)
  <2>1. RowsTyped'
    BY <1>4, CommitRowType DEF CommitUpload
  <2>2. RequestsTyped'
    BY <1>4 DEF RequestsTyped, CommitUpload, CommitRow
  <2>3. JobsCounted'
    BY <1>4 DEF JobsCounted, CommitUpload
  <2>4. RowsSettled'
    BY <1>4 DEF RowsTyped, RequestsTyped, JobsCounted, RowsSettled, LocksJustified, CommitUpload, CommitRow
  <2>5. LocksJustified'
    BY <1>4 DEF RowsTyped, RequestsTyped, JobsCounted, RowsSettled, LocksJustified, CommitUpload, CommitRow
  <2> QED BY <2>1, <2>2, <2>3, <2>4, <2>5
<1>5. CASE AbortUpload(f)
  <2>1. RowsTyped'
    BY <1>5, RollbackRowType DEF AbortUpload
  <2>2. RequestsTyped'
    BY <1>5, FaultType DEF RequestsTyped, AbortUpload, RollbackRow
  <2>3. JobsCounted'
    BY <1>5 DEF JobsCounted, AbortUpload
  <2>4. RowsSettled'
    BY <1>5 DEF RowsTyped, RequestsTyped, JobsCounted, RowsSettled, LocksJustified, AbortUpload, RollbackRow
  <2>5. LocksJustified'
    BY <1>5 DEF RowsTyped, RequestsTyped, JobsCounted, RowsSettled, LocksJustified, AbortUpload, RollbackRow
  <2> QED BY <2>1, <2>2, <2>3, <2>4, <2>5
<1> QED BY <1>1, <1>2, <1>3, <1>4, <1>5 DEF UploadStep

\* The worker that scans it.
LEMMA ScanKeepsInv ==
  ASSUME NEW f \in Files, Inv, ScanStep(f)
  PROVE  Inv'
<1> USE DEF Inv, VerdictOf, FileStatuses
<1>1. CASE StartScan(f)
  <2>1. RowsTyped'
    BY <1>1 DEF RowsTyped, FileStatuses, StartScan
  <2>2. RequestsTyped'
    BY <1>1 DEF RequestsTyped, StartScan, EndJob
  <2>3. JobsCounted'
    <3>1. CASE Exists(f)
      <4> DEFINE j == [job[f] EXCEPT !.state = "active"]
      <4>1. /\ job' = [job EXCEPT ![f] = j] /\ scan' = [scan EXCEPT ![f] = "found"]
            /\ UNCHANGED upload
        BY <1>1, <3>1 DEF StartScan, JobsCounted
      <4>2. /\ j \in JobRecords /\ MayRun(j) /\ j.state = "active"
            /\ upload[f] \notin {"idle", "storing", "stored"}
        BY <1>1 DEF StartScan, JobsCounted, JobRecords, MayRun
      <4> HIDE DEF j
      <4> QED BY <4>1, <4>2, JobStep DEF ScanStates
    <3>2. CASE ~Exists(f)
      <4>1. EndJob(f) /\ scan' = [scan EXCEPT ![f] = "idle"] /\ UNCHANGED upload
        BY <1>1, <3>2 DEF StartScan, JobsCounted
      <4> QED BY <1>1, <4>1, EndJobType DEF StartScan
    <3> QED BY <3>1, <3>2
  <2>4. RowsSettled'
    BY <1>1 DEF RowsTyped, RequestsTyped, JobsCounted, RowsSettled, LocksJustified, StartScan, EndJob
  <2>5. LocksJustified'
    BY <1>1 DEF RowsTyped, RequestsTyped, JobsCounted, RowsSettled, LocksJustified, StartScan, EndJob
  <2> QED BY <2>1, <2>2, <2>3, <2>4, <2>5
<1>2. CASE MarkScanning(f)
  <2>1. RowsTyped'
    BY <1>2 DEF RowsTyped, FileStatuses, MarkScanning, Write, Exists
  <2>2. RequestsTyped'
    BY <1>2 DEF RequestsTyped, MarkScanning, Write, Exists
  <2>3. JobsCounted'
    BY <1>2, ActiveJob DEF JobsCounted, MarkScanning, ScanStates
  <2>4. RowsSettled'
    BY <1>2 DEF RowsTyped, RequestsTyped, JobsCounted, RowsSettled, LocksJustified, MarkScanning, Write, Exists
  <2>5. LocksJustified'
    BY <1>2 DEF RowsTyped, RequestsTyped, JobsCounted, RowsSettled, LocksJustified, MarkScanning, Write, Exists
  <2> QED BY <2>1, <2>2, <2>3, <2>4, <2>5
<1>3. CASE Verdict(f)
  <2>1. RowsTyped'
    BY <1>3 DEF RowsTyped, FileStatuses, Verdict, Write
  <2>2. RequestsTyped'
    BY <1>3 DEF RequestsTyped, Verdict, Write, FailTry, EndJob
  <2>3. JobsCounted'
    <3>1. scan[f] = "scanning" /\ UNCHANGED upload
      BY <1>3 DEF Verdict
    <3>2. CASE holder[f] = "scan"
      <4>1. job' = job /\ scan' = [scan EXCEPT ![f] = "judged"]
        BY <1>3, <3>2 DEF Verdict
      <4> QED BY <3>1, <4>1, ActiveJob DEF JobsCounted, ScanStates
    <3>3. CASE holder[f] # "scan" /\ file[f].dirty
      BY <1>3, <3>1, <3>3, FailTryType DEF Verdict
    <3>4. CASE holder[f] # "scan" /\ ~file[f].dirty
      BY <1>3, <3>1, <3>4, EndJobType, ActiveJob DEF Verdict
    <3> QED BY <3>2, <3>3, <3>4
  <2>4. RowsSettled'
    BY <1>3 DEF RowsTyped, RequestsTyped, JobsCounted, RowsSettled, LocksJustified, Verdict, Write, FailTry, EndJob
  <2>5. LocksJustified'
    BY <1>3 DEF RowsTyped, RequestsTyped, JobsCounted, RowsSettled, LocksJustified, Verdict, Write, FailTry, EndJob
  <2> QED BY <2>1, <2>2, <2>3, <2>4, <2>5
<1>4. CASE ScanFails(f)
  <2>1. RowsTyped'
    BY <1>4, RollbackRowType DEF ScanFails
  <2>2. RequestsTyped'
    BY <1>4, FaultType DEF RequestsTyped, ScanFails, RollbackRow, FailTry
  <2>3. JobsCounted'
    BY <1>4, FailTryType DEF ScanFails
  <2>4. RowsSettled'
    BY <1>4 DEF RowsTyped, RequestsTyped, JobsCounted, RowsSettled, LocksJustified, ScanFails, RollbackRow, FailTry
  <2>5. LocksJustified'
    BY <1>4 DEF RowsTyped, RequestsTyped, JobsCounted, RowsSettled, LocksJustified, ScanFails, RollbackRow, FailTry
  <2> QED BY <2>1, <2>2, <2>3, <2>4, <2>5
<1>5. CASE CommitScan(f)
  <2>1. RowsTyped'
    BY <1>5, CommitRowType DEF CommitScan
  <2>2. RequestsTyped'
    BY <1>5 DEF RequestsTyped, CommitScan, CommitRow
  <2>3. JobsCounted'
    BY <1>5, ActiveJob DEF JobsCounted, CommitScan, ScanStates
  <2>4. RowsSettled'
    BY <1>5 DEF RowsTyped, RequestsTyped, JobsCounted, RowsSettled, LocksJustified, CommitScan, CommitRow
  <2>5. LocksJustified'
    BY <1>5 DEF RowsTyped, RequestsTyped, JobsCounted, RowsSettled, LocksJustified, CommitScan, CommitRow
  <2> QED BY <2>1, <2>2, <2>3, <2>4, <2>5
<1>6. CASE CompleteJob(f)
  <2>1. RowsTyped'
    BY <1>6 DEF RowsTyped, FileStatuses, CompleteJob
  <2>2. RequestsTyped'
    BY <1>6 DEF RequestsTyped, CompleteJob, EndJob
  <2>3. JobsCounted'
    BY <1>6, EndJobType, ActiveJob DEF CompleteJob
  <2>4. RowsSettled'
    BY <1>6 DEF RowsTyped, RequestsTyped, JobsCounted, RowsSettled, LocksJustified, CompleteJob, EndJob
  <2>5. LocksJustified'
    BY <1>6 DEF RowsTyped, RequestsTyped, JobsCounted, RowsSettled, LocksJustified, CompleteJob, EndJob
  <2> QED BY <2>1, <2>2, <2>3, <2>4, <2>5
<1>7. CASE WorkerDies(f)
  <2>1. RowsTyped'
    BY <1>7, RollbackRowType DEF WorkerDies
  <2>2. RequestsTyped'
    BY <1>7, FaultType DEF RequestsTyped, WorkerDies, RollbackRow
  <2>3. JobsCounted'
    BY <1>7, WorkerDiesType
  <2>4. RowsSettled'
    BY <1>7 DEF RowsTyped, RequestsTyped, JobsCounted, RowsSettled, LocksJustified, WorkerDies, RollbackRow
  <2>5. LocksJustified'
    BY <1>7 DEF RowsTyped, RequestsTyped, JobsCounted, RowsSettled, LocksJustified, WorkerDies, RollbackRow
  <2> QED BY <2>1, <2>2, <2>3, <2>4, <2>5
<1> QED BY <1>1, <1>2, <1>3, <1>4, <1>5, <1>6, <1>7 DEF ScanStep

\* The request that deletes it and the job that deletes its object.
LEMMA DeleteKeepsInv ==
  ASSUME NEW f \in Files, Inv, BeginDelete(f) \/ DeleteStep(f) \/ RunS3Job(f)
  PROVE  Inv'
<1> USE DEF Inv, VerdictOf, FileStatuses
<1>1. CASE BeginDelete(f)
  <2>1. RowsTyped'
    BY <1>1 DEF RowsTyped, FileStatuses, BeginDelete
  <2>2. RequestsTyped'
    BY <1>1 DEF RequestsTyped, BeginDelete, Exists
  <2>3. JobsCounted'
    BY <1>1 DEF JobsCounted, BeginDelete
  <2>4. RowsSettled'
    BY <1>1 DEF RowsTyped, RequestsTyped, JobsCounted, RowsSettled, LocksJustified, BeginDelete, Exists
  <2>5. LocksJustified'
    BY <1>1 DEF RowsTyped, RequestsTyped, JobsCounted, RowsSettled, LocksJustified, BeginDelete, Exists
  <2> QED BY <2>1, <2>2, <2>3, <2>4, <2>5
<1>2. CASE DeleteObject(f)
  <2>1. RowsTyped'
    BY <1>2 DEF RowsTyped, FileStatuses, DeleteObject
  <2>2. RequestsTyped'
    BY <1>2 DEF RequestsTyped, DeleteObject
  <2>3. JobsCounted'
    BY <1>2 DEF JobsCounted, DeleteObject
  <2>4. RowsSettled'
    BY <1>2 DEF RowsTyped, RequestsTyped, JobsCounted, RowsSettled, LocksJustified, DeleteObject
  <2>5. LocksJustified'
    BY <1>2 DEF RowsTyped, RequestsTyped, JobsCounted, RowsSettled, LocksJustified, DeleteObject
  <2> QED BY <2>1, <2>2, <2>3, <2>4, <2>5
<1>3. CASE DestroyRow(f)
  <2>1. RowsTyped'
    BY <1>3 DEF RowsTyped, FileStatuses, DestroyRow, Write
  <2>2. RequestsTyped'
    BY <1>3 DEF RequestsTyped, DestroyRow, Write
  <2>3. JobsCounted'
    BY <1>3 DEF JobsCounted, DestroyRow
  <2>4. RowsSettled'
    BY <1>3 DEF RowsTyped, RequestsTyped, JobsCounted, RowsSettled, LocksJustified, DestroyRow, Write
  <2>5. LocksJustified'
    BY <1>3 DEF RowsTyped, RequestsTyped, JobsCounted, RowsSettled, LocksJustified, DestroyRow, Write
  <2> QED BY <2>1, <2>2, <2>3, <2>4, <2>5
<1>4. CASE CommitDelete(f)
  <2>1. RowsTyped'
    BY <1>4, CommitRowType DEF CommitDelete
  <2>2. RequestsTyped'
    BY <1>4 DEF RequestsTyped, CommitDelete, CommitRow
  <2>3. JobsCounted'
    BY <1>4 DEF JobsCounted, CommitDelete
  <2>4. RowsSettled'
    BY <1>4 DEF RowsTyped, RequestsTyped, JobsCounted, RowsSettled, LocksJustified, CommitDelete, CommitRow
  <2>5. LocksJustified'
    BY <1>4 DEF RowsTyped, RequestsTyped, JobsCounted, RowsSettled, LocksJustified, CommitDelete, CommitRow
  <2> QED BY <2>1, <2>2, <2>3, <2>4, <2>5
<1>5. CASE AbortDelete(f)
  <2>1. RowsTyped'
    BY <1>5, RollbackRowType DEF AbortDelete
  <2>2. RequestsTyped'
    BY <1>5, FaultType DEF RequestsTyped, AbortDelete, RollbackRow
  <2>3. JobsCounted'
    BY <1>5 DEF JobsCounted, AbortDelete
  <2>4. RowsSettled'
    BY <1>5 DEF RowsTyped, RequestsTyped, JobsCounted, RowsSettled, LocksJustified, AbortDelete, RollbackRow
  <2>5. LocksJustified'
    BY <1>5 DEF RowsTyped, RequestsTyped, JobsCounted, RowsSettled, LocksJustified, AbortDelete, RollbackRow
  <2> QED BY <2>1, <2>2, <2>3, <2>4, <2>5
<1>6. CASE RunS3Job(f)
  <2>1. RowsTyped'
    BY <1>6 DEF RowsTyped, FileStatuses, RunS3Job
  <2>2. RequestsTyped'
    BY <1>6, FaultType DEF RequestsTyped, RunS3Job
  <2>3. JobsCounted'
    BY <1>6 DEF JobsCounted, RunS3Job
  <2>4. RowsSettled'
    BY <1>6 DEF RowsTyped, RequestsTyped, JobsCounted, RowsSettled, LocksJustified, RunS3Job
  <2>5. LocksJustified'
    BY <1>6 DEF RowsTyped, RequestsTyped, JobsCounted, RowsSettled, LocksJustified, RunS3Job
  <2> QED BY <2>1, <2>2, <2>3, <2>4, <2>5
<1> QED BY <1>1, <1>2, <1>3, <1>4, <1>5, <1>6 DEF DeleteStep

LEMMA StepKeepsInv == Inv /\ [Next]_vars => Inv'
<1> SUFFICES ASSUME Inv, [Next]_vars PROVE Inv'
  OBVIOUS
<1>1. CASE UNCHANGED vars
  BY <1>1 DEF vars, Inv, RowsTyped, RequestsTyped, JobsCounted, RowsSettled, LocksJustified, VerdictOf
<1>2. CASE Next
  BY <1>2, UploadKeepsInv, ScanKeepsInv, DeleteKeepsInv DEF Next
<1> QED BY <1>1, <1>2

THEOREM Invariance == Spec => []Inv
BY InitInv, StepKeepsInv, PTL DEF Spec

\* Types hold for any number of files, tries, stalled jobs and failures.
THEOREM TypeCorrect == Spec => []TypeOK
<1>1. Inv => TypeOK
  BY DEF Inv, RowsTyped, RequestsTyped, JobsCounted, JobRecords, ScanStates, TypeOK
<1> QED BY <1>1, Invariance, PTL

\* Nobody ever sees a file between its upload and its verdict in a state that
\* may be taken back.
THEOREM SettledStatuses == Spec => []OnlySettledStatusesShown
<1>1. Inv => OnlySettledStatusesShown
  BY DEF Inv, RowsSettled, VerdictOf, OnlySettledStatusesShown
<1> QED BY <1>1, Invariance, PTL

\* A verdict that was seen stays, and a deleted file stays deleted, whatever is
\* tried again.
THEOREM VerdictsStay == Spec => SettledForGood
<1> DEFINE Settled == \A f \in Files :
       /\ row[f] \in {APPROVED, REJECTED} => row'[f] \in {row[f], GONE}
       /\ row[f] = GONE => row'[f] = GONE
<1>1. Inv /\ [Next]_vars => [Settled]_vars
  <2> SUFFICES ASSUME Inv, Next PROVE Settled
    BY DEF vars
  <2> SUFFICES ASSUME NEW f \in Files
               PROVE  /\ row[f] \in {APPROVED, REJECTED} => row'[f] \in {row[f], GONE}
                      /\ row[f] = GONE => row'[f] = GONE
    OBVIOUS
  <2>1. CASE row'[f] = row[f]
    BY <2>1
  <2>2. CASE CommitUpload(f)
    BY <2>2 DEF Inv, RowsSettled, CommitUpload
  <2>3. CASE CommitScan(f)
    BY <2>3 DEF Inv, RowsTyped, RowsSettled, LocksJustified, VerdictOf, CommitScan, CommitRow, FileStatuses
  <2>4. CASE CommitDelete(f)
    BY <2>4 DEF Inv, RowsTyped, LocksJustified, CommitDelete, CommitRow
  <2>5. row'[f] = row[f] \/ CommitUpload(f) \/ CommitScan(f) \/ CommitDelete(f)
    <3>1. PICK g \in Files : \/ BeginUpload(g) \/ UploadStep(g)
                             \/ ScanStep(g)
                             \/ BeginDelete(g) \/ DeleteStep(g)
                             \/ RunS3Job(g)
      BY DEF Next
    <3>2. CASE row' = row
      BY <3>2
    <3>3. CASE row' # row
      <4>1. CommitUpload(g) \/ CommitScan(g) \/ CommitDelete(g)
        BY <3>1, <3>3 DEF UploadStep, ScanStep, DeleteStep, BeginUpload, StoreObject, QueueScan,
           AbortUpload, StartScan, MarkScanning, Verdict, ScanFails, CompleteJob, WorkerDies,
           BeginDelete, DeleteObject, DestroyRow, AbortDelete, RunS3Job, RollbackRow
      <4> QED BY <4>1 DEF CommitUpload, CommitScan, CommitDelete, CommitRow, Inv, RowsTyped
    <3> QED BY <3>2, <3>3
  <2> QED BY <2>1, <2>2, <2>3, <2>4, <2>5
<1> QED BY <1>1, Invariance, PTL DEF Spec, SettledForGood
=============================================================================
