------------------------------ MODULE DocPipeline ------------------------------
(***************************************************************************)
(* The life of a document: the rows of the documents and chunks tables,    *)
(* the S3 objects, the RQ ingest jobs, the requests of the API that act on *)
(* them and the one worker that runs the ingest jobs and the stale         *)
(* document cleanup.                                                       *)
(*                                                                         *)
(* A step is what happens between two points at which another process can  *)
(* get in: a transaction that commits, an S3 or Redis call.  A request of  *)
(* the API reads a row, decides on what it read, and later writes the row  *)
(* whatever it has become (the ORM's UPDATE is by primary key and READ     *)
(* COMMITTED does not look back), so each request keeps what it is about   *)
(* to do in a program counter of its own.                                  *)
(***************************************************************************)
EXTENDS Naturals, FiniteSets

CONSTANTS
    Docs,        \* document ids (uuid4, never reused)
    Reqs,        \* slots for requests in progress in the API
    Jobs,        \* RQ job ids: the bound on how often an ingest is enqueued
    NoJob,       \* what a worker that runs no job holds
    NoDoc,       \* what a request slot or a job that is free holds
    MaxRetries,  \* Retry(max=...) given to enqueue: 3 in the code
    Quota,       \* settings.MAX_DOCS_PER_USER; every document is one user's
    Faults       \* the kinds of failure that may occur

FaultKinds == {"api", "crash", "timeout", "redis", "s3", "db"}

ASSUME RetriesAssumption == MaxRetries \in Nat
ASSUME QuotaAssumption == Quota \in Nat
ASSUME FaultsAssumption == Faults \subseteq FaultKinds
ASSUME NoJobAssumption == NoJob \notin Jobs
ASSUME NoDocAssumption == NoDoc \notin Docs
--------------------------------------------------------------------------------
VARIABLES
    row,     \* row[d]: the status column; "none" before the insert, "gone" after the delete
    stale,   \* stale[d]: updated_at is older than the cutoff for the row's status
    copies,  \* copies[d]: how many times the document's chunk set is in the chunks table
    object,  \* object[d]: what lies in S3 under the row's key
    url,     \* url[d]: a presigned PUT URL that was handed out is still valid
    job,     \* job[j]: an RQ ingest job
    wpc,     \* where the worker is
    wjob,    \* the ingest job the worker runs
    loaded,  \* the status of the row as the worker's session last loaded it
    batch,   \* the documents the running cleanup selected
    sweep,   \* the cleanup job in Redis: scheduled ("on"), left behind by a crash
             \* ("stuck"), failed and never scheduled again ("off")
    rpc,     \* rpc[r]: where the request in slot r is
    rdoc,    \* rdoc[r]: the document it is about
    late     \* late[d]: history, how often confirm_upload wrote PENDING over
             \* anything else than PENDING_UPLOAD

rowVars    == <<row, stale>>
storeVars  == <<copies, object, url>>
workerVars == <<wpc, wjob, loaded, batch, sweep>>
reqVars    == <<rpc, rdoc>>
vars == <<row, stale, copies, object, url, job, wpc, wjob, loaded, batch,
          sweep, rpc, rdoc, late>>

DocumentStatus == {"PENDING_UPLOAD", "PENDING", "PROCESSING", "READY", "FAILED"}
RowState   == DocumentStatus \cup {"none", "gone"}
Unsettled  == {"PENDING_UPLOAD", "PENDING", "PROCESSING"}

JobState   == {"free", "queued", "delayed", "started", "abandoned", "ended"}
WorkerPC   == {"idle", "loaded", "extract", "store", "ack", "fail", "callback",
               "purge", "sweep"}
RequestPC  == {"idle", "insert", "store", "enqueue_upload", "confirm",
               "enqueue_confirm", "retry", "enqueue_retry", "fail", "delete"}

FreeJob == [state |-> "free", doc |-> NoDoc, left |-> 0]

Init ==
    /\ row = [d \in Docs |-> "none"]
    /\ stale = [d \in Docs |-> FALSE]
    /\ copies = [d \in Docs |-> 0]
    /\ object = [d \in Docs |-> "absent"]
    /\ url = [d \in Docs |-> FALSE]
    /\ job = [j \in Jobs |-> FreeJob]
    /\ wpc = "idle" /\ wjob = NoJob /\ loaded = "none" /\ batch = {}
    /\ sweep = "on"
    /\ rpc = [r \in Reqs |-> "idle"]
    /\ rdoc = [r \in Reqs |-> NoDoc]
    /\ late = [d \in Docs |-> 0]
--------------------------------------------------------------------------------
(* Rows, jobs and request slots.                                           *)

Live(d) == row[d] \in DocumentStatus

\* An INSERT or UPDATE of the row; the database trigger refreshes updated_at.
SetStatus(d, s) ==
    /\ row' = [row EXCEPT ![d] = s]
    /\ stale' = [stale EXCEPT ![d] = FALSE]

\* What a flush leaves in the status column: the ORM emits the column only
\* when the value assigned differs from the value the session loaded.
NetWrite(was, new, current) == IF was = new THEN current ELSE new

Enqueue(j, d) ==
    /\ job[j].state = "free"
    /\ job' = [job EXCEPT ![j] = [state |-> "queued", doc |-> d, left |-> MaxRetries]]

\* The outcomes of Queue.enqueue as its caller sees them: it returned, or it
\* raised.  A raise may leave the job in Redis (the reply was lost).
EnqueueReturned(d) == \E j \in Jobs : Enqueue(j, d)
EnqueueRaised(d) ==
    /\ "redis" \in Faults
    /\ UNCHANGED job \/ \E j \in Jobs : Enqueue(j, d)

Goto(r, pc, d) ==
    /\ rpc' = [rpc EXCEPT ![r] = pc]
    /\ rdoc' = [rdoc EXCEPT ![r] = d]

Done(r) == Goto(r, "idle", NoDoc)

\* delete_object may fail; the caller that treats it as best effort goes on.
DeleteObjectBestEffort(d) ==
    \/ object' = [object EXCEPT ![d] = "absent"]
    \/ "s3" \in Faults /\ UNCHANGED object

\* The document of the job the worker runs.
wdoc == job[wjob].doc
--------------------------------------------------------------------------------
(* Plausible mistakes, each in the place of the definition named in its    *)
(* comment; no specification of this module uses them.                     *)

\* For ConfirmCheck: no status guard.
ConfirmCheckAnyStatus(r, d) ==
    /\ rpc[r] = "idle"
    /\ Live(d)
    /\ \/ object[d] = "good" /\ Goto(r, "confirm", d) /\ UNCHANGED object
       \/ object[d] = "bad" /\ DeleteObjectBestEffort(d) /\ Goto(r, "fail", d)
    /\ UNCHANGED <<rowVars, copies, url, job, workerVars, late>>

\* For DeleteRow: a foreign key without ON DELETE CASCADE, dropped.
DeleteRowNoCascade(r) ==
    /\ rpc[r] = "delete"
    /\ SetStatus(rdoc[r], "gone")
    /\ Done(r)
    /\ UNCHANGED <<storeVars, job, workerVars, late>>

\* For WriteFailed: an upsert, which brings back a row that was deleted.
WriteFailedAnyway(r) ==
    /\ rpc[r] = "fail"
    /\ SetStatus(rdoc[r], "FAILED")
    /\ Done(r)
    /\ UNCHANGED <<storeVars, job, workerVars, late>>

\* For IngestLoad: no early return for READY.
IngestLoadAgain(j) ==
    /\ wpc = "idle"
    /\ job[j].state = "queued"
    /\ job' = [job EXCEPT ![j].state = "started"]
    /\ wjob' = j
    /\ loaded' = row[job[j].doc]
    /\ wpc' = IF Live(job[j].doc) THEN "loaded" ELSE "callback"
    /\ UNCHANGED <<rowVars, storeVars, batch, sweep, reqVars, late>>

\* For IngestBegin: only a PROCESSING row counts as a retry.
IngestBeginKeepFailed ==
    /\ wpc = "loaded"
    /\ \/ /\ Live(wdoc)
          /\ SetStatus(wdoc, NetWrite(loaded, "PROCESSING", row[wdoc]))
          /\ copies' = IF loaded = "PROCESSING" THEN [copies EXCEPT ![wdoc] = 0] ELSE copies
          /\ wpc' = "extract"
       \/ /\ ~Live(wdoc) \/ "db" \in Faults
          /\ wpc' = "callback"
          /\ UNCHANGED <<rowVars, copies>>
    /\ UNCHANGED <<object, url, job, wjob, loaded, batch, sweep, reqVars, late>>

\* For IngestStore: READY is committed, then the chunks, which may fail.
IngestStoreReadyFirst ==
    /\ wpc = "store"
    /\ \/ /\ Live(wdoc)
          /\ SetStatus(wdoc, "READY")
          /\ \/ copies' = [copies EXCEPT ![wdoc] = @ + 1] /\ wpc' = "ack"
             \/ UNCHANGED copies /\ wpc' = "callback"
       \/ ~Live(wdoc) /\ wpc' = "callback" /\ UNCHANGED <<rowVars, copies>>
    /\ loaded' = "none"
    /\ UNCHANGED <<object, url, job, wjob, batch, sweep, reqVars, late>>

\* For RetryOrGiveUp: the retry does not use up retries_left; retries_left is
\* decremented without a look at it.
RetryForEver(j) ==
    job' = [job EXCEPT ![j] =
              IF job[j].left > 0 THEN [@ EXCEPT !.state = "delayed"]
                            ELSE [FreeJob EXCEPT !.state = "ended"]]
RetryUnchecked(j) ==
    job' = [job EXCEPT ![j].state = "delayed", ![j].left = job[j].left - 1]

\* For CleanupPurge: the second batch forgets PROCESSING.
CleanupPurgeNotProcessing ==
    /\ wpc = "purge"
    /\ object' = [d \in Docs |-> IF d \in batch THEN "absent" ELSE object[d]]
    /\ batch' = batch \cup {d \in Docs : row[d] = "PENDING" /\ stale[d]}
    /\ wpc' = "sweep"
    /\ UNCHANGED <<rowVars, copies, url, job, wjob, loaded, sweep, reqVars, late>>
--------------------------------------------------------------------------------
(* Upload: POST /documents/initiate-upload and POST /documents/upload.     *)

\* COUNT of the rows that are not FAILED, the quota check's input.
ActiveDocs == {d \in Docs : row[d] \in DocumentStatus \ {"FAILED"}}
UnderQuota == Cardinality(ActiveDocs) < Quota

\* Both paths count first and insert in a later transaction.
CountForUpload(r) ==
    /\ rpc[r] = "idle"
    /\ UnderQuota
    /\ \E pc \in {"insert", "store"} : Goto(r, pc, NoDoc)
    /\ UNCHANGED <<rowVars, storeVars, job, workerVars, late>>

\* The row is committed before the URL is signed; signing may raise, and the
\* row stays.
InitiateInsert(r, d) ==
    /\ rpc[r] = "insert"
    /\ row[d] = "none"
    /\ SetStatus(d, "PENDING_UPLOAD")
    /\ \E signed \in {TRUE} \cup (IF "s3" \in Faults THEN {FALSE} ELSE {}) :
          url' = [url EXCEPT ![d] = signed]
    /\ Done(r)
    /\ UNCHANGED <<copies, object, job, workerVars, late>>

\* upload_document: S3 first, then the row; nobody else knows the new key, so
\* the put and the insert are one step with three outcomes.
UploadStore(r, d) ==
    /\ rpc[r] = "store"
    /\ row[d] = "none"
    /\ \/ /\ object' = [object EXCEPT ![d] = "good"]
          /\ SetStatus(d, "PENDING")
          /\ Goto(r, "enqueue_upload", d)
       \/ /\ "s3" \in Faults                      \* the put failed
          /\ Done(r)
          /\ UNCHANGED <<rowVars, object>>
       \/ /\ "db" \in Faults                      \* the insert failed: undo the put
          /\ \/ UNCHANGED object
             \/ "s3" \in Faults /\ object' = [object EXCEPT ![d] = "good"]
          /\ SetStatus(d, "gone")
          /\ Done(r)
    /\ UNCHANGED <<copies, url, job, workerVars, late>>

\* The row is refreshed and the job enqueued in one turn of the loop.  If the
\* refresh raises, the object is deleted although the insert was committed; if
\* enqueue raises, delete_document undoes the upload, object first, and an S3
\* failure leaves the PENDING row behind.
EnqueueUpload(r) ==
    /\ rpc[r] = "enqueue_upload"
    /\ LET d == rdoc[r] IN
       \/ /\ Live(d) /\ EnqueueReturned(d)
          /\ Done(r)
          /\ UNCHANGED object
       \/ /\ Live(d) /\ EnqueueRaised(d)
          /\ \/ /\ object' = [object EXCEPT ![d] = "absent"]
                /\ Goto(r, "delete", d)
             \/ /\ "s3" \in Faults
                /\ Done(r)
                /\ UNCHANGED object
       \/ /\ ~Live(d) \/ "db" \in Faults
          /\ DeleteObjectBestEffort(d)
          /\ Done(r)
          /\ UNCHANGED job
    /\ UNCHANGED <<rowVars, copies, url, workerVars, late>>

\* The browser PUTs to the presigned URL, which binds key and content type but
\* neither the size nor the row: it works as long as the URL is valid.
BrowserPut(d, content) ==
    /\ url[d]
    /\ object' = [object EXCEPT ![d] = content]
    /\ UNCHANGED <<rowVars, copies, url, job, workerVars, reqVars, late>>

UrlExpires(d) ==
    /\ url[d]
    /\ url' = [url EXCEPT ![d] = FALSE]
    /\ UNCHANGED <<rowVars, copies, object, job, workerVars, reqVars, late>>
--------------------------------------------------------------------------------
(* POST /documents/confirm-upload.                                         *)

\* Fetch, status guard, HeadObject and size check, in one turn of the loop.
\* Outside the tolerance the object is deleted (best effort) on the way.
ConfirmCheck(r, d) ==
    /\ rpc[r] = "idle"
    /\ row[d] = "PENDING_UPLOAD"
    /\ \/ /\ object[d] = "good"
          /\ Goto(r, "confirm", d)
          /\ UNCHANGED object
       \/ /\ object[d] = "bad"
          /\ DeleteObjectBestEffort(d)
          /\ Goto(r, "fail", d)
    /\ UNCHANGED <<rowVars, copies, url, job, workerVars, late>>

\* transition_status compared the status this request fetched, not the row's.
ConfirmCommit(r) ==
    /\ rpc[r] = "confirm"
    /\ LET d == rdoc[r] IN
       \/ /\ Live(d)
          /\ SetStatus(d, "PENDING")
          /\ late' = [late EXCEPT ![d] = IF row[d] = "PENDING_UPLOAD" THEN @ ELSE @ + 1]
          /\ Goto(r, "enqueue_confirm", d)
       \/ /\ ~Live(d)
          /\ Done(r)
          /\ UNCHANGED <<rowVars, late>>
    /\ UNCHANGED <<storeVars, job, workerVars>>

\* Refresh and enqueue in one turn.  When enqueue raises, the endpoint asks
\* transition_status for FAILED: legal from PROCESSING only, so from the PENDING
\* it normally refreshed that call raises too, and nothing is written.
EnqueueConfirm(r) ==
    /\ rpc[r] = "enqueue_confirm"
    /\ LET d == rdoc[r] IN
       \/ ~Live(d) /\ Done(r) /\ UNCHANGED job
       \/ Live(d) /\ EnqueueReturned(d) /\ Done(r)
       \/ /\ Live(d) /\ EnqueueRaised(d)
          /\ IF row[d] = "PROCESSING" THEN Goto(r, "fail", d) ELSE Done(r)
    /\ UNCHANGED <<rowVars, storeVars, workerVars, late>>

\* A request that found something wrong writes FAILED, by primary key; on a
\* row that was deleted the flush raises.
WriteFailed(r) ==
    /\ rpc[r] = "fail"
    /\ IF Live(rdoc[r]) THEN SetStatus(rdoc[r], "FAILED") ELSE UNCHANGED rowVars
    /\ Done(r)
    /\ UNCHANGED <<storeVars, job, workerVars, late>>
--------------------------------------------------------------------------------
(* POST /documents/{id}/retry and DELETE /documents/{id}.                  *)

RetryCheck(r, d) ==
    /\ rpc[r] = "idle"
    /\ row[d] = "FAILED"
    /\ Goto(r, "retry", d)
    /\ UNCHANGED <<rowVars, storeVars, job, workerVars, late>>

RetryCommit(r) ==
    /\ rpc[r] = "retry"
    /\ \/ /\ Live(rdoc[r])
          /\ SetStatus(rdoc[r], "PROCESSING")
          /\ Goto(r, "enqueue_retry", rdoc[r])
       \/ /\ ~Live(rdoc[r])
          /\ Done(r)
          /\ UNCHANGED rowVars
    /\ UNCHANGED <<storeVars, job, workerVars, late>>

EnqueueRetry(r) ==
    /\ rpc[r] = "enqueue_retry"
    /\ LET d == rdoc[r] IN
       \/ EnqueueReturned(d) /\ Done(r)
       \/ EnqueueRaised(d) /\ Goto(r, "fail", d)
    /\ UNCHANGED <<rowVars, storeVars, workerVars, late>>

\* S3 first; an S3 error other than 404 ends the request with the row intact.
DeleteObject(r, d) ==
    /\ rpc[r] = "idle"
    /\ Live(d)
    /\ object' = [object EXCEPT ![d] = "absent"]
    /\ Goto(r, "delete", d)
    /\ UNCHANGED <<rowVars, copies, url, job, workerVars, late>>

\* The chunks go with the row (ON DELETE CASCADE); the URL stays valid.
DeleteRow(r) ==
    /\ rpc[r] = "delete"
    /\ SetStatus(rdoc[r], "gone")
    /\ copies' = [copies EXCEPT ![rdoc[r]] = 0]
    /\ Done(r)
    /\ UNCHANGED <<object, url, job, workerVars, late>>

\* The API process stops, or a transaction fails and is rolled back: the
\* request goes no further and nothing takes it up again.
Abort(r) ==
    /\ "api" \in Faults
    /\ rpc[r] # "idle"
    /\ Done(r)
    /\ UNCHANGED <<rowVars, storeVars, job, workerVars, late>>
--------------------------------------------------------------------------------
(* The worker runs one job at a time; first an ingest job.                 *)

Idle == wpc' = "idle" /\ wjob' = NoJob /\ loaded' = "none"

\* run_ingest fetches the row.  No row: ValueError, and _fail has no row to
\* mark.  READY: return without work.
IngestLoad(j) ==
    /\ wpc = "idle"
    /\ job[j].state = "queued"
    /\ job' = [job EXCEPT ![j].state = "started"]
    /\ wjob' = j
    /\ loaded' = row[job[j].doc]
    /\ wpc' = CASE ~Live(job[j].doc)         -> "callback"
                [] row[job[j].doc] = "READY" -> "ack"
                [] OTHER                     -> "loaded"
    /\ UNCHANGED <<rowVars, storeVars, batch, sweep, reqVars, late>>

\* One transaction: a run that found PROCESSING or FAILED drops the chunks of
\* its predecessor, and the row is marked PROCESSING.  If the row went
\* meanwhile, or the database fails, the session is unusable and _fail
\* cannot write.
IngestBegin ==
    /\ wpc = "loaded"
    /\ \/ /\ Live(wdoc)
          /\ SetStatus(wdoc, NetWrite(loaded, "PROCESSING", row[wdoc]))
          /\ copies' = IF loaded \in {"PROCESSING", "FAILED"}
                       THEN [copies EXCEPT ![wdoc] = 0]
                       ELSE copies
          /\ wpc' = "extract"
       \/ /\ ~Live(wdoc) \/ "db" \in Faults
          /\ wpc' = "callback"
          /\ UNCHANGED <<rowVars, copies>>
    /\ UNCHANGED <<object, url, job, wjob, loaded, batch, sweep, reqVars, late>>

\* The expired row is loaded again, then the object is fetched, split, counted
\* against the budgets and embedded; any of that may raise, and does if there
\* is no object.  Nothing is written.
IngestExtract ==
    /\ wpc = "extract"
    /\ loaded' = row[wdoc]
    /\ \/ Live(wdoc) /\ object[wdoc] # "absent" /\ wpc' = "store"
       \/ Live(wdoc) /\ wpc' = "fail"
       \/ ~Live(wdoc) /\ wpc' = "callback"
    /\ UNCHANGED <<rowVars, storeVars, job, wjob, batch, sweep, reqVars, late>>

\* Chunks and READY are one commit.  If the job's alarm goes off between
\* add_all and commit, _fail commits the pending chunks with FAILED.
IngestStore ==
    /\ wpc = "store"
    /\ \/ /\ Live(wdoc)
          /\ copies' = [copies EXCEPT ![wdoc] = @ + 1]
          /\ SetStatus(wdoc, "READY")
          /\ loaded' = "none"                        \* the commit expires the row
          /\ wpc' = "ack"
       \/ /\ Live(wdoc) /\ "timeout" \in Faults
          /\ copies' = [copies EXCEPT ![wdoc] = @ + 1]
          /\ SetStatus(wdoc, NetWrite(loaded, "FAILED", row[wdoc]))
          /\ wpc' = "callback"
          /\ UNCHANGED loaded
       \/ /\ ~Live(wdoc) \/ "db" \in Faults
          /\ wpc' = "callback"
          /\ UNCHANGED <<rowVars, copies, loaded>>
    /\ UNCHANGED <<object, url, job, wjob, batch, sweep, reqVars, late>>

\* The run is complete, or found the document READY, but not yet over: the expired
\* row is loaded again for the metrics, the function returns and RQ records it.
\* The alarm before the return lets _fail mark the document FAILED; a row that
\* is gone, a session that failed, the alarm after the return or a Redis
\* call that failed leaves the run to RQ as a failed attempt.
IngestAck ==
    /\ wpc = "ack"
    /\ \/ /\ job' = [job EXCEPT ![wjob] = [FreeJob EXCEPT !.state = "ended"]]
          /\ Idle
       \/ /\ "timeout" \in Faults /\ Live(wdoc)
          /\ loaded' = IF loaded = "none" THEN row[wdoc] ELSE loaded
          /\ wpc' = "fail"
          /\ UNCHANGED <<job, wjob>>
       \/ /\ \/ loaded = "none" /\ ~Live(wdoc)
             \/ Faults \cap {"timeout", "db", "redis"} # {}
          /\ wpc' = "callback"
          /\ UNCHANGED <<job, wjob, loaded>>
    /\ UNCHANGED <<rowVars, storeVars, batch, sweep, reqVars, late>>

\* _fail, best effort.
IngestFail ==
    /\ wpc = "fail"
    /\ \/ /\ Live(wdoc)
          /\ SetStatus(wdoc, NetWrite(loaded, "FAILED", row[wdoc]))
       \/ /\ ~Live(wdoc) \/ "db" \in Faults
          /\ UNCHANGED rowVars
    /\ wpc' = "callback"
    /\ UNCHANGED <<storeVars, job, wjob, loaded, batch, sweep, reqVars, late>>

\* RQ's part of a failed attempt of j: on_failure (which may not run while
\* retries are left, and may itself fail), then a retry or the end.
FailureCallback(j) ==
    LET d == job[j].doc IN
    \/ Live(d) /\ SetStatus(d, "FAILED")
    \/ ~Live(d) /\ UNCHANGED rowVars
    \/ (job[j].left > 0 \/ "db" \in Faults) /\ UNCHANGED rowVars

RetryOrGiveUp(j) ==
    job' = [job EXCEPT ![j] =
              IF job[j].left > 0
              THEN [@ EXCEPT !.state = "delayed", !.left = job[j].left - 1]
              ELSE [FreeJob EXCEPT !.state = "ended"]]

AttemptFailed ==
    /\ wpc = "callback"
    /\ FailureCallback(wjob)
    /\ RetryOrGiveUp(wjob)
    /\ Idle
    /\ UNCHANGED <<storeVars, batch, sweep, reqVars, late>>

\* RQ's maintenance finds a job whose worker died.
AbandonedFailed(j) ==
    /\ wpc = "idle"
    /\ job[j].state = "abandoned"
    /\ FailureCallback(j)
    /\ RetryOrGiveUp(j)
    /\ UNCHANGED <<storeVars, workerVars, reqVars, late>>

\* The scheduler puts a retry back on the queue when its interval is over.
RetryDue(j) ==
    /\ job[j].state = "delayed"
    /\ job' = [job EXCEPT ![j].state = "queued"]
    /\ UNCHANGED <<rowVars, storeVars, workerVars, reqVars, late>>
--------------------------------------------------------------------------------
(* cleanup_stale_documents_job, on the default queue: the worker takes it  *)
(* only when the ingest queue is empty.                                    *)

GoesStale(d) ==
    /\ row[d] \in Unsettled
    /\ ~stale[d]
    /\ stale' = [stale EXCEPT ![d] = TRUE]
    /\ UNCHANGED <<row, storeVars, job, workerVars, reqVars, late>>

StaleIn(statuses) == {d \in Docs : row[d] \in statuses /\ stale[d]}

\* Whatever raises in the cleanup rolls its session back and fails the job, and a
\* job that failed does not schedule the next run.
CleanupFailed == sweep' = "off" /\ batch' = {} /\ wpc' = "idle"

CleanupSelect ==
    /\ wpc = "idle"
    /\ sweep = "on"
    /\ \A j \in Jobs : job[j].state # "queued"
    /\ \/ /\ batch' = StaleIn({"PENDING_UPLOAD"})
          /\ wpc' = "purge"
          /\ UNCHANGED sweep
       \/ Faults \cap {"db", "timeout"} # {} /\ CleanupFailed
    /\ UNCHANGED <<rowVars, storeVars, job, wjob, loaded, reqVars, late>>

\* The objects of the first batch are deleted one by one, then the second batch
\* is selected; no status is written yet.  S3's refusal to delete an object is
\* skipped over; an S3 call that gets no answer, or the job's alarm, stops the
\* cleanup between two objects.
CleanupPurge ==
    /\ wpc = "purge"
    /\ \E kept \in SUBSET batch :
          /\ kept = {} \/ Faults \cap {"s3", "timeout"} # {}
          /\ object' = [d \in Docs |-> IF d \in batch \ kept THEN "absent" ELSE object[d]]
          /\ \/ /\ kept = {} \/ "s3" \in Faults
                /\ batch' = batch \cup StaleIn({"PENDING", "PROCESSING"})
                /\ wpc' = "sweep"
                /\ UNCHANGED sweep
             \/ Faults \cap {"s3", "timeout", "db"} # {} /\ CleanupFailed
    /\ UNCHANGED <<rowVars, copies, url, job, wjob, loaded, reqVars, late>>

\* One commit for both batches: every row FAILED, or, when a row was deleted
\* meanwhile, the database fails or the alarm goes off, none.  The next run is
\* scheduled after the commit.
CleanupCommit ==
    /\ wpc = "sweep"
    /\ \/ /\ \A d \in batch : Live(d)
          /\ row' = [d \in Docs |-> IF d \in batch THEN "FAILED" ELSE row[d]]
          /\ stale' = [d \in Docs |-> stale[d] /\ d \notin batch]
          /\ \/ batch' = {} /\ wpc' = "idle" /\ UNCHANGED sweep
             \/ Faults \cap {"redis", "timeout"} # {} /\ CleanupFailed
       \/ /\ (\E d \in batch : ~Live(d)) \/ Faults \cap {"db", "timeout"} # {}
          /\ CleanupFailed
          /\ UNCHANGED rowVars
    /\ UNCHANGED <<storeVars, job, wjob, loaded, reqVars, late>>

\* The worker process dies and its container is started again.  A job it ran
\* is abandoned.  setup_stale_document_cleanup schedules the cleanup anew only
\* if its job is recorded as failed: a run the crash interrupted still says
\* "started" and is taken for scheduled.
Crash ==
    /\ "crash" \in Faults
    /\ job' = IF wjob = NoJob THEN job
              ELSE [job EXCEPT ![wjob].state = "abandoned"]
    /\ sweep' = CASE wpc \in {"purge", "sweep"} -> "stuck"
                  [] sweep = "off"              -> "on"
                  [] OTHER                      -> sweep
    /\ batch' = {}
    /\ Idle
    /\ UNCHANGED <<rowVars, storeVars, reqVars, late>>

\* RQ's maintenance moves the interrupted cleanup to the failed registry.
CleanupAbandoned ==
    /\ sweep = "stuck"
    /\ wpc = "idle"
    /\ sweep' = "off"
    /\ UNCHANGED <<rowVars, storeVars, job, wpc, wjob, loaded, batch, reqVars, late>>
--------------------------------------------------------------------------------
RequestNext(r) ==
    \/ CountForUpload(r)
    \/ \E d \in Docs : \/ InitiateInsert(r, d) \/ UploadStore(r, d)
                       \/ ConfirmCheck(r, d) \/ RetryCheck(r, d)
                       \/ DeleteObject(r, d)
    \/ EnqueueUpload(r)
    \/ ConfirmCommit(r) \/ EnqueueConfirm(r) \/ WriteFailed(r)
    \/ RetryCommit(r) \/ EnqueueRetry(r)
    \/ DeleteRow(r)
    \/ Abort(r)

IngestNext ==
    \/ \E j \in Jobs : IngestLoad(j)
    \/ IngestBegin \/ IngestExtract \/ IngestStore
    \/ IngestAck \/ IngestFail \/ AttemptFailed

CleanupNext == CleanupSelect \/ CleanupPurge \/ CleanupCommit

RqNext == CleanupAbandoned \/ \E j \in Jobs : AbandonedFailed(j) \/ RetryDue(j)

Next ==
    \/ \E r \in Reqs : RequestNext(r)
    \/ \E d \in Docs : \/ \E content \in {"good", "bad"} : BrowserPut(d, content)
                       \/ UrlExpires(d) \/ GoesStale(d)
    \/ IngestNext
    \/ CleanupNext
    \/ RqNext
    \/ Crash

Spec == Init /\ [][Next]_vars

\* The worker goes on with its job and takes the next; RQ's scheduler is a
\* process of its own; time passes.  RQ's maintenance is due every few minutes
\* and comes before the next job, so it is not for ever overtaken by cleanups:
\* strong fairness.  Users and requests owe nothing.
FairSpec ==
    /\ Spec
    /\ WF_vars(IngestNext)
    /\ WF_vars(CleanupNext)
    /\ \A j \in Jobs : SF_vars(AbandonedFailed(j)) /\ WF_vars(RetryDue(j))
    /\ \A d \in Docs : WF_vars(GoesStale(d))
--------------------------------------------------------------------------------
(* Properties.                                                             *)

Job == [state : JobState, doc : Docs \cup {NoDoc}, left : 0..MaxRetries]

\* Every variable has its type; in particular RQ's retries_left never drops
\* below zero (rq Retry, used at routers/documents.py:73).
TypeOK ==
    /\ row \in [Docs -> RowState]
    /\ stale \in [Docs -> BOOLEAN]
    /\ copies \in [Docs -> Nat]
    /\ object \in [Docs -> {"absent", "good", "bad"}]
    /\ url \in [Docs -> BOOLEAN]
    /\ job \in [Jobs -> Job]
    /\ wpc \in WorkerPC
    /\ wjob \in Jobs \cup {NoJob}
    /\ loaded \in RowState
    /\ batch \in SUBSET Docs
    /\ sweep \in {"on", "stuck", "off"}
    /\ rpc \in [Reqs -> RequestPC]
    /\ rdoc \in [Reqs -> Docs \cup {NoDoc}]
    /\ late \in [Docs -> Nat]

\* A document the user is told is READY has its chunks in the table, whatever
\* retries, crashes, timeouts and deletions came before: the chunks and the
\* status are one commit and a later run clears chunks only together with
\* leaving READY (workers/ingest.py:163-172, 98-107).
ReadyHasChunks == \A d \in Docs : row[d] = "READY" => copies[d] >= 1

\* Running the ingest again (RQ retry, user retry, abandoned job, job alarm in
\* the middle of the commit) never adds a second set of chunks; the only way to
\* a surplus set is a confirm_upload that wrote PENDING over a row another
\* request had already confirmed, one set for each such write
\* (workers/ingest.py:98-103, services/document_service.py:656-662, 772-773).
SurplusOnlyFromLateConfirms == \A d \in Docs : copies[d] <= 1 + late[d]

\* A document that was deleted, or whose upload is not confirmed, has no
\* chunks, also when it is deleted while its ingest runs (models/chunk.py:38-42,
\* services/document_service.py:418-419).
NoChunksWithoutIngest ==
    \A d \in Docs : row[d] \in {"none", "gone", "PENDING_UPLOAD"} => copies[d] = 0

KeepsReady ==
    \A d \in Docs : /\ wpc # "idle" /\ rpc' = rpc
                    /\ row[d] = "READY" /\ row'[d] # "READY"
                   => /\ wpc \in {"fail", "callback"} /\ wdoc = d
                      /\ loaded \in {"none", "READY"}
                      /\ row'[d] = "FAILED"

\* The worker takes READY from a document only as FAILED and only at the end of a
\* failed run of its own which had completed that document, or had found it READY
\* and done nothing, before the alarm, the database or Redis failed it.  A
\* run that still works on a document, a run of another job and the cleanup,
\* which both write on what they read earlier, never do
\* (workers/ingest.py:78-80, 91-96, 172-193, workers/tasks.py:180-187).
WorkerKeepsReady == [][KeepsReady]_vars

ObjectGoesWithDocument ==
    \A d \in Docs : /\ row[d] = "READY"
                    /\ object[d] # "absent" /\ object'[d] = "absent"
                   => \E r \in Reqs : \/ rdoc'[r] = d /\ rpc'[r] = "delete"
                                      \/ rdoc[r] = d /\ rpc[r] = "enqueue_upload"

\* The S3 object of a READY document is deleted only on the way to deleting the
\* document or by its own upload request that undoes itself: neither the cleanup
\* nor a rejected confirm removes it
\* (services/document_service.py:656-662, 723-734, workers/tasks.py:94-120).
ReadyObjectOnlyDeletedWithDocument == [][ObjectGoesWithDocument]_vars

Lifecycle(d) == INSTANCE DocLifecycle WITH status <- row[d]

\* Whatever the interleaving, the status of a document moves as the documents page
\* and the sweeper of the bucket expect it: never back to unconfirmed, never out
\* of a deletion, and no ingest of a document that was not confirmed, although
\* requests, worker and cleanup write on what they read earlier (models/document.py:
\* 17-47, services/document_service.py:114-160, workers/ingest.py:84-107, 163-172).
DocumentLife ==
    /\ \A d \in Docs : Lifecycle(d)!LifecycleInit
    /\ [][\A d \in Docs : [Lifecycle(d)!LifecycleNext]_(row[d])]_row

\* A document does not stay PENDING_UPLOAD, PENDING or PROCESSING for ever as
\* long as the cleanup loop lives, whatever request or job got lost on the way
\* (workers/tasks.py:217-274).
Settles ==
    \A d \in Docs : row[d] \in Unsettled ~> (row[d] \notin Unsettled \/ sweep # "on")

\* Every ingest job that is enqueued comes to an end: it succeeds or uses up its
\* retries (routers/documents.py:70-76).
JobsEnd == \A j \in Jobs : job[j].state = "queued" ~> job[j].state = "ended"

(* Statements of the repository that the code does not keep.               *)

\* "PENDING -> FAILED is a valid transition. The user can retry"
\* (routers/documents.py:423-424): a document whose job could not be enqueued is
\* not left PENDING, so a PENDING one has a job or a request that will enqueue it.
PendingHasJob ==
    \A d \in Docs : row[d] = "PENDING" =>
        \/ \E j \in Jobs : job[j].doc = d
        \/ \E r \in Reqs : rdoc[r] = d

\* "Already confirmed, processing, or failed - do not re-trigger"
\* (services/document_service.py:657): a READY document was ingested once.
ReadyHasOneCopy == \A d \in Docs : row[d] = "READY" => copies[d] = 1

\* "Strict enforcement of ... document counts" (README.md:48).
QuotaRespected == Cardinality(ActiveDocs) <= Quota

\* "Runs every 5 minutes via self-scheduling" (workers/tasks.py:237).
CleanupScheduled == sweep = "on"
--------------------------------------------------------------------------------
(* The inductive invariant behind the safety properties.                   *)

IngestPC == {"loaded", "extract", "store", "ack", "fail", "callback"}

\* A document that a job or a request carries was inserted.
CarriedDocsExist ==
    /\ \A j \in Jobs :
          /\ job[j].state \notin {"free", "ended"} => job[j].doc \in Docs
          /\ job[j].doc \in Docs => row[job[j].doc] # "none"
    /\ \A r \in Reqs :
          /\ rpc[r] \notin {"idle", "insert", "store"} => rdoc[r] \in Docs
          /\ rdoc[r] \in Docs => row[rdoc[r]] # "none"

\* The worker holds a started job exactly while it is in an ingest run.
WorkerHoldsJob ==
    IF wpc \in IngestPC
    THEN wjob \in Jobs /\ job[wjob].state = "started"
    ELSE wjob = NoJob

\* A row confirmed again has one set per late confirm at most, before its run.
PendingCopies == \A d \in Docs : row[d] = "PENDING" => copies[d] <= late[d]

\* What the running ingest knows of the row it loaded.
RunInv ==
    /\ wpc \in {"loaded", "extract", "store"} => row[wdoc] # "READY"
    /\ wpc = "ack" => loaded \in {"none", "READY"}
    /\ wpc \in {"fail", "callback"} /\ row[wdoc] = "READY" => loaded \in {"none", "READY"}
    /\ wpc = "loaded" =>
          /\ loaded \notin {"PROCESSING", "FAILED"} => copies[wdoc] <= late[wdoc]
          /\ loaded \in {"PROCESSING", "FAILED"} =>
                /\ row[wdoc] # "PENDING_UPLOAD"
                /\ row[wdoc] = "PENDING" => late[wdoc] >= 1
          /\ loaded \notin {"none", "READY", "gone"}
    /\ wpc \in {"extract", "store"} =>
          /\ row[wdoc] # "PENDING_UPLOAD"
          /\ copies[wdoc] <= late[wdoc]
          /\ row[wdoc] = "PENDING" => copies[wdoc] + 1 <= late[wdoc]

\* No document the running cleanup selected becomes READY before the cleanup
\* writes FAILED: only the worker, busy with the cleanup, could make it so.
SweepInv ==
    /\ wpc \notin {"purge", "sweep"} => batch = {}
    /\ \A d \in batch : row[d] # "READY"

IInv ==
    /\ TypeOK
    /\ CarriedDocsExist
    /\ WorkerHoldsJob
    /\ PendingCopies
    /\ RunInv
    /\ SweepInv
    /\ ReadyHasChunks
    /\ SurplusOnlyFromLateConfirms
    /\ NoChunksWithoutIngest
================================================================================
