--------------------------- MODULE DocPipelineProofs ---------------------------
(***************************************************************************)
(* Proofs about DocPipeline for any sets of documents, requests and jobs,  *)
(* any number of retries, any quota and any kinds of failure.              *)
(***************************************************************************)
EXTENDS DocPipeline, FiniteSetTheorems, TLAPS

\* The empty database, queue and bucket are well typed.
LEMMA InitType == Init => TypeOK
BY RetriesAssumption DEF Init, TypeOK, RowState, DocumentStatus, Job, JobState, FreeJob,
   WorkerPC, RequestPC

\* Putting a job on the queue leaves a well-formed job table.
LEMMA EnqueueType ==
  ASSUME TypeOK, NEW j \in Jobs, NEW d \in Docs, Enqueue(j, d)
  PROVE  job' \in [Jobs -> Job]
BY RetriesAssumption DEF TypeOK, Enqueue, Job, JobState

\* The actions of the API keep the types.
LEMMA RequestType ==
  ASSUME TypeOK, CarriedDocsExist, NEW r \in Reqs, RequestNext(r)
  PROVE  TypeOK'
<1> USE DEF TypeOK, rowVars, storeVars, workerVars, Goto, Done, SetStatus,
        RowState, DocumentStatus, RequestPC
<1>1. CASE CountForUpload(r)
  BY <1>1 DEF CountForUpload
<1>2. ASSUME NEW d \in Docs, InitiateInsert(r, d) PROVE TypeOK'
  BY <1>2 DEF InitiateInsert
<1>3. ASSUME NEW d \in Docs, UploadStore(r, d) PROVE TypeOK'
  <2>1. row' \in [Docs -> RowState] /\ stale' \in [Docs -> BOOLEAN]
    BY <1>3 DEF UploadStore
  <2>2. object' \in [Docs -> {"absent", "good", "bad"}]
    BY <1>3 DEF UploadStore
  <2>3. rpc' \in [Reqs -> RequestPC] /\ rdoc' \in [Reqs -> Docs \cup {NoDoc}]
    BY <1>3 DEF UploadStore
  <2> QED
    BY <1>3, <2>1, <2>2, <2>3 DEF UploadStore
<1>4. ASSUME NEW d \in Docs, ConfirmCheck(r, d) PROVE TypeOK'
  BY <1>4 DEF ConfirmCheck, DeleteObjectBestEffort
<1>5. ASSUME NEW d \in Docs, RetryCheck(r, d) PROVE TypeOK'
  BY <1>5 DEF RetryCheck
<1>6. ASSUME NEW d \in Docs, DeleteObject(r, d) PROVE TypeOK'
  BY <1>6 DEF DeleteObject
<1>7. CASE EnqueueUpload(r)
  <2>1. rdoc[r] \in Docs
    BY <1>7 DEF EnqueueUpload, CarriedDocsExist
  <2>2. job' \in [Jobs -> Job]
    BY <1>7, <2>1, EnqueueType DEF EnqueueUpload, EnqueueReturned, EnqueueRaised
  <2>3. object' \in [Docs -> {"absent", "good", "bad"}]
    BY <1>7 DEF EnqueueUpload, DeleteObjectBestEffort
  <2>4. rpc' \in [Reqs -> RequestPC] /\ rdoc' \in [Reqs -> Docs \cup {NoDoc}]
    BY <1>7, <2>1 DEF EnqueueUpload
  <2> QED
    BY <1>7, <2>2, <2>3, <2>4 DEF EnqueueUpload
<1>8. CASE ConfirmCommit(r)
  <2>1. rdoc[r] \in Docs
    BY <1>8 DEF ConfirmCommit, CarriedDocsExist
  <2>2. late' \in [Docs -> Nat]
    BY <1>8, <2>1 DEF ConfirmCommit
  <2> QED
    BY <1>8, <2>1, <2>2 DEF ConfirmCommit
<1>9. CASE EnqueueConfirm(r)
  <2>1. rdoc[r] \in Docs
    BY <1>9 DEF EnqueueConfirm, CarriedDocsExist
  <2>2. job' \in [Jobs -> Job]
    BY <1>9, <2>1, EnqueueType DEF EnqueueConfirm, EnqueueReturned, EnqueueRaised
  <2> QED
    BY <1>9, <2>1, <2>2 DEF EnqueueConfirm
<1>10. CASE WriteFailed(r)
  BY <1>10 DEF WriteFailed
<1>11. CASE RetryCommit(r)
  <2>1. rdoc[r] \in Docs
    BY <1>11 DEF RetryCommit, CarriedDocsExist
  <2>2. row' \in [Docs -> RowState] /\ stale' \in [Docs -> BOOLEAN]
    BY <1>11, <2>1 DEF RetryCommit
  <2>3. rpc' \in [Reqs -> RequestPC] /\ rdoc' \in [Reqs -> Docs \cup {NoDoc}]
    BY <1>11, <2>1 DEF RetryCommit
  <2> QED
    BY <1>11, <2>2, <2>3 DEF RetryCommit
<1>12. CASE EnqueueRetry(r)
  <2>1. rdoc[r] \in Docs
    BY <1>12 DEF EnqueueRetry, CarriedDocsExist
  <2>2. job' \in [Jobs -> Job]
    BY <1>12, <2>1, EnqueueType DEF EnqueueRetry, EnqueueReturned, EnqueueRaised
  <2> QED
    BY <1>12, <2>1, <2>2 DEF EnqueueRetry
<1>13. CASE DeleteRow(r)
  BY <1>13 DEF DeleteRow
<1>14. CASE Abort(r)
  BY <1>14 DEF Abort
<1> QED
  BY <1>1, <1>2, <1>3, <1>4, <1>5, <1>6, <1>7, <1>8, <1>9, <1>10, <1>11, <1>12,
     <1>13, <1>14 DEF RequestNext

\* A job that ended, or that goes on with a retry less, is well formed: the
\* retries left are counted down from MaxRetries and not below zero.
LEMMA EndedJob == [FreeJob EXCEPT !.state = "ended"] \in Job
BY RetriesAssumption DEF FreeJob, Job, JobState

\* A job whose failed attempt is retried keeps a count between 0 and MaxRetries.
LEMMA DelayedJob ==
  ASSUME NEW x \in Job, x.left > 0
  PROVE  [x EXCEPT !.state = "delayed", !.left = x.left - 1] \in Job
<1>1. x.left - 1 \in 0..MaxRetries
  BY RetriesAssumption DEF Job
<1> QED
  BY <1>1 DEF Job, JobState

\* However RQ disposes of a failed attempt, the job table stays well formed.
LEMMA RetryType ==
  ASSUME TypeOK, NEW j \in Jobs, RetryOrGiveUp(j)
  PROVE  job' \in [Jobs -> Job]
<1> DEFINE next == IF job[j].left > 0
                   THEN [job[j] EXCEPT !.state = "delayed", !.left = job[j].left - 1]
                   ELSE [FreeJob EXCEPT !.state = "ended"]
<1>1. next \in Job
  BY EndedJob, DelayedJob DEF TypeOK
<1>2. job' = [job EXCEPT ![j] = next]
  BY DEF RetryOrGiveUp
<1> HIDE DEF next
<1> QED
  BY <1>1, <1>2 DEF TypeOK

\* The worker's steps of an ingest run keep the types.
LEMMA IngestType ==
  ASSUME TypeOK, CarriedDocsExist, WorkerHoldsJob, IngestNext
  PROVE  TypeOK'
<1> USE DEF TypeOK, rowVars, storeVars, reqVars, SetStatus, NetWrite,
        RowState, DocumentStatus, WorkerPC
<1>1. ASSUME NEW j \in Jobs, IngestLoad(j) PROVE TypeOK'
  <2>1. job' \in [Jobs -> Job]
    BY <1>1 DEF IngestLoad, Job, JobState
  <2>2. job[j].doc \in Docs
    BY <1>1 DEF IngestLoad, CarriedDocsExist
  <2> QED
    BY <1>1, <2>1, <2>2 DEF IngestLoad
<1>a. wpc \in IngestPC => wjob \in Jobs /\ wdoc \in Docs
  BY DEF WorkerHoldsJob, CarriedDocsExist, wdoc
<1>2. CASE IngestBegin
  <2>1. wjob \in Jobs /\ wdoc \in Docs
    BY <1>2, <1>a DEF IngestBegin, IngestPC
  <2>2. row' \in [Docs -> RowState] /\ stale' \in [Docs -> BOOLEAN]
    BY <1>2, <2>1 DEF IngestBegin
  <2>3. copies' \in [Docs -> Nat]
    BY <1>2, <2>1 DEF IngestBegin
  <2> QED
    BY <1>2, <2>2, <2>3 DEF IngestBegin
<1>3. CASE IngestExtract
  <2>1. wjob \in Jobs /\ wdoc \in Docs
    BY <1>3, <1>a DEF IngestExtract, IngestPC
  <2> QED
    BY <1>3, <2>1 DEF IngestExtract
<1>4. CASE IngestStore
  <2>1. wjob \in Jobs /\ wdoc \in Docs
    BY <1>4, <1>a DEF IngestStore, IngestPC
  <2>2. row' \in [Docs -> RowState] /\ stale' \in [Docs -> BOOLEAN]
    BY <1>4, <2>1 DEF IngestStore
  <2>3. copies' \in [Docs -> Nat]
    BY <1>4, <2>1 DEF IngestStore
  <2> QED
    BY <1>4, <2>2, <2>3 DEF IngestStore
<1>5. CASE IngestAck
  <2>1. job' \in [Jobs -> Job]
    BY <1>5, EndedJob DEF IngestAck
  <2>2. wjob \in Jobs /\ wdoc \in Docs
    BY <1>5, <1>a DEF IngestAck, IngestPC
  <2> QED
    BY <1>5, <2>1, <2>2 DEF IngestAck, Idle
<1>6. CASE IngestFail
  BY <1>6, <1>a DEF IngestFail, IngestPC
<1>7. CASE AttemptFailed
  <2>1. job' \in [Jobs -> Job]
    BY <1>7, <1>a, RetryType DEF AttemptFailed, IngestPC
  <2> QED
    BY <1>7, <2>1 DEF AttemptFailed, FailureCallback, Idle
<1> QED
  BY <1>1, <1>2, <1>3, <1>4, <1>5, <1>6, <1>7 DEF IngestNext

\* So do the cleanup, RQ's own steps, the browser, time and a crash.
LEMMA OtherType ==
  ASSUME TypeOK, WorkerHoldsJob,
         \/ \E d \in Docs : \/ \E content \in {"good", "bad"} : BrowserPut(d, content)
                            \/ UrlExpires(d) \/ GoesStale(d)
         \/ CleanupNext
         \/ RqNext
         \/ Crash
  PROVE  TypeOK'
<1> USE DEF TypeOK, rowVars, storeVars, workerVars, reqVars, SetStatus, RowState,
        DocumentStatus, WorkerPC
<1>1. ASSUME NEW d \in Docs, NEW content \in {"good", "bad"}, BrowserPut(d, content)
      PROVE  TypeOK'
  BY <1>1 DEF BrowserPut
<1>2. ASSUME NEW d \in Docs, UrlExpires(d) PROVE TypeOK'
  BY <1>2 DEF UrlExpires
<1>3. ASSUME NEW d \in Docs, GoesStale(d) PROVE TypeOK'
  BY <1>3 DEF GoesStale
<1>4. CASE CleanupSelect
  BY <1>4 DEF CleanupSelect, CleanupFailed, StaleIn
<1>5. CASE CleanupPurge
  BY <1>5 DEF CleanupPurge, CleanupFailed, StaleIn
<1>6. CASE CleanupCommit
  <2>1. /\ row' \in [Docs -> RowState] /\ stale' \in [Docs -> BOOLEAN]
        /\ batch' \in SUBSET Docs
    BY <1>6 DEF CleanupCommit, CleanupFailed
  <2>2. wpc' = "idle" /\ sweep' \in {sweep, "off"}
    BY <1>6 DEF CleanupCommit, CleanupFailed
  <2>3. UNCHANGED <<storeVars, job, wjob, loaded, reqVars, late>>
    BY <1>6 DEF CleanupCommit
  <2> QED
    BY <2>1, <2>2, <2>3
<1>7. ASSUME NEW j \in Jobs, AbandonedFailed(j) PROVE TypeOK'
  BY <1>7, RetryType DEF AbandonedFailed, FailureCallback
<1>8. ASSUME NEW j \in Jobs, RetryDue(j) PROVE TypeOK'
  <2>1. job' \in [Jobs -> Job]
    BY <1>8 DEF RetryDue, Job, JobState
  <2> QED
    BY <1>8, <2>1 DEF RetryDue
<1>9. CASE CleanupAbandoned
  BY <1>9 DEF CleanupAbandoned
<1>10. CASE Crash
  <2>1. job' \in [Jobs -> Job]
    BY <1>10 DEF Crash, Job, JobState
  <2> QED
    BY <1>10, <2>1 DEF Crash, Idle
<1> QED
  BY <1>1, <1>2, <1>3, <1>4, <1>5, <1>6, <1>7, <1>8, <1>9, <1>10
     DEF CleanupNext, RqNext

\* The requests of the API keep the invariant.
LEMMA RequestInv ==
  ASSUME IInv, TypeOK', NEW r \in Reqs, RequestNext(r)
  PROVE  IInv'
<1> USE DEF IInv, TypeOK, rowVars, storeVars, workerVars, reqVars, SetStatus, Goto, Done,
        Idle, Live, DocumentStatus
<1>1. CASE CountForUpload(r)
  <2>1. CarriedDocsExist'
    BY <1>1, NoDocAssumption DEF CarriedDocsExist, CountForUpload
  <2> QED
    BY <1>1, <2>1 DEF WorkerHoldsJob, PendingCopies, RunInv, SweepInv,
       ReadyHasChunks, SurplusOnlyFromLateConfirms, NoChunksWithoutIngest,
       CountForUpload, wdoc
<1>2. ASSUME NEW d \in Docs, InitiateInsert(r, d)
      PROVE  IInv'
  <2>1. CarriedDocsExist'
    BY <1>2, NoDocAssumption DEF CarriedDocsExist, InitiateInsert
  <2>2. PendingCopies'
    BY <1>2 DEF PendingCopies, InitiateInsert
  <2>3. RunInv'
    BY <1>2 DEF RunInv, CarriedDocsExist, WorkerHoldsJob, IngestPC, wdoc,
       InitiateInsert
  <2>4. SweepInv'
    BY <1>2 DEF SweepInv, InitiateInsert
  <2>5. ReadyHasChunks'
    BY <1>2 DEF ReadyHasChunks, InitiateInsert
  <2>6. NoChunksWithoutIngest'
    BY <1>2 DEF NoChunksWithoutIngest, InitiateInsert
  <2> QED
    BY <1>2, <2>1, <2>2, <2>3, <2>4, <2>5, <2>6 DEF WorkerHoldsJob,
       SurplusOnlyFromLateConfirms, InitiateInsert
<1>3. ASSUME NEW d \in Docs, UploadStore(r, d)
      PROVE  IInv'
  <2>1. CarriedDocsExist'
    BY <1>3, NoDocAssumption DEF CarriedDocsExist, UploadStore
  <2>2. PendingCopies'
    BY <1>3 DEF PendingCopies, NoChunksWithoutIngest, UploadStore
  <2>3. RunInv'
    BY <1>3 DEF RunInv, CarriedDocsExist, WorkerHoldsJob, IngestPC, wdoc,
       UploadStore
  <2>4. SweepInv'
    BY <1>3 DEF SweepInv, UploadStore
  <2>5. ReadyHasChunks'
    BY <1>3 DEF ReadyHasChunks, UploadStore
  <2>6. NoChunksWithoutIngest'
    BY <1>3 DEF NoChunksWithoutIngest, UploadStore
  <2> QED
    BY <1>3, <2>1, <2>2, <2>3, <2>4, <2>5, <2>6 DEF WorkerHoldsJob,
       SurplusOnlyFromLateConfirms, UploadStore
<1>4. ASSUME NEW d \in Docs, ConfirmCheck(r, d)
      PROVE  IInv'
  <2>1. CarriedDocsExist'
    BY <1>4 DEF CarriedDocsExist, ConfirmCheck, DeleteObjectBestEffort
  <2> QED
    BY <1>4, <2>1 DEF WorkerHoldsJob, PendingCopies, RunInv, SweepInv,
       ReadyHasChunks, SurplusOnlyFromLateConfirms, NoChunksWithoutIngest,
       ConfirmCheck, wdoc
<1>5. ASSUME NEW d \in Docs, RetryCheck(r, d)
      PROVE  IInv'
  <2>1. CarriedDocsExist'
    BY <1>5 DEF CarriedDocsExist, RetryCheck
  <2> QED
    BY <1>5, <2>1 DEF WorkerHoldsJob, PendingCopies, RunInv, SweepInv,
       ReadyHasChunks, SurplusOnlyFromLateConfirms, NoChunksWithoutIngest,
       RetryCheck, wdoc
<1>6. ASSUME NEW d \in Docs, DeleteObject(r, d)
      PROVE  IInv'
  <2>1. CarriedDocsExist'
    BY <1>6 DEF CarriedDocsExist, DeleteObject
  <2> QED
    BY <1>6, <2>1 DEF WorkerHoldsJob, PendingCopies, RunInv, SweepInv,
       ReadyHasChunks, SurplusOnlyFromLateConfirms, NoChunksWithoutIngest,
       DeleteObject, wdoc
<1>7. CASE EnqueueUpload(r)
  <2>1. CarriedDocsExist'
    BY <1>7, NoDocAssumption DEF CarriedDocsExist, EnqueueUpload, EnqueueReturned,
       EnqueueRaised, DeleteObjectBestEffort, Enqueue
  <2>2. WorkerHoldsJob'
    BY <1>7 DEF WorkerHoldsJob, IngestPC, EnqueueUpload, EnqueueReturned,
       EnqueueRaised, DeleteObjectBestEffort, Enqueue
  <2>3. RunInv'
    BY <1>7 DEF RunInv, WorkerHoldsJob, IngestPC, wdoc, EnqueueUpload,
       EnqueueReturned, EnqueueRaised, DeleteObjectBestEffort, Enqueue
  <2> QED
    BY <1>7, <2>1, <2>2, <2>3 DEF PendingCopies, SweepInv, ReadyHasChunks,
       SurplusOnlyFromLateConfirms, NoChunksWithoutIngest, EnqueueUpload
<1>8. CASE ConfirmCommit(r)
  <2>1. CarriedDocsExist'
    BY <1>8, NoDocAssumption DEF CarriedDocsExist, ConfirmCommit
  <2>2. PendingCopies'
    BY <1>8 DEF PendingCopies, SurplusOnlyFromLateConfirms, NoChunksWithoutIngest,
       ConfirmCommit
  <2>3. RunInv'
    BY <1>8 DEF RunInv, CarriedDocsExist, WorkerHoldsJob, NoChunksWithoutIngest,
       SurplusOnlyFromLateConfirms, IngestPC, wdoc, ConfirmCommit
  <2>4. SweepInv'
    BY <1>8 DEF SweepInv, ConfirmCommit
  <2>5. ReadyHasChunks'
    BY <1>8 DEF ReadyHasChunks, ConfirmCommit
  <2>6. SurplusOnlyFromLateConfirms'
    BY <1>8 DEF SurplusOnlyFromLateConfirms, ConfirmCommit
  <2>7. NoChunksWithoutIngest'
    BY <1>8 DEF NoChunksWithoutIngest, ConfirmCommit
  <2> QED
    BY <1>8, <2>1, <2>2, <2>3, <2>4, <2>5, <2>6, <2>7 DEF WorkerHoldsJob,
       ConfirmCommit
<1>9. CASE EnqueueConfirm(r)
  <2>1. CarriedDocsExist'
    BY <1>9, NoDocAssumption DEF CarriedDocsExist, EnqueueConfirm,
       EnqueueReturned, EnqueueRaised, Enqueue
  <2>2. WorkerHoldsJob'
    BY <1>9 DEF WorkerHoldsJob, IngestPC, EnqueueConfirm, EnqueueReturned,
       EnqueueRaised, Enqueue
  <2>3. RunInv'
    BY <1>9 DEF RunInv, WorkerHoldsJob, IngestPC, wdoc, EnqueueConfirm,
       EnqueueReturned, EnqueueRaised, Enqueue
  <2> QED
    BY <1>9, <2>1, <2>2, <2>3 DEF PendingCopies, SweepInv, ReadyHasChunks,
       SurplusOnlyFromLateConfirms, NoChunksWithoutIngest, EnqueueConfirm
<1>10. CASE WriteFailed(r)
  <2>1. CarriedDocsExist'
    BY <1>10, NoDocAssumption DEF CarriedDocsExist, WriteFailed
  <2>2. PendingCopies'
    BY <1>10 DEF PendingCopies, WriteFailed
  <2>3. RunInv'
    BY <1>10 DEF RunInv, CarriedDocsExist, WorkerHoldsJob, IngestPC, wdoc,
       WriteFailed
  <2>4. SweepInv'
    BY <1>10 DEF SweepInv, WriteFailed
  <2>5. ReadyHasChunks'
    BY <1>10 DEF ReadyHasChunks, WriteFailed
  <2>6. NoChunksWithoutIngest'
    BY <1>10 DEF NoChunksWithoutIngest, WriteFailed
  <2> QED
    BY <1>10, <2>1, <2>2, <2>3, <2>4, <2>5, <2>6 DEF WorkerHoldsJob,
       SurplusOnlyFromLateConfirms, WriteFailed
<1>11. CASE RetryCommit(r)
  <2>1. CarriedDocsExist'
    BY <1>11, NoDocAssumption DEF CarriedDocsExist, RetryCommit
  <2>2. PendingCopies'
    BY <1>11 DEF PendingCopies, RetryCommit
  <2>3. RunInv'
    BY <1>11 DEF RunInv, CarriedDocsExist, WorkerHoldsJob, IngestPC, wdoc,
       RetryCommit
  <2>4. SweepInv'
    BY <1>11 DEF SweepInv, RetryCommit
  <2>5. ReadyHasChunks'
    BY <1>11 DEF ReadyHasChunks, RetryCommit
  <2>6. NoChunksWithoutIngest'
    BY <1>11 DEF NoChunksWithoutIngest, RetryCommit
  <2> QED
    BY <1>11, <2>1, <2>2, <2>3, <2>4, <2>5, <2>6 DEF WorkerHoldsJob,
       SurplusOnlyFromLateConfirms, RetryCommit
<1>12. CASE EnqueueRetry(r)
  <2>1. CarriedDocsExist'
    BY <1>12, NoDocAssumption DEF CarriedDocsExist, EnqueueRetry, EnqueueReturned,
       EnqueueRaised, Enqueue
  <2>2. WorkerHoldsJob'
    BY <1>12 DEF WorkerHoldsJob, IngestPC, EnqueueRetry, EnqueueReturned,
       EnqueueRaised, Enqueue
  <2>3. RunInv'
    BY <1>12 DEF RunInv, WorkerHoldsJob, IngestPC, wdoc, EnqueueRetry,
       EnqueueReturned, EnqueueRaised, Enqueue
  <2> QED
    BY <1>12, <2>1, <2>2, <2>3 DEF PendingCopies, SweepInv, ReadyHasChunks,
       SurplusOnlyFromLateConfirms, NoChunksWithoutIngest, EnqueueRetry
<1>13. CASE DeleteRow(r)
  <2>1. CarriedDocsExist'
    BY <1>13, NoDocAssumption DEF CarriedDocsExist, DeleteRow
  <2>2. PendingCopies'
    BY <1>13 DEF PendingCopies, DeleteRow
  <2>3. RunInv'
    BY <1>13 DEF RunInv, IngestPC, wdoc, DeleteRow
  <2>4. SweepInv'
    BY <1>13 DEF SweepInv, DeleteRow
  <2>5. ReadyHasChunks'
    BY <1>13 DEF ReadyHasChunks, DeleteRow
  <2>6. SurplusOnlyFromLateConfirms'
    BY <1>13 DEF SurplusOnlyFromLateConfirms, DeleteRow
  <2>7. NoChunksWithoutIngest'
    BY <1>13 DEF NoChunksWithoutIngest, DeleteRow
  <2> QED
    BY <1>13, <2>1, <2>2, <2>3, <2>4, <2>5, <2>6, <2>7 DEF WorkerHoldsJob,
       DeleteRow
<1>14. CASE Abort(r)
  <2>1. CarriedDocsExist'
    BY <1>14, NoDocAssumption DEF CarriedDocsExist, Abort
  <2> QED
    BY <1>14, <2>1 DEF WorkerHoldsJob, PendingCopies, RunInv, SweepInv,
       ReadyHasChunks, SurplusOnlyFromLateConfirms, NoChunksWithoutIngest, Abort,
       wdoc
<1> QED
  BY <1>1, <1>2, <1>3, <1>4, <1>5, <1>6, <1>7, <1>8, <1>9, <1>10, <1>11, <1>12,
     <1>13, <1>14 DEF RequestNext

\* So does the worker in an ingest run.
LEMMA IngestInv ==
  ASSUME IInv, TypeOK', IngestNext
  PROVE  IInv'
<1> USE DEF IInv, TypeOK, rowVars, storeVars, workerVars, reqVars, SetStatus, Goto, Done,
        Idle, Live, DocumentStatus
<1>1. ASSUME NEW j \in Jobs, IngestLoad(j)
      PROVE  IInv'
  <2>1. CarriedDocsExist'
    BY <1>1 DEF CarriedDocsExist, IngestLoad
  <2>2. WorkerHoldsJob'
    BY <1>1 DEF WorkerHoldsJob, IngestPC, IngestLoad
  <2>3. RunInv'
    BY <1>1 DEF RunInv, CarriedDocsExist, NoChunksWithoutIngest, PendingCopies,
       IngestPC, wdoc, IngestLoad
  <2>4. SweepInv'
    BY <1>1 DEF SweepInv, IngestLoad
  <2> QED
    BY <1>1, <2>1, <2>2, <2>3, <2>4 DEF PendingCopies, ReadyHasChunks,
       SurplusOnlyFromLateConfirms, NoChunksWithoutIngest, IngestLoad
<1>2. CASE IngestBegin
  <2>1. CarriedDocsExist'
    BY <1>2 DEF CarriedDocsExist, IngestBegin, wdoc, NetWrite
  <2>2. WorkerHoldsJob'
    BY <1>2 DEF WorkerHoldsJob, IngestPC, IngestBegin, wdoc, NetWrite
  <2>3. PendingCopies'
    BY <1>2 DEF PendingCopies, IngestBegin, wdoc, NetWrite
  <2>4. RunInv'
    BY <1>2 DEF RunInv, CarriedDocsExist, WorkerHoldsJob, IngestPC, wdoc,
       IngestBegin, NetWrite
  <2>5. SweepInv'
    BY <1>2 DEF SweepInv, IngestBegin, wdoc, NetWrite
  <2>6. ReadyHasChunks'
    BY <1>2 DEF ReadyHasChunks, RunInv, IngestPC, IngestBegin, wdoc, NetWrite
  <2>7. SurplusOnlyFromLateConfirms'
    BY <1>2 DEF SurplusOnlyFromLateConfirms, IngestBegin, wdoc, NetWrite
  <2>8. NoChunksWithoutIngest'
    BY <1>2 DEF NoChunksWithoutIngest, IngestBegin, wdoc, NetWrite
  <2> QED
    BY <2>1, <2>2, <2>3, <2>4, <2>5, <2>6, <2>7, <2>8
<1>3. CASE IngestExtract
  <2>1. WorkerHoldsJob'
    BY <1>3 DEF WorkerHoldsJob, IngestPC, IngestExtract, wdoc
  <2>2. RunInv'
    BY <1>3 DEF RunInv, IngestPC, wdoc, IngestExtract
  <2>3. SweepInv'
    BY <1>3 DEF SweepInv, IngestExtract, wdoc
  <2> QED
    BY <1>3, <2>1, <2>2, <2>3 DEF CarriedDocsExist, PendingCopies, ReadyHasChunks,
       SurplusOnlyFromLateConfirms, NoChunksWithoutIngest, IngestExtract
<1>4. CASE IngestStore
  <2>1. CarriedDocsExist'
    BY <1>4 DEF CarriedDocsExist, IngestStore, wdoc, NetWrite
  <2>2. WorkerHoldsJob'
    BY <1>4 DEF WorkerHoldsJob, IngestPC, IngestStore, wdoc, NetWrite
  <2>3. PendingCopies'
    BY <1>4 DEF PendingCopies, RunInv, IngestStore, wdoc, NetWrite
  <2>4. RunInv'
    BY <1>4 DEF RunInv, IngestPC, wdoc, IngestStore, NetWrite
  <2>5. SweepInv'
    BY <1>4 DEF SweepInv, IngestStore, wdoc, NetWrite
  <2>6. ReadyHasChunks'
    BY <1>4 DEF ReadyHasChunks, IngestStore, wdoc, NetWrite
  <2>7. SurplusOnlyFromLateConfirms'
    BY <1>4 DEF SurplusOnlyFromLateConfirms, RunInv, IngestStore, wdoc, NetWrite
  <2>8. NoChunksWithoutIngest'
    BY <1>4 DEF NoChunksWithoutIngest, CarriedDocsExist, WorkerHoldsJob, RunInv,
       SurplusOnlyFromLateConfirms, IngestStore, wdoc, NetWrite
  <2> QED
    BY <2>1, <2>2, <2>3, <2>4, <2>5, <2>6, <2>7, <2>8
<1>5. CASE IngestAck
  <2>1. CarriedDocsExist'
    BY <1>5, NoDocAssumption DEF CarriedDocsExist, IngestAck, FreeJob
  <2>2. WorkerHoldsJob'
    BY <1>5 DEF WorkerHoldsJob, IngestPC, IngestAck, FreeJob
  <2>3. RunInv'
    BY <1>5 DEF RunInv, IngestPC, wdoc, IngestAck, FreeJob
  <2>4. SweepInv'
    BY <1>5 DEF SweepInv, IngestAck, FreeJob
  <2> QED
    BY <1>5, <2>1, <2>2, <2>3, <2>4 DEF PendingCopies, ReadyHasChunks,
       SurplusOnlyFromLateConfirms, NoChunksWithoutIngest, IngestAck
<1>6. CASE IngestFail
  <2>1. CarriedDocsExist'
    BY <1>6 DEF CarriedDocsExist, IngestFail, wdoc, NetWrite
  <2>2. WorkerHoldsJob'
    BY <1>6 DEF WorkerHoldsJob, IngestPC, IngestFail, wdoc, NetWrite
  <2>3. PendingCopies'
    BY <1>6 DEF PendingCopies, IngestFail, wdoc, NetWrite
  <2>4. RunInv'
    BY <1>6 DEF RunInv, IngestPC, wdoc, IngestFail, NetWrite
  <2>5. SweepInv'
    BY <1>6 DEF SweepInv, IngestFail, wdoc, NetWrite
  <2>6. ReadyHasChunks'
    BY <1>6 DEF ReadyHasChunks, IngestFail, wdoc, NetWrite
  <2>7. NoChunksWithoutIngest'
    BY <1>6 DEF NoChunksWithoutIngest, IngestFail, wdoc, NetWrite
  <2> QED
    BY <1>6, <2>1, <2>2, <2>3, <2>4, <2>5, <2>6, <2>7 DEF
       SurplusOnlyFromLateConfirms, IngestFail
<1>7. CASE AttemptFailed
  <2>1. CarriedDocsExist'
    BY <1>7, NoJobAssumption, NoDocAssumption DEF CarriedDocsExist,
       WorkerHoldsJob, AttemptFailed, FailureCallback, RetryOrGiveUp, FreeJob
  <2>2. WorkerHoldsJob'
    BY <1>7 DEF WorkerHoldsJob, IngestPC, AttemptFailed, FailureCallback,
       RetryOrGiveUp, FreeJob
  <2>3. PendingCopies'
    BY <1>7 DEF PendingCopies, AttemptFailed, FailureCallback, RetryOrGiveUp,
       FreeJob
  <2>4. RunInv'
    BY <1>7 DEF RunInv, IngestPC, wdoc, AttemptFailed, FailureCallback,
       RetryOrGiveUp, FreeJob
  <2>5. SweepInv'
    BY <1>7 DEF SweepInv, AttemptFailed, FailureCallback, RetryOrGiveUp, FreeJob
  <2>6. ReadyHasChunks'
    BY <1>7 DEF ReadyHasChunks, AttemptFailed, FailureCallback, RetryOrGiveUp,
       FreeJob
  <2>7. NoChunksWithoutIngest'
    BY <1>7 DEF NoChunksWithoutIngest, AttemptFailed, FailureCallback,
       RetryOrGiveUp, FreeJob
  <2> QED
    BY <1>7, <2>1, <2>2, <2>3, <2>4, <2>5, <2>6, <2>7 DEF
       SurplusOnlyFromLateConfirms, AttemptFailed
<1> QED
  BY <1>1, <1>2, <1>3, <1>4, <1>5, <1>6, <1>7 DEF IngestNext

\* And the browser, time, the cleanup, RQ's own steps and a crash.
LEMMA OtherInv ==
  ASSUME IInv, TypeOK',
         \/ \E d \in Docs : \/ \E content \in {"good", "bad"} : BrowserPut(d, content)
                            \/ UrlExpires(d) \/ GoesStale(d)
         \/ CleanupNext
         \/ RqNext
         \/ Crash
  PROVE  IInv'
<1> USE DEF IInv, TypeOK, rowVars, storeVars, workerVars, reqVars, SetStatus, Goto, Done,
        Idle, Live, DocumentStatus
<1>1. ASSUME NEW d \in Docs, NEW content \in {"good", "bad"}, BrowserPut(d, content)
      PROVE  IInv'
  <2> QED
    BY <1>1 DEF CarriedDocsExist, WorkerHoldsJob, PendingCopies, RunInv, SweepInv,
       ReadyHasChunks, SurplusOnlyFromLateConfirms, NoChunksWithoutIngest,
       BrowserPut, wdoc
<1>2. ASSUME NEW d \in Docs, UrlExpires(d)
      PROVE  IInv'
  <2> QED
    BY <1>2 DEF CarriedDocsExist, WorkerHoldsJob, PendingCopies, RunInv, SweepInv,
       ReadyHasChunks, SurplusOnlyFromLateConfirms, NoChunksWithoutIngest,
       UrlExpires, wdoc
<1>3. ASSUME NEW d \in Docs, GoesStale(d)
      PROVE  IInv'
  <2> QED
    BY <1>3 DEF CarriedDocsExist, WorkerHoldsJob, PendingCopies, RunInv, SweepInv,
       ReadyHasChunks, SurplusOnlyFromLateConfirms, NoChunksWithoutIngest,
       GoesStale, wdoc
<1>4. CASE CleanupSelect
  <2>1. WorkerHoldsJob'
    BY <1>4 DEF WorkerHoldsJob, IngestPC, CleanupSelect, CleanupFailed, StaleIn
  <2>2. RunInv'
    BY <1>4 DEF RunInv, IngestPC, wdoc, CleanupSelect, CleanupFailed, StaleIn
  <2>3. SweepInv'
    BY <1>4 DEF SweepInv, CleanupSelect, CleanupFailed, StaleIn
  <2> QED
    BY <1>4, <2>1, <2>2, <2>3 DEF CarriedDocsExist, PendingCopies, ReadyHasChunks,
       SurplusOnlyFromLateConfirms, NoChunksWithoutIngest, CleanupSelect
<1>5. CASE CleanupPurge
  <2>1. WorkerHoldsJob'
    BY <1>5 DEF WorkerHoldsJob, IngestPC, CleanupPurge, CleanupFailed, StaleIn
  <2>2. RunInv'
    BY <1>5 DEF RunInv, IngestPC, wdoc, CleanupPurge, CleanupFailed, StaleIn
  <2>3. SweepInv'
    BY <1>5 DEF SweepInv, CleanupPurge, CleanupFailed, StaleIn
  <2> QED
    BY <1>5, <2>1, <2>2, <2>3 DEF CarriedDocsExist, PendingCopies, ReadyHasChunks,
       SurplusOnlyFromLateConfirms, NoChunksWithoutIngest, CleanupPurge
<1>6. CASE CleanupCommit
  <2>1. CarriedDocsExist'
    BY <1>6 DEF CarriedDocsExist, CleanupCommit
  <2>2. WorkerHoldsJob'
    BY <1>6 DEF WorkerHoldsJob, IngestPC, CleanupCommit, CleanupFailed
  <2>3. PendingCopies'
    BY <1>6 DEF PendingCopies, CleanupCommit
  <2>4. RunInv'
    BY <1>6 DEF RunInv, IngestPC, wdoc, CleanupCommit, CleanupFailed
  <2>5. SweepInv'
    BY <1>6 DEF SweepInv, CleanupCommit, CleanupFailed
  <2>6. ReadyHasChunks'
    BY <1>6 DEF ReadyHasChunks, CleanupCommit
  <2>7. NoChunksWithoutIngest'
    BY <1>6 DEF NoChunksWithoutIngest, CleanupCommit
  <2> QED
    BY <1>6, <2>1, <2>2, <2>3, <2>4, <2>5, <2>6, <2>7 DEF
       SurplusOnlyFromLateConfirms, CleanupCommit
<1>7. ASSUME NEW j \in Jobs, AbandonedFailed(j)
      PROVE  IInv'
  <2>1. CarriedDocsExist'
    BY <1>7, NoDocAssumption DEF CarriedDocsExist, AbandonedFailed,
       FailureCallback, RetryOrGiveUp, FreeJob
  <2>2. WorkerHoldsJob'
    BY <1>7 DEF WorkerHoldsJob, IngestPC, AbandonedFailed, FailureCallback,
       RetryOrGiveUp, FreeJob
  <2>3. PendingCopies'
    BY <1>7 DEF PendingCopies, AbandonedFailed, FailureCallback, RetryOrGiveUp,
       FreeJob
  <2>4. RunInv'
    BY <1>7 DEF RunInv, IngestPC, wdoc, AbandonedFailed, FailureCallback,
       RetryOrGiveUp, FreeJob
  <2>5. SweepInv'
    BY <1>7 DEF SweepInv, AbandonedFailed, FailureCallback, RetryOrGiveUp, FreeJob
  <2>6. ReadyHasChunks'
    BY <1>7 DEF ReadyHasChunks, AbandonedFailed, FailureCallback, RetryOrGiveUp,
       FreeJob
  <2>7. NoChunksWithoutIngest'
    BY <1>7 DEF NoChunksWithoutIngest, AbandonedFailed, FailureCallback,
       RetryOrGiveUp, FreeJob
  <2> QED
    BY <1>7, <2>1, <2>2, <2>3, <2>4, <2>5, <2>6, <2>7 DEF
       SurplusOnlyFromLateConfirms, AbandonedFailed
<1>8. ASSUME NEW j \in Jobs, RetryDue(j)
      PROVE  IInv'
  <2>1. CarriedDocsExist'
    BY <1>8 DEF CarriedDocsExist, RetryDue
  <2>2. WorkerHoldsJob'
    BY <1>8 DEF WorkerHoldsJob, IngestPC, RetryDue
  <2>3. RunInv'
    BY <1>8 DEF RunInv, IngestPC, wdoc, RetryDue
  <2> QED
    BY <1>8, <2>1, <2>2, <2>3 DEF PendingCopies, SweepInv, ReadyHasChunks,
       SurplusOnlyFromLateConfirms, NoChunksWithoutIngest, RetryDue
<1>9. CASE CleanupAbandoned
  <2> QED
    BY <1>9 DEF CarriedDocsExist, WorkerHoldsJob, PendingCopies, RunInv, SweepInv,
       ReadyHasChunks, SurplusOnlyFromLateConfirms, NoChunksWithoutIngest,
       CleanupAbandoned, wdoc
<1>10. CASE Crash
  <2>1. CarriedDocsExist'
    BY <1>10 DEF CarriedDocsExist, WorkerHoldsJob, Crash
  <2>2. WorkerHoldsJob'
    BY <1>10 DEF WorkerHoldsJob, IngestPC, Crash
  <2>3. RunInv'
    BY <1>10 DEF RunInv, IngestPC, wdoc, Crash
  <2>4. SweepInv'
    BY <1>10 DEF SweepInv, Crash
  <2> QED
    BY <1>10, <2>1, <2>2, <2>3, <2>4 DEF PendingCopies, ReadyHasChunks,
       SurplusOnlyFromLateConfirms, NoChunksWithoutIngest, Crash
<1> QED
  BY <1>1, <1>2, <1>3, <1>4, <1>5, <1>6, <1>7, <1>8, <1>9, <1>10 DEF CleanupNext,
     RqNext

\* The empty database, queue and bucket satisfy the invariant.
LEMMA InitInv == Init => IInv
<1> SUFFICES ASSUME Init PROVE IInv
  OBVIOUS
<1>1. TypeOK
  BY InitType
<1>2. CarriedDocsExist
  BY NoDocAssumption DEF Init, CarriedDocsExist, FreeJob
<1>3. WorkerHoldsJob /\ RunInv /\ SweepInv
  BY DEF Init, WorkerHoldsJob, RunInv, SweepInv, IngestPC
<1>4. PendingCopies /\ ReadyHasChunks /\ SurplusOnlyFromLateConfirms /\ NoChunksWithoutIngest
  BY DEF Init, PendingCopies, ReadyHasChunks, SurplusOnlyFromLateConfirms,
     NoChunksWithoutIngest
<1> QED
  BY <1>1, <1>2, <1>3, <1>4 DEF IInv

\* Every step of the API, the worker, RQ, the browser and time keeps the invariant.
LEMMA NextInv == IInv /\ [Next]_vars => IInv'
<1> SUFFICES ASSUME IInv, [Next]_vars PROVE IInv'
  OBVIOUS
<1> USE DEF IInv
<1>1. ASSUME NEW r \in Reqs, RequestNext(r) PROVE IInv'
  BY <1>1, RequestType, RequestInv
<1>2. CASE IngestNext
  BY <1>2, IngestType, IngestInv
<1>3. CASE \/ \E d \in Docs : \/ \E content \in {"good", "bad"} : BrowserPut(d, content)
                              \/ UrlExpires(d) \/ GoesStale(d)
           \/ CleanupNext
           \/ RqNext
           \/ Crash
  BY <1>3, OtherType, OtherInv
<1>4. CASE UNCHANGED vars
  BY <1>4 DEF vars, TypeOK, CarriedDocsExist, WorkerHoldsJob, PendingCopies, RunInv, SweepInv,
     ReadyHasChunks, SurplusOnlyFromLateConfirms, NoChunksWithoutIngest, wdoc
<1> QED
  BY <1>1, <1>2, <1>3, <1>4 DEF Next

\* The inductive invariant holds in every reachable state of the pipeline
\* (every operation of DocPipeline keeps it).
THEOREM Invariant == Spec => []IInv
BY InitInv, NextInv, PTL DEF Spec

\* Every variable keeps its type; the retries RQ has left for a job stay between
\* zero and the number given to enqueue (routers/documents.py:73).
THEOREM TypeCorrect == Spec => []TypeOK
<1>1. IInv => TypeOK
  BY DEF IInv
<1> QED
  BY Invariant, <1>1, PTL

\* A READY document always has its chunks (workers/ingest.py:163-172).
THEOREM ReadyAlwaysHasChunks == Spec => []ReadyHasChunks
<1>1. IInv => ReadyHasChunks
  BY DEF IInv
<1> QED
  BY Invariant, <1>1, PTL

\* A document has at most one chunk set more than confirmations that overwrote
\* another one, however often its ingest is retried, crashes or times out
\* (workers/ingest.py:98-103).
THEOREM ChunksOncePerConfirm == Spec => []SurplusOnlyFromLateConfirms
<1>1. IInv => SurplusOnlyFromLateConfirms
  BY DEF IInv
<1> QED
  BY Invariant, <1>1, PTL

\* A deleted document, and one whose upload was not confirmed, has no chunks
\* (models/chunk.py:38-42).
THEOREM NoOrphanedChunks == Spec => []NoChunksWithoutIngest
<1>1. IInv => NoChunksWithoutIngest
  BY DEF IInv
<1> QED
  BY Invariant, <1>1, PTL

\* A request that takes a step moves its own program counter, so a step that
\* leaves the counters alone is not a request's.
LEMMA RequestMoves ==
  ASSUME TypeOK, NEW r \in Reqs, RequestNext(r)
  PROVE  rpc' # rpc
<1> USE DEF TypeOK, Goto, Done
<1>1. CASE CountForUpload(r)
  BY <1>1 DEF CountForUpload
<1>2. ASSUME NEW d \in Docs,
             InitiateInsert(r, d) \/ ConfirmCheck(r, d) \/ RetryCheck(r, d) \/ DeleteObject(r, d)
      PROVE  rpc' # rpc
  BY <1>2 DEF InitiateInsert, ConfirmCheck, RetryCheck, DeleteObject
<1>3. ASSUME NEW d \in Docs, UploadStore(r, d) PROVE rpc' # rpc
  BY <1>3 DEF UploadStore
<1>4. CASE EnqueueUpload(r)
  BY <1>4 DEF EnqueueUpload
<1>5. CASE ConfirmCommit(r) \/ EnqueueConfirm(r)
  BY <1>5 DEF ConfirmCommit, EnqueueConfirm
<1>6. CASE RetryCommit(r) \/ EnqueueRetry(r)
  BY <1>6 DEF RetryCommit, EnqueueRetry
<1>7. CASE WriteFailed(r) \/ DeleteRow(r) \/ Abort(r)
  BY <1>7 DEF WriteFailed, DeleteRow, Abort
<1> QED
  BY <1>1, <1>2, <1>3, <1>4, <1>5, <1>6, <1>7 DEF RequestNext

\* The worker takes READY from a document only as FAILED, at the end of a failed run
\* that had completed the document or had found it READY (workers/ingest.py:78-80,
\* 91-96, 172-193, workers/tasks.py:180-187).
THEOREM OnlyFailedRunsUndoReady == Spec => WorkerKeepsReady
<1>1. IInv /\ [Next]_vars => KeepsReady
  <2> SUFFICES ASSUME IInv, [Next]_vars, NEW d \in Docs,
                      wpc # "idle", rpc' = rpc, row[d] = "READY", row'[d] # "READY"
               PROVE  /\ wpc \in {"fail", "callback"} /\ wdoc = d
                      /\ loaded \in {"none", "READY"}
                      /\ row'[d] = "FAILED"
    BY DEF KeepsReady
  <2> USE DEF IInv, TypeOK, rowVars, SetStatus, NetWrite
  <2>1. ASSUME NEW r \in Reqs, RequestNext(r) PROVE FALSE
    BY <2>1, RequestMoves
  <2>2. ASSUME NEW e \in Docs,
               \/ \E content \in {"good", "bad"} : BrowserPut(e, content)
               \/ UrlExpires(e)
               \/ GoesStale(e)
        PROVE  FALSE
    BY <2>2 DEF BrowserPut, UrlExpires, GoesStale
  <2>3. CASE IngestNext
    <3>1. CASE IngestBegin \/ IngestStore
      BY <3>1 DEF IngestBegin, IngestStore, RunInv
    <3>2. CASE IngestFail
      BY <3>2 DEF IngestFail, RunInv
    <3>3. CASE AttemptFailed
      BY <3>3 DEF AttemptFailed, FailureCallback, RunInv, wdoc
    <3>4. CASE (\E j \in Jobs : IngestLoad(j)) \/ IngestExtract \/ IngestAck
      BY <3>4 DEF IngestLoad, IngestExtract, IngestAck
    <3> QED
      BY <2>3, <3>1, <3>2, <3>3, <3>4 DEF IngestNext
  <2>4. ~ CleanupNext
    <3>1. ~ CleanupCommit
      BY DEF CleanupCommit, SweepInv
    <3>2. ~ (CleanupSelect \/ CleanupPurge)
      BY DEF CleanupSelect, CleanupPurge
    <3> QED
      BY <3>1, <3>2 DEF CleanupNext
  <2>5. ~ (RqNext \/ Crash \/ UNCHANGED vars)
    BY DEF RqNext, CleanupAbandoned, AbandonedFailed, RetryDue, Crash, vars
  <2>6. ~ \E r \in Reqs : RequestNext(r)
    BY <2>1
  <2>7. ~ \E e \in Docs : \/ \E content \in {"good", "bad"} : BrowserPut(e, content)
                         \/ UrlExpires(e) \/ GoesStale(e)
    BY <2>2
  <2> QED
    BY <2>3, <2>4, <2>5, <2>6, <2>7 DEF Next
<1> QED
  BY Invariant, <1>1, PTL DEF Spec, WorkerKeepsReady

\* The object of a READY document goes only on the way to deleting the document,
\* or when its own upload request undoes itself
\* (services/document_service.py:656-662, workers/tasks.py:94-120).
THEOREM ReadyKeepsItsObject == Spec => ReadyObjectOnlyDeletedWithDocument
<1>1. IInv /\ [Next]_vars => ObjectGoesWithDocument
  <2> SUFFICES ASSUME IInv, [Next]_vars, NEW d \in Docs, row[d] = "READY",
                      object[d] # "absent", object'[d] = "absent"
               PROVE  \E r \in Reqs : \/ rdoc'[r] = d /\ rpc'[r] = "delete"
                                      \/ rdoc[r] = d /\ rpc[r] = "enqueue_upload"
    BY DEF ObjectGoesWithDocument
  <2> USE DEF IInv, TypeOK, storeVars, DeleteObjectBestEffort, Goto
  <2>1. ASSUME NEW r \in Reqs, EnqueueUpload(r)
        PROVE  rdoc[r] = d /\ rpc[r] = "enqueue_upload"
    BY <2>1 DEF EnqueueUpload
  <2>2. ASSUME NEW r \in Reqs, NEW e \in Docs, DeleteObject(r, e)
        PROVE  rdoc'[r] = d /\ rpc'[r] = "delete"
    BY <2>2 DEF DeleteObject
  <2>3. ASSUME NEW r \in Reqs, NEW e \in Docs,
               UploadStore(r, e) \/ ConfirmCheck(r, e)
        PROVE  FALSE
    BY <2>3 DEF UploadStore, ConfirmCheck
  <2>4. ASSUME NEW r \in Reqs, NEW e \in Docs,
               InitiateInsert(r, e) \/ RetryCheck(r, e)
        PROVE  FALSE
    BY <2>4 DEF InitiateInsert, RetryCheck
  <2>5. ASSUME NEW r \in Reqs,
               \/ CountForUpload(r) \/ ConfirmCommit(r) \/ EnqueueConfirm(r) \/ WriteFailed(r)
               \/ RetryCommit(r) \/ EnqueueRetry(r) \/ DeleteRow(r) \/ Abort(r)
        PROVE  FALSE
    BY <2>5 DEF CountForUpload, ConfirmCommit, EnqueueConfirm, WriteFailed, RetryCommit,
       EnqueueRetry, DeleteRow, Abort
  <2>6. ASSUME NEW e \in Docs, NEW content \in {"good", "bad"}, BrowserPut(e, content)
        PROVE  FALSE
    BY <2>6 DEF BrowserPut
  <2>7. ASSUME NEW e \in Docs, UrlExpires(e) \/ GoesStale(e) PROVE FALSE
    BY <2>7 DEF UrlExpires, GoesStale
  <2>8. CASE IngestNext
    BY <2>8 DEF IngestNext, IngestLoad, IngestBegin, IngestExtract, IngestStore, IngestAck,
       IngestFail, AttemptFailed
  <2>9. CASE CleanupNext
    <3>1. CASE CleanupPurge
      BY <3>1 DEF CleanupPurge, SweepInv
    <3>2. CASE CleanupSelect \/ CleanupCommit
      BY <3>2 DEF CleanupSelect, CleanupCommit
    <3> QED
      BY <2>9, <3>1, <3>2 DEF CleanupNext
  <2>10. CASE RqNext
    BY <2>10 DEF RqNext, CleanupAbandoned, AbandonedFailed, RetryDue
  <2>11. CASE Crash
    BY <2>11 DEF Crash
  <2>12. CASE UNCHANGED vars
    BY <2>12 DEF vars
  <2>13. ASSUME NEW r \in Reqs, RequestNext(r)
         PROVE  \/ rdoc'[r] = d /\ rpc'[r] = "delete"
                \/ rdoc[r] = d /\ rpc[r] = "enqueue_upload"
    BY <2>13, <2>1, <2>2, <2>3, <2>4, <2>5 DEF RequestNext
  <2> QED
    BY <2>6, <2>7, <2>8, <2>9, <2>10, <2>11, <2>12, <2>13 DEF Next
<1> QED
  BY Invariant, <1>1, PTL DEF Spec, ReadyObjectOnlyDeletedWithDocument
--------------------------------------------------------------------------------
(* The status of a document implements DocLifecycle.                       *)

\* A document some job carries was confirmed, or uploaded through the API.
JobsConfirmed == \A j \in Jobs : job[j].doc \in Docs => row[job[j].doc] # "PENDING_UPLOAD"

\* So was the document of a request that is past its confirmation, or retries.
RequestsConfirmed ==
    \A r \in Reqs :
        rpc[r] \in {"enqueue_upload", "enqueue_confirm", "retry", "enqueue_retry"}
            => row[rdoc[r]] # "PENDING_UPLOAD"

ConfirmedInv == JobsConfirmed /\ RequestsConfirmed

\* What DocLifecycle lets the status of d do, in the variables of the pipeline.
Moves(d) ==
    \/ row'[d] = row[d]
    \/ row[d] = "none" /\ row'[d] \in {"PENDING_UPLOAD", "PENDING", "gone"}
    \/ row[d] \in DocumentStatus /\ row'[d] \in {"PENDING", "FAILED", "gone"}
    \/ row[d] \in DocumentStatus \ {"PENDING_UPLOAD"} /\ row'[d] = "PROCESSING"
    \/ row[d] \in {"PENDING", "PROCESSING", "FAILED"} /\ row'[d] = "READY"

\* A request moves the status of a document as DocLifecycle allows.
LEMMA RequestMovesStatus ==
  ASSUME IInv, ConfirmedInv, NEW r \in Reqs, RequestNext(r), NEW d \in Docs
  PROVE  Moves(d)
<1> USE DEF IInv, TypeOK, rowVars, SetStatus, Live, Moves, RowState, DocumentStatus
<1>1. ASSUME NEW e \in Docs, InitiateInsert(r, e) PROVE Moves(d)
  BY <1>1 DEF InitiateInsert
<1>2. ASSUME NEW e \in Docs, UploadStore(r, e) PROVE Moves(d)
  BY <1>2 DEF UploadStore
<1>3. ASSUME NEW e \in Docs, ConfirmCheck(r, e) \/ RetryCheck(r, e) \/ DeleteObject(r, e)
      PROVE  Moves(d)
  BY <1>3 DEF ConfirmCheck, RetryCheck, DeleteObject
<1>4. CASE ConfirmCommit(r) \/ WriteFailed(r)
  BY <1>4 DEF ConfirmCommit, WriteFailed
<1>5. CASE RetryCommit(r)
  BY <1>5 DEF RetryCommit, ConfirmedInv, RequestsConfirmed
<1>6. CASE DeleteRow(r)
  <2>1. rdoc[r] \in Docs /\ row[rdoc[r]] # "none"
    BY <1>6 DEF DeleteRow, CarriedDocsExist
  <2> QED
    BY <1>6, <2>1 DEF DeleteRow
<1>7. CASE CountForUpload(r) \/ EnqueueUpload(r) \/ EnqueueConfirm(r) \/ EnqueueRetry(r)
           \/ Abort(r)
  BY <1>7 DEF CountForUpload, EnqueueUpload, EnqueueConfirm, EnqueueRetry, Abort
<1> QED
  BY <1>1, <1>2, <1>3, <1>4, <1>5, <1>6, <1>7 DEF RequestNext

\* So does the worker in an ingest run, whose document was confirmed.
LEMMA IngestMovesStatus ==
  ASSUME IInv, ConfirmedInv, IngestNext, NEW d \in Docs
  PROVE  Moves(d)
<1> USE DEF IInv, TypeOK, rowVars, SetStatus, NetWrite, Live, Moves, RowState, DocumentStatus,
        IngestPC
<1>1. wpc \in IngestPC => wjob \in Jobs /\ wdoc \in Docs /\ row[wdoc] # "PENDING_UPLOAD"
  BY DEF WorkerHoldsJob, CarriedDocsExist, ConfirmedInv, JobsConfirmed, wdoc
<1>2. CASE (\E j \in Jobs : IngestLoad(j)) \/ IngestExtract \/ IngestAck
  BY <1>2 DEF IngestLoad, IngestExtract, IngestAck
<1>3. CASE IngestBegin
  BY <1>1, <1>3 DEF IngestBegin
<1>4. CASE IngestStore
  BY <1>1, <1>4 DEF IngestStore, RunInv
<1>5. CASE IngestFail
  BY <1>1, <1>5 DEF IngestFail
<1>6. CASE AttemptFailed
  BY <1>1, <1>6 DEF AttemptFailed, FailureCallback, wdoc
<1> QED
  BY <1>2, <1>3, <1>4, <1>5, <1>6 DEF IngestNext

\* So does every step of the pipeline.
LEMMA StatusMoves ==
  ASSUME IInv, ConfirmedInv, [Next]_vars, NEW d \in Docs
  PROVE  Moves(d)
<1>1. ASSUME NEW r \in Reqs, RequestNext(r) PROVE Moves(d)
  BY <1>1, RequestMovesStatus
<1>2. ASSUME NEW e \in Docs, NEW content \in {"good", "bad"}, BrowserPut(e, content)
      PROVE  Moves(d)
  BY <1>2 DEF BrowserPut, rowVars, Moves
<1>3. ASSUME NEW e \in Docs, UrlExpires(e) \/ GoesStale(e) PROVE Moves(d)
  BY <1>3 DEF UrlExpires, GoesStale, rowVars, Moves
<1>4. CASE IngestNext
  BY <1>4, IngestMovesStatus
<1>5. CASE CleanupNext
  <2>1. CASE CleanupCommit
    BY <2>1 DEF CleanupCommit, rowVars, Moves, Live
  <2>2. CASE CleanupSelect \/ CleanupPurge
    BY <2>2 DEF CleanupSelect, CleanupPurge, rowVars, Moves
  <2> QED
    BY <1>5, <2>1, <2>2 DEF CleanupNext
<1>6. ASSUME NEW j \in Jobs, AbandonedFailed(j) PROVE Moves(d)
  BY <1>6 DEF AbandonedFailed, FailureCallback, SetStatus, rowVars, Moves, IInv, TypeOK, Live
<1>7. ASSUME NEW j \in Jobs, RetryDue(j) PROVE Moves(d)
  BY <1>7 DEF RetryDue, rowVars, Moves
<1>8. CASE CleanupAbandoned \/ Crash \/ UNCHANGED vars
  BY <1>8 DEF CleanupAbandoned, Crash, vars, rowVars, Moves
<1> QED
  BY <1>1, <1>2, <1>3, <1>4, <1>5, <1>6, <1>7, <1>8 DEF Next, RqNext

\* The documents of jobs and requests stay confirmed: only a confirmed one is
\* enqueued or retried, and no row becomes unconfirmed.
LEMMA RequestConfirmed ==
  ASSUME IInv, ConfirmedInv, NEW r \in Reqs, RequestNext(r)
  PROVE  ConfirmedInv'
<1>1. \A d \in Docs : row[d] \notin {"none", "PENDING_UPLOAD"} => row'[d] # "PENDING_UPLOAD"
  BY RequestMovesStatus DEF Moves, DocumentStatus
<1>2. \A d \in Docs : row[d] # "none" /\ row[d] # "PENDING_UPLOAD" => row'[d] # "PENDING_UPLOAD"
  BY <1>1
<1> USE DEF IInv, TypeOK, ConfirmedInv, JobsConfirmed, RequestsConfirmed, CarriedDocsExist,
        rowVars, SetStatus, Goto, Done
<1>3. CASE CountForUpload(r)
  BY <1>3 DEF CountForUpload
<1>4. ASSUME NEW e \in Docs, InitiateInsert(r, e) PROVE ConfirmedInv'
  BY <1>2, <1>4 DEF InitiateInsert
<1>5. ASSUME NEW e \in Docs, UploadStore(r, e) PROVE ConfirmedInv'
  BY <1>2, <1>5 DEF UploadStore
<1>6. ASSUME NEW e \in Docs, ConfirmCheck(r, e) \/ RetryCheck(r, e) \/ DeleteObject(r, e)
      PROVE  ConfirmedInv'
  BY <1>6 DEF ConfirmCheck, RetryCheck, DeleteObject
<1>7. CASE EnqueueUpload(r)
  <2>1. JobsConfirmed'
    BY <1>7 DEF EnqueueUpload, EnqueueReturned, EnqueueRaised, Enqueue
  <2>2. RequestsConfirmed'
    BY <1>7 DEF EnqueueUpload
  <2> QED
    BY <2>1, <2>2
<1>8. CASE ConfirmCommit(r)
  BY <1>2, <1>8 DEF ConfirmCommit
<1>9. CASE EnqueueConfirm(r)
  <2>1. JobsConfirmed'
    BY <1>9 DEF EnqueueConfirm, EnqueueReturned, EnqueueRaised, Enqueue
  <2>2. RequestsConfirmed'
    BY <1>9 DEF EnqueueConfirm
  <2> QED
    BY <2>1, <2>2
<1>10. CASE WriteFailed(r)
  BY <1>2, <1>10 DEF WriteFailed
<1>11. CASE RetryCommit(r)
  BY <1>2, <1>11 DEF RetryCommit
<1>12. CASE EnqueueRetry(r)
  <2>1. JobsConfirmed'
    BY <1>12 DEF EnqueueRetry, EnqueueReturned, EnqueueRaised, Enqueue
  <2>2. RequestsConfirmed'
    BY <1>12 DEF EnqueueRetry
  <2> QED
    BY <2>1, <2>2
<1>13. CASE DeleteRow(r)
  BY <1>2, <1>13 DEF DeleteRow
<1>14. CASE Abort(r)
  BY <1>14 DEF Abort
<1> QED
  BY <1>3, <1>4, <1>5, <1>6, <1>7, <1>8, <1>9, <1>10, <1>11, <1>12, <1>13, <1>14
     DEF RequestNext

\* A job keeps its document until it ends; no other step gives a job or a request
\* one.
LEMMA JobsKeepDocs ==
  ASSUME IInv, [Next]_vars, ~\E r \in Reqs : RequestNext(r)
  PROVE  /\ \A j \in Jobs : job'[j].doc = job[j].doc \/ job'[j].doc = NoDoc
         /\ UNCHANGED reqVars
<1> USE DEF IInv, TypeOK, Job, reqVars
<1>1. ASSUME NEW e \in Docs, NEW content \in {"good", "bad"}, BrowserPut(e, content)
      PROVE  UNCHANGED <<job, reqVars>>
  BY <1>1 DEF BrowserPut
<1>2. ASSUME NEW e \in Docs, UrlExpires(e) \/ GoesStale(e) PROVE UNCHANGED <<job, reqVars>>
  BY <1>2 DEF UrlExpires, GoesStale
<1>3. ASSUME NEW i \in Jobs, RetryOrGiveUp(i), NEW j \in Jobs
      PROVE  job'[j].doc = job[j].doc \/ job'[j].doc = NoDoc
  BY <1>3 DEF RetryOrGiveUp, FreeJob
<1>4. CASE IngestNext
  <2>1. wpc \in IngestPC => wjob \in Jobs
    BY DEF WorkerHoldsJob
  <2>2. ASSUME NEW i \in Jobs, IngestLoad(i)
        PROVE  \A j \in Jobs : job'[j].doc = job[j].doc
    BY <2>2 DEF IngestLoad
  <2>3. CASE AttemptFailed
    BY <1>3, <2>1, <2>3 DEF AttemptFailed, IngestPC
  <2>4. CASE IngestAck
    BY <2>1, <2>4 DEF IngestAck, IngestPC, FreeJob
  <2>5. CASE IngestBegin \/ IngestExtract \/ IngestStore \/ IngestFail
    BY <2>5 DEF IngestBegin, IngestExtract, IngestStore, IngestFail
  <2>6. UNCHANGED reqVars
    BY <1>4 DEF IngestNext, IngestLoad, IngestBegin, IngestExtract, IngestStore, IngestAck,
       IngestFail, AttemptFailed
  <2> QED
    BY <1>4, <2>2, <2>3, <2>4, <2>5, <2>6 DEF IngestNext
<1>5. CASE CleanupNext \/ CleanupAbandoned
  BY <1>5 DEF CleanupNext, CleanupSelect, CleanupPurge, CleanupCommit, CleanupAbandoned
<1>6. ASSUME NEW i \in Jobs, AbandonedFailed(i)
      PROVE  /\ \A j \in Jobs : job'[j].doc = job[j].doc \/ job'[j].doc = NoDoc
             /\ UNCHANGED reqVars
  BY <1>3, <1>6 DEF AbandonedFailed
<1>7. ASSUME NEW i \in Jobs, RetryDue(i)
      PROVE  (\A j \in Jobs : job'[j].doc = job[j].doc) /\ UNCHANGED reqVars
  BY <1>7 DEF RetryDue
<1>8. CASE Crash \/ UNCHANGED vars
  BY <1>8 DEF Crash, vars
<1> QED
  BY <1>1, <1>2, <1>4, <1>5, <1>6, <1>7, <1>8 DEF Next, RqNext

\* Every step keeps the documents of jobs and requests confirmed.
LEMMA NextConfirmed == IInv /\ ConfirmedInv /\ [Next]_vars => ConfirmedInv'
<1> SUFFICES ASSUME IInv, ConfirmedInv, [Next]_vars PROVE ConfirmedInv'
  OBVIOUS
<1>1. ASSUME NEW r \in Reqs, RequestNext(r) PROVE ConfirmedInv'
  BY <1>1, RequestConfirmed
<1>2. CASE ~\E r \in Reqs : RequestNext(r)
  <2>1. \A d \in Docs : row[d] \notin {"none", "PENDING_UPLOAD"} => row'[d] # "PENDING_UPLOAD"
    BY StatusMoves DEF Moves, DocumentStatus
  <2>2. \A j \in Jobs : job'[j].doc = job[j].doc \/ job'[j].doc = NoDoc
    BY <1>2, JobsKeepDocs
  <2>3. UNCHANGED reqVars
    BY <1>2, JobsKeepDocs
  <2>4. JobsConfirmed'
    BY <2>1, <2>2, NoDocAssumption DEF ConfirmedInv, JobsConfirmed, IInv, CarriedDocsExist
  <2>5. RequestsConfirmed'
    BY <2>1, <2>3 DEF ConfirmedInv, RequestsConfirmed, IInv, CarriedDocsExist, reqVars
  <2> QED
    BY <2>4, <2>5 DEF ConfirmedInv
<1> QED
  BY <1>1, <1>2

\* The status of every document implements DocLifecycle, although requests, worker
\* and cleanup write on what they read earlier (models/document.py:17-47,
\* services/document_service.py:114-160, workers/ingest.py:84-107, 163-172).
THEOREM StatusesRefineLifecycle == Spec => DocumentLife
<1>1. Init => \A d \in Docs : Lifecycle(d)!LifecycleInit
  BY DEF Init, Lifecycle!LifecycleInit
<1>2. Init => ConfirmedInv
  BY NoDocAssumption DEF Init, ConfirmedInv, JobsConfirmed, RequestsConfirmed, FreeJob
<1>3. IInv /\ ConfirmedInv /\ [Next]_vars
        => [\A d \in Docs : [Lifecycle(d)!LifecycleNext]_(row[d])]_row
  <2> SUFFICES ASSUME IInv, ConfirmedInv, [Next]_vars, NEW d \in Docs
               PROVE  [Lifecycle(d)!LifecycleNext]_(row[d])
    OBVIOUS
  <2>1. Moves(d)
    BY StatusMoves
  <2> QED
    BY <2>1 DEF Moves, DocumentStatus, Lifecycle!LifecycleNext, Lifecycle!Initiate,
       Lifecycle!Store, Lifecycle!Confirm, Lifecycle!Process, Lifecycle!Complete,
       Lifecycle!Fail, Lifecycle!Delete, Lifecycle!Exists, Lifecycle!DocumentStatus
<1> QED
  BY <1>1, <1>2, <1>3, NextConfirmed, Invariant, PTL DEF Spec, DocumentLife
--------------------------------------------------------------------------------
(* Where a second copy of the chunks comes from.                           *)

\* While a request is between the check and the write of a confirm, no other request
\* is about the same document.
ConfirmsAlone ==
    \A q, r \in Reqs : q # r /\ rpc[q] = "confirm" => rdoc[r] # rdoc[q]

\* A document about to be ingested for the first time has no chunks.
PendingIsFresh == \A d \in Docs : row[d] = "PENDING" => copies[d] = 0

\* Nor has one whose confirm is checked, and no job has it either.
ConfirmIsFresh ==
    \A q \in Reqs : rpc[q] = "confirm" =>
        copies[rdoc[q]] = 0 /\ \A j \in Jobs : job[j].doc # rdoc[q]

\* Nor has the document of a run when its chunks are added.
RunIsFresh ==
    /\ wpc = "loaded" =>
          IF loaded \in {"PROCESSING", "FAILED"}
          THEN row[wdoc] \notin {"PENDING_UPLOAD", "PENDING"}
          ELSE copies[wdoc] = 0
    /\ wpc \in {"extract", "store"} =>
          copies[wdoc] = 0 /\ row[wdoc] \notin {"PENDING_UPLOAD", "PENDING"}

OneCopyInv ==
    /\ \A d \in Docs : copies[d] <= 1
    /\ PendingIsFresh
    /\ ConfirmIsFresh
    /\ RunIsFresh

\* A job that a request puts on the queue is about the request's document, and the
\* other jobs, the one that runs among them, stay as they are.
LEMMA RequestEnqueues ==
  ASSUME IInv, NEW r \in Reqs, RequestNext(r)
  PROVE  /\ UNCHANGED <<wpc, wjob, loaded>>
         /\ wpc \in IngestPC => wdoc \in Docs /\ row[wdoc] # "none" /\ wdoc' = wdoc
         /\ \A j \in Jobs :
               job'[j].doc # job[j].doc =>
                  /\ rpc[r] \in {"enqueue_upload", "enqueue_confirm", "enqueue_retry"}
                  /\ job'[j].doc = rdoc[r]
         /\ \A q \in Reqs \ {r} : rpc'[q] = rpc[q] /\ rdoc'[q] = rdoc[q]
<1> USE DEF IInv, TypeOK, workerVars, Goto, Done
<1>1. UNCHANGED <<wpc, wjob, loaded>>
  BY DEF RequestNext, CountForUpload, InitiateInsert, UploadStore, ConfirmCheck, RetryCheck,
     DeleteObject, EnqueueUpload, ConfirmCommit, EnqueueConfirm, WriteFailed, RetryCommit,
     EnqueueRetry, DeleteRow, Abort
<1>2. CASE EnqueueUpload(r) \/ EnqueueConfirm(r) \/ EnqueueRetry(r)
  <2>1. rpc[r] \in {"enqueue_upload", "enqueue_confirm", "enqueue_retry"}
    BY <1>2 DEF EnqueueUpload, EnqueueConfirm, EnqueueRetry
  <2>2. UNCHANGED job \/ \E i \in Jobs : Enqueue(i, rdoc[r])
    BY <1>2 DEF EnqueueUpload, EnqueueConfirm, EnqueueRetry, EnqueueReturned, EnqueueRaised
  <2>3. \A j \in Jobs : /\ job'[j].doc # job[j].doc => job'[j].doc = rdoc[r]
                        /\ job[j].state # "free" => job'[j] = job[j]
    BY <2>2 DEF Enqueue
  <2>4. \A q \in Reqs \ {r} : rpc'[q] = rpc[q] /\ rdoc'[q] = rdoc[q]
    BY <1>2 DEF EnqueueUpload, EnqueueConfirm, EnqueueRetry
  <2>5. wpc \in IngestPC => wdoc \in Docs /\ row[wdoc] # "none" /\ wdoc' = wdoc
    BY <1>1, <2>3 DEF WorkerHoldsJob, CarriedDocsExist, wdoc
  <2> QED
    BY <1>1, <2>1, <2>3, <2>4, <2>5
<1>3. CASE ~ (EnqueueUpload(r) \/ EnqueueConfirm(r) \/ EnqueueRetry(r))
  <2>1. UNCHANGED job
    BY <1>3 DEF RequestNext, CountForUpload, InitiateInsert, UploadStore, ConfirmCheck,
       RetryCheck, DeleteObject, ConfirmCommit, WriteFailed, RetryCommit, DeleteRow, Abort
  <2>2. \A q \in Reqs \ {r} : rpc'[q] = rpc[q] /\ rdoc'[q] = rdoc[q]
    <3>1. CASE CountForUpload(r)
      BY <3>1 DEF CountForUpload
    <3>2. ASSUME NEW d \in Docs, \/ InitiateInsert(r, d) \/ UploadStore(r, d)
                                 \/ ConfirmCheck(r, d) \/ RetryCheck(r, d)
                                 \/ DeleteObject(r, d)
          PROVE  \A q \in Reqs \ {r} : rpc'[q] = rpc[q] /\ rdoc'[q] = rdoc[q]
      BY <3>2 DEF InitiateInsert, UploadStore, ConfirmCheck, RetryCheck, DeleteObject
    <3>3. CASE \/ ConfirmCommit(r) \/ WriteFailed(r) \/ RetryCommit(r)
               \/ DeleteRow(r) \/ Abort(r)
      BY <3>3 DEF ConfirmCommit, WriteFailed, RetryCommit, DeleteRow, Abort
    <3> QED
      BY <1>3, <3>1, <3>2, <3>3 DEF RequestNext
  <2>3. wpc \in IngestPC => wdoc \in Docs /\ row[wdoc] # "none" /\ wdoc' = wdoc
    BY <1>1, <2>1 DEF WorkerHoldsJob, CarriedDocsExist, wdoc
  <2> QED
    BY <1>1, <2>1, <2>2, <2>3
<1> QED
  BY <1>2, <1>3

\* What a request may make of rows and copies: only its own document changes; it
\* becomes unconfirmed or pending from nothing or by a confirm, and loses its chunks
\* only with its row.
LEMMA RequestWrites ==
  ASSUME IInv, NEW r \in Reqs, RequestNext(r)
  PROVE  /\ \A d \in Docs :
               /\ copies'[d] = copies[d] \/ copies'[d] = 0
               /\ row'[d] \in {"PENDING_UPLOAD", "PENDING"} =>
                    \/ row'[d] = row[d]
                    \/ row[d] = "none"
                    \/ rpc[r] = "confirm" /\ rdoc[r] = d
         /\ rpc'[r] = "confirm" => row[rdoc'[r]] = "PENDING_UPLOAD" /\ rdoc'[r] \in Docs
<1> USE DEF IInv, TypeOK, rowVars, storeVars, SetStatus, Goto, Done, DocumentStatus
<1>1. CASE CountForUpload(r)
  BY <1>1 DEF CountForUpload
<1>2. ASSUME NEW e \in Docs, InitiateInsert(r, e) \/ UploadStore(r, e)
      PROVE  /\ copies' = copies /\ rpc'[r] # "confirm"
             /\ \A d \in Docs : row'[d] # row[d] => row[d] = "none"
  BY <1>2 DEF InitiateInsert, UploadStore
<1>3. ASSUME NEW e \in Docs, ConfirmCheck(r, e) \/ RetryCheck(r, e) \/ DeleteObject(r, e)
      PROVE  /\ copies' = copies /\ row' = row
             /\ rpc'[r] = "confirm" => row[rdoc'[r]] = "PENDING_UPLOAD" /\ rdoc'[r] \in Docs
  BY <1>3 DEF ConfirmCheck, RetryCheck, DeleteObject
<1>4. CASE EnqueueUpload(r) \/ EnqueueConfirm(r) \/ EnqueueRetry(r) \/ Abort(r)
  BY <1>4 DEF EnqueueUpload, EnqueueConfirm, EnqueueRetry, Abort
<1>5. CASE ConfirmCommit(r)
  BY <1>5 DEF ConfirmCommit
<1>6. CASE WriteFailed(r) \/ RetryCommit(r)
  BY <1>6 DEF WriteFailed, RetryCommit
<1>7. CASE DeleteRow(r)
  BY <1>7 DEF DeleteRow
<1> QED
  BY <1>1, <1>2, <1>3, <1>4, <1>5, <1>6, <1>7 DEF RequestNext

\* The requests keep that invariant as long as confirms are alone.
LEMMA RequestOneCopy ==
  ASSUME IInv, ConfirmedInv, OneCopyInv, ConfirmsAlone, NEW r \in Reqs, RequestNext(r)
  PROVE  OneCopyInv'
<1> USE DEF OneCopyInv
<1>1. \A d \in Docs : copies[d] \in Nat
  BY DEF IInv, TypeOK
<1>2. (\A d \in Docs : copies[d] <= 1)'
  <2> SUFFICES ASSUME NEW d \in Docs PROVE copies'[d] <= 1
    OBVIOUS
  <2> QED
    BY RequestWrites
<1>3. PendingIsFresh'
  <2> SUFFICES ASSUME NEW d \in Docs, row'[d] = "PENDING" PROVE copies'[d] = 0
    BY DEF PendingIsFresh
  <2>1. copies[d] = 0
    <3>1. \/ row[d] = "PENDING" \/ row[d] = "none"
          \/ rpc[r] = "confirm" /\ rdoc[r] = d
      BY RequestWrites
    <3> QED
      BY <3>1 DEF PendingIsFresh, ConfirmIsFresh, IInv, NoChunksWithoutIngest
  <2> QED
    BY <2>1, RequestWrites
<1>4. ConfirmIsFresh'
  <2> SUFFICES ASSUME NEW q \in Reqs, rpc'[q] = "confirm"
               PROVE  copies'[rdoc'[q]] = 0 /\ \A j \in Jobs : job'[j].doc # rdoc'[q]
    BY DEF ConfirmIsFresh
  <2>1. CASE q = r
    <3>1. row[rdoc'[r]] = "PENDING_UPLOAD" /\ rdoc'[r] \in Docs
      BY <2>1, RequestWrites
    <3>2. copies[rdoc'[r]] = 0
      BY <3>1 DEF IInv, NoChunksWithoutIngest
    <3>3. \A j \in Jobs : job[j].doc # rdoc'[r]
      BY <3>1 DEF ConfirmedInv, JobsConfirmed
    <3>4. copies'[rdoc'[r]] = 0
      BY <3>1, <3>2, RequestWrites
    <3>5. ~ (EnqueueUpload(r) \/ EnqueueConfirm(r) \/ EnqueueRetry(r))
      BY <2>1 DEF EnqueueUpload, EnqueueConfirm, EnqueueRetry, Goto, Done, IInv, TypeOK
    <3>6. UNCHANGED job
      BY <3>5 DEF RequestNext, CountForUpload, InitiateInsert, UploadStore, ConfirmCheck,
         RetryCheck, DeleteObject, ConfirmCommit, WriteFailed, RetryCommit, DeleteRow, Abort
    <3> QED
      BY <2>1, <3>3, <3>4, <3>6
  <2>2. CASE q # r
    <3>1. rpc[q] = "confirm" /\ rdoc'[q] = rdoc[q] /\ rdoc[r] # rdoc[q]
      BY <2>2, RequestEnqueues DEF ConfirmsAlone
    <3>2. rdoc[q] \in Docs /\ copies[rdoc[q]] = 0 /\ \A j \in Jobs : job[j].doc # rdoc[q]
      BY <3>1 DEF ConfirmIsFresh, IInv, CarriedDocsExist
    <3>3. \A j \in Jobs : job'[j].doc = job[j].doc \/ job'[j].doc = rdoc[r]
      BY RequestEnqueues
    <3>4. copies'[rdoc[q]] = 0
      BY <3>2, RequestWrites
    <3> QED
      BY <3>1, <3>2, <3>3, <3>4
  <2> QED
    BY <2>1, <2>2
<1>5. RunIsFresh'
  <2>1. UNCHANGED <<wpc, wjob, loaded>>
    BY RequestEnqueues
  <2>2. CASE wpc \in {"loaded", "extract", "store"}
    <3>1. wdoc \in Docs /\ row[wdoc] # "none" /\ wdoc' = wdoc /\ wjob \in Jobs
      BY <2>2, RequestEnqueues DEF IngestPC, IInv, WorkerHoldsJob
    <3>2. ~ (rpc[r] = "confirm" /\ rdoc[r] = wdoc)
      BY <3>1 DEF ConfirmIsFresh, wdoc
    <3>3. row'[wdoc] \in {"PENDING_UPLOAD", "PENDING"} => row'[wdoc] = row[wdoc]
      BY <3>1, <3>2, RequestWrites
    <3>4. copies[wdoc] = 0 => copies'[wdoc] = 0
      BY <3>1, RequestWrites
    <3> QED
      BY <2>1, <3>1, <3>3, <3>4 DEF RunIsFresh
  <2> QED
    BY <2>1, <2>2 DEF RunIsFresh
<1> QED
  BY <1>2, <1>3, <1>4, <1>5

\* Apart from the requests, nothing makes a row unconfirmed or pending.
LEMMA NoneMadePending ==
  ASSUME IInv, [Next]_vars, ~\E r \in Reqs : RequestNext(r), NEW d \in Docs
  PROVE  row'[d] \in {"PENDING_UPLOAD", "PENDING"} => row'[d] = row[d]
<1> USE DEF IInv, TypeOK, rowVars, SetStatus, NetWrite
<1>1. ASSUME NEW e \in Docs, NEW content \in {"good", "bad"}, BrowserPut(e, content)
      PROVE  row' = row
  BY <1>1 DEF BrowserPut
<1>2. ASSUME NEW e \in Docs, UrlExpires(e) \/ GoesStale(e) PROVE row' = row
  BY <1>2 DEF UrlExpires, GoesStale
<1>3. CASE IngestNext
  <2>1. CASE IngestBegin \/ IngestStore \/ IngestFail
    BY <2>1 DEF IngestBegin, IngestStore, IngestFail
  <2>2. CASE AttemptFailed
    BY <2>2 DEF AttemptFailed, FailureCallback
  <2>3. CASE (\E j \in Jobs : IngestLoad(j)) \/ IngestExtract \/ IngestAck
    BY <2>3 DEF IngestLoad, IngestExtract, IngestAck
  <2> QED
    BY <1>3, <2>1, <2>2, <2>3 DEF IngestNext
<1>4. CASE CleanupNext
  BY <1>4 DEF CleanupNext, CleanupSelect, CleanupPurge, CleanupCommit
<1>5. CASE RqNext
  BY <1>5 DEF RqNext, CleanupAbandoned, AbandonedFailed, FailureCallback, RetryDue
<1>6. CASE Crash \/ UNCHANGED vars
  BY <1>6 DEF Crash, vars
<1> QED
  BY <1>1, <1>2, <1>3, <1>4, <1>5, <1>6 DEF Next

\* Nor does anything but the commit of a run add chunks, and the row is not pending then.
LEMMA OtherWrites ==
  ASSUME IInv, OneCopyInv, [Next]_vars, ~\E r \in Reqs : RequestNext(r), NEW d \in Docs
  PROVE  /\ \/ copies'[d] = copies[d] \/ copies'[d] = 0
            \/ /\ wpc = "store" /\ d = wdoc
               /\ copies'[d] = copies[d] + 1 /\ row'[d] # "PENDING"
         /\ row'[d] \in {"PENDING_UPLOAD", "PENDING"} => row'[d] = row[d]
<1> USE DEF IInv, TypeOK, storeVars
<1>1. ASSUME NEW e \in Docs, NEW content \in {"good", "bad"}, BrowserPut(e, content)
      PROVE  copies' = copies
  BY <1>1 DEF BrowserPut
<1>2. ASSUME NEW e \in Docs, UrlExpires(e) \/ GoesStale(e) PROVE copies' = copies
  BY <1>2 DEF UrlExpires, GoesStale
<1>3. CASE IngestStore
  <2>1. wpc = "store" /\ wdoc \in Docs /\ row[wdoc] \notin {"PENDING_UPLOAD", "PENDING"}
    BY <1>3 DEF IngestStore, IngestPC, WorkerHoldsJob, CarriedDocsExist, wdoc, OneCopyInv,
       RunIsFresh
  <2>2. /\ copies' = copies \/ copies' = [copies EXCEPT ![wdoc] = @ + 1]
        /\ row'[wdoc] # "PENDING"
    BY <1>3, <2>1 DEF IngestStore, SetStatus, NetWrite, rowVars
  <2> QED
    BY <2>1, <2>2, NoneMadePending
<1>4. CASE IngestBegin
  BY <1>4, NoneMadePending DEF IngestBegin
<1>5. CASE (\E j \in Jobs : IngestLoad(j)) \/ IngestExtract \/ IngestAck \/ IngestFail
           \/ AttemptFailed
  BY <1>5, NoneMadePending DEF IngestLoad, IngestExtract, IngestAck, IngestFail, AttemptFailed
<1>6. CASE CleanupNext \/ RqNext
  BY <1>6, NoneMadePending DEF CleanupNext, CleanupSelect, CleanupPurge, CleanupCommit,
     RqNext, CleanupAbandoned, AbandonedFailed, RetryDue
<1>7. CASE Crash \/ UNCHANGED vars
  BY <1>7, NoneMadePending DEF Crash, vars
<1> QED
  BY <1>1, <1>2, <1>3, <1>4, <1>5, <1>6, <1>7, NoneMadePending DEF Next, IngestNext

\* What a run knows of its row and chunks comes from the load, and stays true.
LEMMA RunStaysFresh ==
  ASSUME IInv, ConfirmedInv, OneCopyInv, [Next]_vars, ~\E r \in Reqs : RequestNext(r)
  PROVE  RunIsFresh'
<1> USE DEF IInv, TypeOK, OneCopyInv
<1>a. wpc \in IngestPC =>
        /\ wjob \in Jobs /\ job[wjob].state = "started"
        /\ wdoc \in Docs /\ row[wdoc] # "PENDING_UPLOAD"
  BY DEF WorkerHoldsJob, CarriedDocsExist, ConfirmedInv, JobsConfirmed, wdoc
<1>1. CASE UNCHANGED <<wpc, wjob, loaded>> /\ wpc # "idle"
  <2>1. wpc \in {"loaded", "extract", "store"} => wdoc' = wdoc
    <3> SUFFICES ASSUME wpc \in {"loaded", "extract", "store"} PROVE wdoc' = wdoc
      OBVIOUS
    <3>1. wjob \in Jobs /\ wdoc \in Docs
      BY <1>a DEF IngestPC
    <3>2. job'[wjob] = job[wjob]
      <4>1. ASSUME NEW j \in Jobs, RetryDue(j) PROVE job'[wjob] = job[wjob]
        BY <1>a, <3>1, <4>1 DEF RetryDue, IngestPC
      <4>2. ASSUME NEW e \in Docs,
                   \/ \E content \in {"good", "bad"} : BrowserPut(e, content)
                   \/ UrlExpires(e) \/ GoesStale(e)
            PROVE  UNCHANGED job
        BY <4>2 DEF BrowserPut, UrlExpires, GoesStale
      <4>3. ~ (IngestNext \/ CleanupNext \/ Crash \/ \E j \in Jobs : AbandonedFailed(j))
        BY <1>1 DEF IngestNext, IngestLoad, IngestBegin, IngestExtract, IngestStore,
           IngestAck, IngestFail, AttemptFailed, CleanupNext, CleanupSelect, CleanupPurge,
           CleanupCommit, Crash, Idle, AbandonedFailed
      <4>4. CASE CleanupAbandoned \/ UNCHANGED vars
        BY <4>4 DEF CleanupAbandoned, vars
      <4> QED
        BY <4>1, <4>2, <4>3, <4>4 DEF Next, RqNext
    <3> QED
      BY <1>1, <3>2 DEF wdoc
  <2>2. wpc # "store" \/ UNCHANGED <<copies, row>>
    <3> SUFFICES ASSUME wpc = "store" PROVE UNCHANGED <<copies, row>>
      OBVIOUS
    <3>1. ~ (IngestNext \/ CleanupNext \/ Crash \/ \E j \in Jobs : AbandonedFailed(j))
      BY <1>1 DEF IngestNext, IngestLoad, IngestBegin, IngestExtract, IngestStore,
         IngestAck, IngestFail, AttemptFailed, CleanupNext, CleanupSelect, CleanupPurge,
         CleanupCommit, Crash, Idle, AbandonedFailed
    <3> QED
      BY <3>1 DEF Next, RqNext, BrowserPut, UrlExpires, GoesStale, CleanupAbandoned, RetryDue,
         vars, rowVars, storeVars
  <2>3. CASE wpc \in {"loaded", "extract", "store"}
    <3>1. wdoc \in Docs /\ wdoc' = wdoc
      BY <1>a, <2>1, <2>3 DEF IngestPC
    <3>2. /\ copies[wdoc] = 0 => copies'[wdoc] = 0
          /\ row'[wdoc] \in {"PENDING_UPLOAD", "PENDING"} => row'[wdoc] = row[wdoc]
      BY <2>2, <3>1, OtherWrites
    <3> QED
      BY <1>1, <3>1, <3>2 DEF RunIsFresh
  <2> QED
    BY <1>1, <2>3 DEF RunIsFresh
<1>2. ASSUME NEW j \in Jobs, IngestLoad(j) PROVE RunIsFresh'
  <2>1. job[j].doc \in Docs /\ row[job[j].doc] # "PENDING_UPLOAD"
    BY <1>2 DEF IngestLoad, CarriedDocsExist, ConfirmedInv, JobsConfirmed
  <2>2. /\ wjob' = j /\ job'[j].doc = job[j].doc /\ loaded' = row[job[j].doc]
        /\ row' = row /\ copies' = copies
        /\ wpc' \in {"callback", "ack", "loaded"}
        /\ wpc' = "loaded" => row[job[j].doc] \in DocumentStatus \ {"READY"}
    BY <1>2 DEF IngestLoad, rowVars, storeVars, Live
  <2>3. wdoc' = job[j].doc
    BY <2>2 DEF wdoc
  <2> QED
    BY <2>1, <2>2, <2>3 DEF RunIsFresh, PendingIsFresh, DocumentStatus
<1>3. CASE IngestBegin
  <2>1. wpc = "loaded" /\ wdoc \in Docs /\ wdoc' = wdoc /\ loaded' = loaded
    BY <1>3, <1>a DEF IngestBegin, IngestPC, wdoc
  <2>2. CASE wpc' = "callback"
    BY <2>2 DEF RunIsFresh
  <2>3. CASE /\ wpc' = "extract"
             /\ SetStatus(wdoc, NetWrite(loaded, "PROCESSING", row[wdoc]))
             /\ copies' = IF loaded \in {"PROCESSING", "FAILED"}
                          THEN [copies EXCEPT ![wdoc] = 0]
                          ELSE copies
    <3>1. copies'[wdoc] = 0
      BY <2>1, <2>3 DEF RunIsFresh
    <3>2. row'[wdoc] \notin {"PENDING_UPLOAD", "PENDING"}
      BY <2>1, <2>3 DEF RunIsFresh, SetStatus, NetWrite
    <3> QED
      BY <2>1, <2>3, <3>1, <3>2 DEF RunIsFresh
  <2> QED
    BY <1>3, <2>2, <2>3 DEF IngestBegin
<1>4. CASE IngestExtract
  <2>1. wpc = "extract" /\ wdoc \in Docs /\ wdoc' = wdoc /\ row' = row /\ copies' = copies
    BY <1>4, <1>a DEF IngestExtract, IngestPC, wdoc, rowVars, storeVars
  <2> QED
    BY <1>4, <2>1 DEF IngestExtract, RunIsFresh
<1>5. CASE wpc' \in {"idle", "ack", "fail", "callback", "purge", "sweep"}
  BY <1>5 DEF RunIsFresh
<1>6. CASE IngestNext
  <2>1. CASE IngestStore \/ IngestAck \/ IngestFail \/ AttemptFailed
    BY <1>5, <2>1 DEF IngestStore, IngestAck, IngestFail, AttemptFailed, Idle
  <2> QED
    BY <1>6, <1>2, <1>3, <1>4, <2>1 DEF IngestNext
<1>7. CASE CleanupNext \/ Crash
  BY <1>5, <1>7 DEF CleanupNext, CleanupSelect, CleanupPurge, CleanupCommit, CleanupFailed,
     Crash, Idle
<1>8. CASE ~ (IngestNext \/ CleanupNext \/ Crash)
  <2>1. UNCHANGED <<wpc, wjob, loaded>>
    BY <1>8 DEF Next, RqNext, BrowserPut, UrlExpires, GoesStale, CleanupAbandoned,
       AbandonedFailed, RetryDue, vars, workerVars
  <2> QED
    BY <1>1, <1>5, <2>1
<1> QED
  BY <1>6, <1>7, <1>8

\* Every step keeps the invariant as long as confirms are alone.
LEMMA NextOneCopy ==
  IInv /\ ConfirmedInv /\ OneCopyInv /\ ConfirmsAlone /\ [Next]_vars => OneCopyInv'
<1> SUFFICES ASSUME IInv, ConfirmedInv, OneCopyInv, ConfirmsAlone, [Next]_vars
             PROVE  OneCopyInv'
  OBVIOUS
<1>1. ASSUME NEW r \in Reqs, RequestNext(r) PROVE OneCopyInv'
  BY <1>1, RequestOneCopy
<1>2. CASE ~\E r \in Reqs : RequestNext(r)
  <2> USE DEF OneCopyInv
  <2>1. wpc = "store" => copies[wdoc] = 0
    BY DEF RunIsFresh
  <2>2. (\A d \in Docs : copies[d] <= 1)'
    <3> SUFFICES ASSUME NEW d \in Docs PROVE copies'[d] <= 1
      OBVIOUS
    <3> QED
      BY <1>2, <2>1, OtherWrites
  <2>3. PendingIsFresh'
    <3> SUFFICES ASSUME NEW d \in Docs, row'[d] = "PENDING" PROVE copies'[d] = 0
      BY DEF PendingIsFresh
    <3> QED
      BY <1>2, OtherWrites DEF PendingIsFresh
  <2>4. ConfirmIsFresh'
    <3>1. UNCHANGED reqVars /\ \A j \in Jobs : job'[j].doc = job[j].doc \/ job'[j].doc = NoDoc
      BY <1>2, JobsKeepDocs
    <3> SUFFICES ASSUME NEW q \in Reqs, rpc[q] = "confirm"
                 PROVE  copies'[rdoc[q]] = 0 /\ \A j \in Jobs : job'[j].doc # rdoc[q]
      BY <3>1 DEF ConfirmIsFresh, reqVars
    <3>2. rdoc[q] \in Docs /\ copies[rdoc[q]] = 0 /\ \A j \in Jobs : job[j].doc # rdoc[q]
      BY DEF ConfirmIsFresh, IInv, CarriedDocsExist
    <3>3. wpc = "store" => rdoc[q] # wdoc
      BY <3>2 DEF IInv, WorkerHoldsJob, IngestPC, wdoc
    <3> QED
      BY <1>2, <3>1, <3>2, <3>3, OtherWrites, NoDocAssumption
  <2>5. RunIsFresh'
    BY <1>2, RunStaysFresh
  <2> QED
    BY <2>2, <2>3, <2>4, <2>5
<1> QED
  BY <1>1, <1>2

\* A document is ingested once, and has its chunks once when it is READY, as long as no
\* other request is about it while a confirm of it is between check and write: the
\* double confirm is the only way to a second set, whatever fails, is retried or dies
\* (services/document_service.py:656-662, 772-773, workers/ingest.py:98-103, 163-172).
THEOREM OneCopyUnlessConfirmsOverlap == Spec /\ []ConfirmsAlone => []ReadyHasOneCopy
<1>1. Init => ConfirmedInv /\ OneCopyInv
  BY NoDocAssumption DEF Init, ConfirmedInv, JobsConfirmed, RequestsConfirmed, FreeJob,
     OneCopyInv, PendingIsFresh, ConfirmIsFresh, RunIsFresh
<1>2. IInv /\ OneCopyInv => ReadyHasOneCopy
  <2> SUFFICES ASSUME IInv, OneCopyInv, NEW d \in Docs, row[d] = "READY" PROVE copies[d] = 1
    BY DEF ReadyHasOneCopy
  <2>1. copies[d] \in Nat /\ copies[d] >= 1 /\ copies[d] <= 1
    BY DEF IInv, TypeOK, ReadyHasChunks, OneCopyInv
  <2> QED
    BY <2>1
<1> QED
  BY <1>1, <1>2, Invariant, NextConfirmed, NextOneCopy, PTL DEF Spec
--------------------------------------------------------------------------------
(* Where a PENDING document without a job comes from.                      *)

\* The kinds of failure at which an enqueue or the write of a status gets lost.
Losing == {"api", "redis", "db"}

\* One of the jobs in J, or a request, has the document.
Carried(d, J) == (\E j \in J : job[j].doc = d) \/ \E r \in Reqs : rdoc[r] = d

\* Jobs and request slots that are free have no document.
FreeHaveNone ==
    /\ \A j \in Jobs : job[j].state = "free" => job[j].doc = NoDoc
    /\ \A r \in Reqs : rpc[r] \in {"idle", "insert", "store"} => rdoc[r] = NoDoc

\* When a run is about to be acknowledged and its row is PENDING again, something else
\* has the document.
AckCarried ==
    wpc = "ack" /\ row[wdoc] = "PENDING" => Carried(wdoc, Jobs \ {wjob})

CarriedInv == FreeHaveNone /\ PendingHasJob /\ AckCarried

\* Free jobs and slots stay without a document.
LEMMA FreeStayEmpty ==
  ASSUME IInv, FreeHaveNone, [Next]_vars
  PROVE  FreeHaveNone'
<1> USE DEF FreeHaveNone, IInv, TypeOK, Goto, Done, reqVars
<1>1. ASSUME NEW r \in Reqs, RequestNext(r) PROVE FreeHaveNone'
  <2>1. CASE CountForUpload(r)
    BY <2>1 DEF CountForUpload
  <2>2. ASSUME NEW d \in Docs, InitiateInsert(r, d) PROVE FreeHaveNone'
    BY <2>2 DEF InitiateInsert
  <2>3. ASSUME NEW d \in Docs, UploadStore(r, d) PROVE FreeHaveNone'
    BY <2>3 DEF UploadStore
  <2>4. ASSUME NEW d \in Docs, ConfirmCheck(r, d) \/ RetryCheck(r, d) \/ DeleteObject(r, d)
        PROVE  FreeHaveNone'
    BY <2>4 DEF ConfirmCheck, RetryCheck, DeleteObject
  <2>5. CASE EnqueueUpload(r) \/ EnqueueConfirm(r) \/ EnqueueRetry(r)
    <3>1. UNCHANGED job \/ \E i \in Jobs : Enqueue(i, rdoc[r])
      BY <2>5 DEF EnqueueUpload, EnqueueConfirm, EnqueueRetry, EnqueueReturned, EnqueueRaised
    <3>2. (\A j \in Jobs : job[j].state = "free" => job[j].doc = NoDoc)'
      BY <3>1 DEF Enqueue
    <3>3. (\A q \in Reqs : rpc[q] \in {"idle", "insert", "store"} => rdoc[q] = NoDoc)'
      BY <2>5 DEF EnqueueUpload, EnqueueConfirm, EnqueueRetry
    <3> QED
      BY <3>2, <3>3
  <2>6. CASE ConfirmCommit(r) \/ WriteFailed(r) \/ RetryCommit(r) \/ DeleteRow(r) \/ Abort(r)
    BY <2>6 DEF ConfirmCommit, WriteFailed, RetryCommit, DeleteRow, Abort
  <2> QED
    BY <1>1, <2>1, <2>2, <2>3, <2>4, <2>5, <2>6 DEF RequestNext
<1>2. CASE ~\E r \in Reqs : RequestNext(r)
  <2>1. UNCHANGED reqVars
    BY <1>2, JobsKeepDocs
  <2>2. ASSUME NEW j \in Jobs, job'[j].state = "free" PROVE job'[j] = job[j]
    <3>1. ASSUME NEW i \in Jobs, RetryOrGiveUp(i) PROVE job'[j] = job[j]
      BY <2>2, <3>1 DEF RetryOrGiveUp, FreeJob, Job
    <3>2. wpc \in IngestPC => wjob \in Jobs
      BY DEF WorkerHoldsJob
    <3>3. CASE IngestNext
      BY <2>2, <3>1, <3>2, <3>3 DEF IngestNext, IngestLoad, IngestBegin, IngestExtract,
         IngestStore, IngestAck, IngestFail, AttemptFailed, FreeJob, IngestPC, Job
    <3>4. CASE RqNext
      BY <2>2, <3>1, <3>4 DEF RqNext, CleanupAbandoned, AbandonedFailed, RetryDue, Job
    <3>5. CASE Crash
      BY <2>2, <3>5 DEF Crash, Job
    <3>6. CASE CleanupNext \/ UNCHANGED vars
      BY <3>6 DEF CleanupNext, CleanupSelect, CleanupPurge, CleanupCommit, vars
    <3>7. CASE \E d \in Docs : \/ \E content \in {"good", "bad"} : BrowserPut(d, content)
                               \/ UrlExpires(d) \/ GoesStale(d)
      BY <3>7 DEF BrowserPut, UrlExpires, GoesStale
    <3> QED
      BY <1>2, <3>3, <3>4, <3>5, <3>6, <3>7 DEF Next
  <2> QED
    BY <2>1, <2>2
<1> QED
  BY <1>1, <1>2

\* A request does not let go of a PENDING document before a job has it, when nothing
\* gets lost: nor does it take a document from jobs J that are not free.
LEMMA RequestCarries ==
  ASSUME IInv, FreeHaveNone, Faults \cap Losing = {}, NEW r \in Reqs, RequestNext(r),
         NEW d \in Docs, row'[d] = "PENDING",
         NEW J \in SUBSET Jobs, \A j \in Jobs : job[j].state = "free" => j \in J,
         row[d] = "PENDING" => Carried(d, J)
  PROVE  (\E j \in J : job'[j].doc = d) \/ \E q \in Reqs : rdoc'[q] = d
<1> USE DEF IInv, TypeOK, rowVars, SetStatus, Goto, Done, Carried, Live, DocumentStatus
<1>1. ASSUME NEW j \in Jobs, job[j].doc = d PROVE job'[j].doc = d
  <2>1. job[j].state # "free"
    BY <1>1, NoDocAssumption DEF FreeHaveNone
  <2> QED
    BY <1>1, <2>1 DEF RequestNext, CountForUpload, InitiateInsert, UploadStore, ConfirmCheck,
       RetryCheck, DeleteObject, EnqueueUpload, ConfirmCommit, EnqueueConfirm, WriteFailed,
       RetryCommit, EnqueueRetry, DeleteRow, Abort, EnqueueReturned, EnqueueRaised, Enqueue
<1>2. \A q \in Reqs \ {r} : rdoc'[q] = rdoc[q]
  BY RequestEnqueues
<1>3. CASE rdoc[r] = d /\ rdoc'[r] # d
  <2>1. rpc[r] \notin {"idle", "insert", "store"}
    BY <1>3, NoDocAssumption DEF FreeHaveNone
  <2>2. \/ EnqueueUpload(r) \/ ConfirmCommit(r) \/ EnqueueConfirm(r) \/ WriteFailed(r)
        \/ RetryCommit(r) \/ EnqueueRetry(r) \/ DeleteRow(r) \/ Abort(r)
    BY <2>1 DEF RequestNext, CountForUpload, InitiateInsert, UploadStore, ConfirmCheck,
       RetryCheck, DeleteObject
  <2>3. ~ (WriteFailed(r) \/ DeleteRow(r) \/ RetryCommit(r) \/ ConfirmCommit(r))
    BY <1>3 DEF WriteFailed, DeleteRow, RetryCommit, ConfirmCommit
  <2>4. ~ Abort(r)
    BY DEF Abort, Losing
  <2>5. EnqueueReturned(d)
    <3>1. row[d] = "PENDING"
      BY <2>2, <2>3, <2>4 DEF EnqueueUpload, EnqueueConfirm, EnqueueRetry
    <3> QED
      BY <1>3, <2>2, <2>3, <2>4, <3>1 DEF EnqueueUpload, EnqueueConfirm, EnqueueRetry,
         EnqueueRaised, Losing
  <2>6. PICK j \in Jobs : Enqueue(j, d)
    BY <2>5 DEF EnqueueReturned
  <2>7. j \in J /\ job'[j].doc = d
    BY <2>6 DEF Enqueue
  <2> QED
    BY <2>7
<1>4. CASE rdoc'[r] = d
  BY <1>4
<1>5. CASE rdoc[r] # d /\ rdoc'[r] # d
  <2>1. row[d] = "PENDING"
    <3>1. ~ ConfirmCommit(r) \/ row'[d] = row[d]
      BY <1>5 DEF ConfirmCommit
    <3>2. ASSUME NEW e \in Docs, InitiateInsert(r, e) PROVE row'[d] = row[d]
      BY <3>2 DEF InitiateInsert
    <3>3. ASSUME NEW e \in Docs, UploadStore(r, e) PROVE row'[d] = row[d]
      BY <1>5, <3>3 DEF UploadStore
    <3>4. ASSUME NEW e \in Docs, ConfirmCheck(r, e) \/ RetryCheck(r, e) \/ DeleteObject(r, e)
          PROVE  row'[d] = row[d]
      BY <3>4 DEF ConfirmCheck, RetryCheck, DeleteObject
    <3>5. CASE \/ CountForUpload(r) \/ EnqueueUpload(r) \/ EnqueueConfirm(r) \/ WriteFailed(r)
               \/ RetryCommit(r) \/ EnqueueRetry(r) \/ DeleteRow(r) \/ Abort(r)
      BY <3>5 DEF CountForUpload, EnqueueUpload, EnqueueConfirm, WriteFailed, RetryCommit,
         EnqueueRetry, DeleteRow, Abort
    <3> QED
      BY <3>1, <3>2, <3>3, <3>4, <3>5 DEF RequestNext
  <2>2. CASE \E j \in J : job[j].doc = d
    BY <1>1, <2>2
  <2>3. CASE \E q \in Reqs : rdoc[q] = d
    BY <1>2, <1>5, <2>3
  <2> QED
    BY <2>1, <2>2, <2>3
<1> QED
  BY <1>3, <1>4, <1>5
\* A job lets go of a PENDING document only when a run of it is acknowledged: the job
\* that gives up writes FAILED, unless the database loses that.
LEMMA GivingUpWrites ==
  ASSUME IInv, Faults \cap Losing = {}, NEW j \in Jobs,
         FailureCallback(j), RetryOrGiveUp(j), job[j].doc \in Docs,
         row'[job[j].doc] = "PENDING"
  PROVE  \A i \in Jobs : job'[i].doc = job[i].doc
<1> USE DEF IInv, TypeOK, Job
<1>1. CASE job[j].left > 0
  BY <1>1 DEF RetryOrGiveUp
<1>2. CASE ~ (job[j].left > 0)
  <2>1. "db" \notin Faults
    BY DEF Losing
  <2>2. row'[job[j].doc] # "PENDING"
    BY <1>2, <2>1 DEF FailureCallback, Live, SetStatus, DocumentStatus, rowVars
  <2> QED
    BY <2>2
<1> QED
  BY <1>1, <1>2

\* No step but a request's lets go of a PENDING document when nothing gets lost.
LEMMA OtherCarries ==
  ASSUME IInv, CarriedInv, Faults \cap Losing = {}, [Next]_vars,
         ~\E r \in Reqs : RequestNext(r),
         NEW d \in Docs, row'[d] = "PENDING"
  PROVE  (\E j \in Jobs : job'[j].doc = d) \/ \E q \in Reqs : rdoc'[q] = d
<1> USE DEF IInv, TypeOK, Job
<1>1. row[d] = "PENDING"
  BY NoneMadePending
<1>2. CASE \E q \in Reqs : rdoc[q] = d
  BY <1>2, JobsKeepDocs DEF reqVars
<1>3. CASE \E j \in Jobs : job[j].doc = d
  <2>1. PICK j \in Jobs : job[j].doc = d
    BY <1>3
  <2>2. CASE IngestAck
    <3>1. CASE j = wjob
      <4>1. Carried(d, Jobs \ {wjob})
        BY <1>1, <2>1, <2>2, <3>1 DEF IngestAck, CarriedInv, AckCarried, wdoc
      <4>2. CASE \E i \in Jobs \ {wjob} : job[i].doc = d
        BY <2>2, <4>2 DEF IngestAck
      <4> QED
        BY <1>2, <4>1, <4>2, JobsKeepDocs DEF Carried, reqVars
    <3>2. CASE j # wjob
      BY <2>1, <2>2, <3>2 DEF IngestAck
    <3> QED
      BY <3>1, <3>2
  <2>3. ASSUME NEW i \in Jobs, FailureCallback(i), RetryOrGiveUp(i) PROVE job'[j].doc = d
    <3>1. CASE i = j
      BY <2>1, <2>3, <3>1, GivingUpWrites
    <3>2. CASE i # j
      BY <2>1, <2>3, <3>2 DEF RetryOrGiveUp
    <3> QED
      BY <3>1, <3>2
  <2>4. CASE AttemptFailed
    BY <2>3, <2>4 DEF AttemptFailed, WorkerHoldsJob, IngestPC
  <2>5. CASE \E i \in Jobs : IngestLoad(i)
    BY <2>1, <2>5 DEF IngestLoad
  <2>6. CASE IngestBegin \/ IngestExtract \/ IngestStore \/ IngestFail
    BY <2>1, <2>6 DEF IngestBegin, IngestExtract, IngestStore, IngestFail
  <2>7. CASE RqNext
    BY <2>1, <2>3, <2>7 DEF RqNext, CleanupAbandoned, AbandonedFailed, RetryDue
  <2>8. CASE CleanupNext
    BY <2>1, <2>8 DEF CleanupNext, CleanupSelect, CleanupPurge, CleanupCommit
  <2>9. CASE Crash \/ UNCHANGED vars
    BY <2>1, <2>9 DEF Crash, vars
  <2>10. CASE \E e \in Docs : \/ \E content \in {"good", "bad"} : BrowserPut(e, content)
                              \/ UrlExpires(e) \/ GoesStale(e)
    BY <2>1, <2>10 DEF BrowserPut, UrlExpires, GoesStale
  <2> QED
    BY <2>2, <2>4, <2>5, <2>6, <2>7, <2>8, <2>9, <2>10 DEF Next, IngestNext
<1> QED
  BY <1>1, <1>2, <1>3 DEF CarriedInv, PendingHasJob

\* A run comes to its acknowledgement with its row READY; other steps leave the jobs'
\* documents alone until it is acknowledged.
LEMMA OtherAckCarried ==
  ASSUME IInv, CarriedInv, Faults \cap Losing = {}, [Next]_vars,
         ~\E r \in Reqs : RequestNext(r)
  PROVE  AckCarried'
<1> USE DEF IInv, TypeOK, Job
<1> SUFFICES ASSUME wpc' = "ack", row'[wdoc'] = "PENDING"
             PROVE  Carried(wdoc, Jobs \ {wjob})'
  BY DEF AckCarried
<1>1. CASE wpc # "ack"
  <2>1. (\E j \in Jobs : IngestLoad(j)) \/ IngestStore
    BY <1>1 DEF Next, IngestNext, IngestBegin, IngestExtract, IngestAck, IngestFail,
       AttemptFailed, Idle, RqNext, CleanupAbandoned, AbandonedFailed, RetryDue, workerVars,
       CleanupNext, CleanupSelect, CleanupPurge, CleanupCommit, CleanupFailed, Crash, vars,
       BrowserPut, UrlExpires, GoesStale
  <2>2. ASSUME NEW j \in Jobs, IngestLoad(j) PROVE FALSE
    <3>1. row[job[j].doc] = "READY" /\ wdoc' = job[j].doc
      BY <2>2 DEF IngestLoad, wdoc
    <3> QED
      BY <2>2, <3>1 DEF IngestLoad, rowVars
  <2>3. CASE IngestStore
    <3>1. wdoc \in Docs /\ wdoc' = wdoc
      BY <2>3 DEF IngestStore, WorkerHoldsJob, IngestPC, CarriedDocsExist, wdoc
    <3> QED
      BY <2>3, <3>1 DEF IngestStore, SetStatus
  <2> QED
    BY <2>1, <2>2, <2>3
<1>2. CASE wpc = "ack"
  <2>1. wjob' = wjob /\ \A j \in Jobs : job'[j].doc = job[j].doc
    <3>1. ASSUME NEW j \in Jobs, RetryDue(j)
          PROVE  wjob' = wjob /\ \A i \in Jobs : job'[i].doc = job[i].doc
      BY <3>1 DEF RetryDue, workerVars
    <3> QED
      BY <1>2, <3>1 DEF Next, IngestNext, IngestLoad, IngestBegin, IngestExtract, IngestStore,
         IngestAck, IngestFail, AttemptFailed, Idle, RqNext, CleanupAbandoned, AbandonedFailed,
         workerVars, CleanupNext, CleanupSelect, CleanupPurge, CleanupCommit, Crash, vars,
         BrowserPut, UrlExpires, GoesStale
  <2>2. wdoc' = wdoc /\ wdoc \in Docs
    BY <1>2, <2>1 DEF WorkerHoldsJob, IngestPC, CarriedDocsExist, wdoc
  <2>3. Carried(wdoc, Jobs \ {wjob})
    BY <1>2, <2>2, NoneMadePending DEF CarriedInv, AckCarried
  <2> QED
    BY <2>1, <2>2, <2>3, JobsKeepDocs DEF Carried, reqVars
<1> QED
  BY <1>1, <1>2

\* Every step keeps the invariant when nothing gets lost.
LEMMA NextCarried ==
  ASSUME Faults \cap Losing = {}
  PROVE  IInv /\ CarriedInv /\ [Next]_vars => CarriedInv'
<1> SUFFICES ASSUME IInv, CarriedInv, [Next]_vars PROVE CarriedInv'
  OBVIOUS
<1>1. FreeHaveNone'
  BY FreeStayEmpty DEF CarriedInv
<1>2. ASSUME NEW r \in Reqs, RequestNext(r) PROVE PendingHasJob' /\ AckCarried'
  <2>1. PendingHasJob'
    <3> SUFFICES ASSUME NEW d \in Docs, row'[d] = "PENDING"
                 PROVE  (\E j \in Jobs : job'[j].doc = d) \/ \E q \in Reqs : rdoc'[q] = d
      BY DEF PendingHasJob
    <3>1. row[d] = "PENDING" => Carried(d, Jobs)
      BY DEF CarriedInv, PendingHasJob, Carried
    <3> QED
      BY <1>2, <3>1, RequestCarries DEF CarriedInv
  <2>2. AckCarried'
    <3> SUFFICES ASSUME wpc' = "ack", row'[wdoc'] = "PENDING"
                 PROVE  Carried(wdoc, Jobs \ {wjob})'
      BY DEF AckCarried
    <3>1. /\ wpc = "ack" /\ wjob' = wjob /\ wdoc \in Docs /\ wdoc' = wdoc
          /\ job[wjob].state = "started"
      BY <1>2, RequestEnqueues DEF IInv, WorkerHoldsJob, IngestPC
    <3>2. row[wdoc] = "PENDING" => Carried(wdoc, Jobs \ {wjob})
      BY <3>1 DEF CarriedInv, AckCarried
    <3>3. \A j \in Jobs : job[j].state = "free" => j \in Jobs \ {wjob}
      BY <3>1
    <3>4. \/ \E j \in Jobs \ {wjob} : job'[j].doc = wdoc
          \/ \E q \in Reqs : rdoc'[q] = wdoc
      BY <1>2, <3>1, <3>2, <3>3, RequestCarries DEF CarriedInv
    <3> QED
      BY <3>1, <3>4 DEF Carried
  <2> QED
    BY <2>1, <2>2
<1>3. CASE ~\E r \in Reqs : RequestNext(r)
  <2>1. PendingHasJob'
    BY <1>3, OtherCarries DEF PendingHasJob
  <2> QED
    BY <1>1, <1>3, <2>1, OtherAckCarried DEF CarriedInv
<1> QED
  BY <1>1, <1>2, <1>3 DEF CarriedInv

\* A document is left PENDING without a job only when an API process stops, a call to
\* Redis fails or a write of the database is lost: crashes of the worker, job alarms and
\* S3 errors alone do not do it, however retries, deletions and cleanups interleave
\* (routers/documents.py:414-432, 449-463, services/document_service.py:772-773,
\* workers/ingest.py:91-107, 163-172, workers/failure_handler.py:32-63).
THEOREM PendingCarriedUnlessLost ==
  ASSUME Faults \cap Losing = {}
  PROVE  Spec => []PendingHasJob
<1>1. Init => CarriedInv
  BY DEF Init, CarriedInv, FreeHaveNone, PendingHasJob, AckCarried, FreeJob
<1>2. CarriedInv => PendingHasJob
  BY DEF CarriedInv
<1>3. IInv /\ CarriedInv /\ [Next]_vars => CarriedInv'
  BY NextCarried
<1> QED
  BY <1>1, <1>2, <1>3, Invariant, PTL DEF Spec
--------------------------------------------------------------------------------
(* What lets a user have more documents than the quota.                    *)

\* A request that has counted the documents and has not inserted one yet.
Uploading(r) == rpc[r] \in {"insert", "store"}

\* No two requests are between the count and the insert.
UploadsAlone == \A q, r \in Reqs : Uploading(q) /\ Uploading(r) => q = r

\* No step brings a FAILED document, which the quota does not count, back.
NoneRevived == \A d \in Docs : row[d] = "FAILED" => row'[d] \notin DocumentStatus \ {"FAILED"}

\* The quota holds, with room for the document of the request that has counted.
QuotaInv ==
    /\ IsFiniteSet(ActiveDocs)
    /\ Cardinality(ActiveDocs) <= Quota
    /\ (\E r \in Reqs : Uploading(r)) => Cardinality(ActiveDocs) < Quota

\* Only an upload that has counted inserts a row, and only its own.
LEMMA OnlyUploadsInsert ==
  ASSUME IInv, [Next]_vars, NEW d \in Docs, row[d] = "none", row'[d] # "none"
  PROVE  \E r \in Reqs : InitiateInsert(r, d) \/ UploadStore(r, d)
<1> USE DEF IInv, TypeOK, rowVars, SetStatus
<1>1. ASSUME NEW r \in Reqs, RequestNext(r) PROVE InitiateInsert(r, d) \/ UploadStore(r, d)
  <2>1. ASSUME NEW e \in Docs, InitiateInsert(r, e) \/ UploadStore(r, e) PROVE e = d
    <3>1. CASE InitiateInsert(r, e)
      BY <3>1 DEF InitiateInsert
    <3>2. CASE UploadStore(r, e)
      BY <3>2 DEF UploadStore
    <3> QED
      BY <2>1, <3>1, <3>2
  <2>2. ASSUME NEW e \in Docs, ConfirmCheck(r, e) \/ RetryCheck(r, e) \/ DeleteObject(r, e)
        PROVE  FALSE
    BY <2>2 DEF ConfirmCheck, RetryCheck, DeleteObject
  <2>3. ~ (CountForUpload(r) \/ EnqueueUpload(r) \/ EnqueueConfirm(r) \/ EnqueueRetry(r)
            \/ Abort(r))
    BY DEF CountForUpload, EnqueueUpload, EnqueueConfirm, EnqueueRetry, Abort
  <2>4. ~ (ConfirmCommit(r) \/ WriteFailed(r) \/ RetryCommit(r))
    BY DEF ConfirmCommit, WriteFailed, RetryCommit, Live, DocumentStatus
  <2>5. ~ DeleteRow(r)
    BY DEF DeleteRow, CarriedDocsExist
  <2> QED
    BY <1>1, <2>1, <2>2, <2>3, <2>4, <2>5 DEF RequestNext
<1>2. CASE ~\E r \in Reqs : RequestNext(r)
  <2>1. wpc \in IngestPC => wjob \in Jobs /\ wdoc \in Docs /\ row[wdoc] # "none"
    BY DEF WorkerHoldsJob, CarriedDocsExist, wdoc
  <2>2. ~ IngestNext
    BY <2>1 DEF IngestNext, IngestLoad, IngestBegin, IngestExtract, IngestStore, IngestAck,
       IngestFail, AttemptFailed, FailureCallback, Live, DocumentStatus, IngestPC, wdoc
  <2>3. ~ CleanupNext
    BY DEF CleanupNext, CleanupSelect, CleanupPurge, CleanupCommit, Live, DocumentStatus
  <2>4. ~ RqNext
    BY DEF RqNext, CleanupAbandoned, AbandonedFailed, FailureCallback, RetryDue, Live,
       DocumentStatus
  <2>5. ~ (Crash \/ UNCHANGED vars)
    BY DEF Crash, vars
  <2>6. ASSUME NEW e \in Docs, \/ \E content \in {"good", "bad"} : BrowserPut(e, content)
                               \/ UrlExpires(e) \/ GoesStale(e)
        PROVE  FALSE
    BY <2>6 DEF BrowserPut, UrlExpires, GoesStale
  <2> QED
    BY <1>2, <2>2, <2>3, <2>4, <2>5, <2>6 DEF Next
<1> QED
  BY <1>1, <1>2

\* A request starts to upload when the count is under the quota, and in no other way.
LEMMA UploadsCountFirst ==
  ASSUME IInv, [Next]_vars, NEW r \in Reqs, Uploading(r)'
  PROVE  Uploading(r) \/ (UnderQuota /\ row' = row)
<1> USE DEF IInv, TypeOK, Uploading, rowVars, reqVars, Goto, Done
<1>1. ASSUME NEW q \in Reqs, RequestNext(q) PROVE Uploading(r) \/ (UnderQuota /\ row' = row)
  <2>1. CASE CountForUpload(q)
    BY <2>1 DEF CountForUpload
  <2>2. CASE q # r
    BY <1>1, <2>2, RequestEnqueues
  <2>3. ASSUME NEW e \in Docs, \/ InitiateInsert(r, e) \/ UploadStore(r, e)
                               \/ ConfirmCheck(r, e) \/ RetryCheck(r, e) \/ DeleteObject(r, e)
        PROVE  Uploading(r)
    BY <2>3 DEF InitiateInsert, UploadStore, ConfirmCheck, RetryCheck, DeleteObject
  <2>4. CASE EnqueueUpload(r) \/ EnqueueConfirm(r) \/ EnqueueRetry(r) \/ ConfirmCommit(r)
             \/ WriteFailed(r) \/ RetryCommit(r) \/ DeleteRow(r) \/ Abort(r)
    BY <2>4 DEF EnqueueUpload, EnqueueConfirm, EnqueueRetry, ConfirmCommit, WriteFailed,
       RetryCommit, DeleteRow, Abort
  <2> QED
    BY <1>1, <2>1, <2>2, <2>3, <2>4 DEF RequestNext
<1>2. CASE ~\E q \in Reqs : RequestNext(q)
  BY <1>2, JobsKeepDocs
<1> QED
  BY <1>1, <1>2

\* Every step keeps that invariant as long as uploads are alone and none is revived.
LEMMA NextQuota ==
  /\ IInv /\ ConfirmedInv /\ QuotaInv /\ UploadsAlone
  /\ [Next]_vars /\ [NoneRevived]_vars
  => QuotaInv'
<1> SUFFICES ASSUME IInv, ConfirmedInv, QuotaInv, UploadsAlone, [Next]_vars, [NoneRevived]_vars
             PROVE  QuotaInv'
  OBVIOUS
<1> DEFINE counted == DocumentStatus \ {"FAILED"}
           active == ActiveDocs
           next == ActiveDocs'
<1>1. /\ active \in SUBSET Docs /\ next \in SUBSET Docs /\ IsFiniteSet(active)
      /\ Cardinality(active) \in Nat /\ Cardinality(active) <= Quota /\ Quota \in Nat
      /\ (\E r \in Reqs : Uploading(r)) => Cardinality(active) < Quota
  BY QuotaAssumption, FS_CardinalityType DEF QuotaInv, ActiveDocs
<1>2. ASSUME NEW d \in next, d \notin active PROVE row[d] = "none"
  <2>1. d \in Docs /\ row'[d] \in counted /\ row[d] \notin counted
    BY <1>2 DEF ActiveDocs
  <2>2. row[d] # "FAILED"
    BY <2>1 DEF NoneRevived, vars
  <2>3. Moves(d)
    BY <2>1, StatusMoves
  <2> QED
    BY <2>1, <2>2, <2>3 DEF Moves, DocumentStatus
<1>3. CASE next \subseteq active
  <2>1. IsFiniteSet(next) /\ Cardinality(next) \in Nat /\ Cardinality(next) <= Cardinality(active)
    BY <1>1, <1>3, FS_Subset, FS_CardinalityType
  <2>2. ASSUME NEW r \in Reqs, Uploading(r)' PROVE Cardinality(next) < Quota
    <3>1. CASE Uploading(r)
      BY <1>1, <2>1, <3>1
    <3>2. CASE UnderQuota
      BY <1>1, <2>1, <3>2 DEF UnderQuota
    <3> QED
      BY <2>2, <3>1, <3>2, UploadsCountFirst
  <2> QED
    BY <1>1, <2>1, <2>2 DEF QuotaInv
<1>4. CASE ~ (next \subseteq active)
  <2>1. PICK d \in next : d \notin active
    BY <1>4
  <2>2. d \in Docs /\ row[d] = "none" /\ row'[d] # "none"
    BY <1>2, <2>1 DEF ActiveDocs, DocumentStatus
  <2>3. PICK r \in Reqs : InitiateInsert(r, d) \/ UploadStore(r, d)
    BY <2>2, OnlyUploadsInsert
  <2>4. Uploading(r) /\ ~ Uploading(r)' /\ \A e \in Docs \ {d} : row'[e] = row[e]
    BY <2>3 DEF InitiateInsert, UploadStore, Uploading, Goto, Done, IInv, TypeOK, SetStatus,
       rowVars
  <2>5. next \subseteq active \cup {d}
    BY <2>4 DEF ActiveDocs
  <2>6. /\ IsFiniteSet(active \cup {d})
        /\ Cardinality(active \cup {d}) = Cardinality(active) + 1
    BY <1>1, <2>1, FS_AddElement
  <2>7. /\ IsFiniteSet(next) /\ Cardinality(next) \in Nat
        /\ Cardinality(next) <= Cardinality(active \cup {d})
    BY <2>5, <2>6, FS_Subset, FS_CardinalityType
  <2>8. Cardinality(next) <= Quota
    BY <1>1, <2>4, <2>6, <2>7
  <2>9. ASSUME NEW q \in Reqs, Uploading(q)' PROVE FALSE
    <3>1. ~ Uploading(q)
      BY <2>4, <2>9 DEF UploadsAlone
    <3> QED
      BY <2>2, <2>9, <3>1, UploadsCountFirst
  <2> QED
    BY <2>7, <2>8, <2>9 DEF QuotaInv
<1> QED
  BY <1>3, <1>4

\* A user has more documents than the quota only when two uploads overlap between count
\* and insert, or when a FAILED document, which is not counted, comes back by a retry or
\* a late write (services/document_service.py:263-277, 499-513, 114-160,
\* routers/documents.py:250-257).
THEOREM QuotaUnlessUploadsOverlap ==
  Spec /\ []UploadsAlone /\ [][NoneRevived]_vars => []QuotaRespected
<1>1. Init => ConfirmedInv /\ QuotaInv
  <2>1. SUFFICES ASSUME Init PROVE QuotaInv
    BY NoDocAssumption DEF Init, ConfirmedInv, JobsConfirmed, RequestsConfirmed, FreeJob
  <2>2. ActiveDocs = {}
    BY <2>1 DEF Init, ActiveDocs, DocumentStatus
  <2>3. ~\E r \in Reqs : Uploading(r)
    BY <2>1 DEF Init, Uploading
  <2> QED
    BY <2>2, <2>3, FS_EmptySet, QuotaAssumption DEF QuotaInv
<1>2. QuotaInv => QuotaRespected
  BY DEF QuotaInv, QuotaRespected
<1> QED
  BY <1>1, <1>2, Invariant, NextConfirmed, NextQuota, PTL DEF Spec
--------------------------------------------------------------------------------
(* What stops the cleanup from being scheduled.                            *)

\* No document the running cleanup selected is deleted before the cleanup commits.
NoneDeletedWhileSwept == \A d \in batch : row'[d] # "gone"

\* The cleanup is scheduled, and the rows it selected are still there.
ScheduledInv == sweep = "on" /\ \A d \in batch : Live(d)

\* Every step keeps that as long as nothing it selected is deleted, when nothing fails
\* but the API.
LEMMA NextScheduled ==
  ASSUME Faults \subseteq {"api"}
  PROVE  /\ IInv /\ ConfirmedInv /\ ScheduledInv
         /\ [Next]_vars /\ [NoneDeletedWhileSwept]_vars
         => ScheduledInv'
<1> SUFFICES ASSUME IInv, ConfirmedInv, ScheduledInv, [Next]_vars, [NoneDeletedWhileSwept]_vars
             PROVE  ScheduledInv'
  OBVIOUS
<1> USE DEF ScheduledInv, IInv, TypeOK
<1>1. ASSUME NEW d \in batch PROVE Live(d)'
  <2>1. Moves(d) /\ row'[d] # "gone"
    BY StatusMoves DEF NoneDeletedWhileSwept, vars, Live, DocumentStatus
  <2> QED
    BY <2>1 DEF Moves, Live, DocumentStatus
<1>2. ASSUME NEW r \in Reqs, RequestNext(r) PROVE UNCHANGED <<sweep, batch>>
  BY <1>2 DEF RequestNext, CountForUpload, InitiateInsert, UploadStore, ConfirmCheck, RetryCheck,
     DeleteObject, EnqueueUpload, ConfirmCommit, EnqueueConfirm, WriteFailed, RetryCommit,
     EnqueueRetry, DeleteRow, Abort, workerVars
<1>3. CASE CleanupSelect
  BY <1>3 DEF CleanupSelect, StaleIn, rowVars, Live, DocumentStatus
<1>4. CASE CleanupPurge
  BY <1>4 DEF CleanupPurge, StaleIn, rowVars, Live, DocumentStatus
<1>5. CASE CleanupCommit
  BY <1>5 DEF CleanupCommit, CleanupFailed
<1>6. CASE IngestNext
  BY <1>1, <1>6 DEF IngestNext, IngestLoad, IngestBegin, IngestExtract, IngestStore, IngestAck,
     IngestFail, AttemptFailed
<1>7. CASE RqNext
  BY <1>1, <1>7 DEF RqNext, CleanupAbandoned, AbandonedFailed, RetryDue, workerVars
<1>8. CASE UNCHANGED vars
  BY <1>1, <1>8 DEF vars
<1>9. ASSUME NEW e \in Docs, \/ \E content \in {"good", "bad"} : BrowserPut(e, content)
                             \/ UrlExpires(e) \/ GoesStale(e)
      PROVE  UNCHANGED <<sweep, batch>>
  BY <1>9 DEF BrowserPut, UrlExpires, GoesStale, workerVars
<1>10. ~ Crash
  BY DEF Crash
<1> QED
  BY <1>1, <1>2, <1>3, <1>4, <1>5, <1>6, <1>7, <1>8, <1>9, <1>10 DEF Next, CleanupNext

\* When nothing fails but the API (no crash, no alarm, no error of S3, Redis or the
\* database), the cleanup goes on for ever unless the user deletes a document while the
\* cleanup that selected it runs: then its commit raises and the line that schedules the
\* next run is not reached (workers/tasks.py:146-158, 200-212, 246-296).
THEOREM CleanupGoesOnUnlessDeletes ==
  ASSUME Faults \subseteq {"api"}
  PROVE  Spec /\ [][NoneDeletedWhileSwept]_vars => []CleanupScheduled
<1>1. Init => ConfirmedInv /\ ScheduledInv
  BY NoDocAssumption DEF Init, ConfirmedInv, JobsConfirmed, RequestsConfirmed, FreeJob,
     ScheduledInv
<1>2. ScheduledInv => CleanupScheduled
  BY DEF ScheduledInv, CleanupScheduled
<1>3. /\ IInv /\ ConfirmedInv /\ ScheduledInv
      /\ [Next]_vars /\ [NoneDeletedWhileSwept]_vars
      => ScheduledInv'
  BY NextScheduled
<1> QED
  BY <1>1, <1>2, <1>3, Invariant, NextConfirmed, PTL DEF Spec
--------------------------------------------------------------------------------
(* How far a job is from its end.                                          *)

\* What an attempt has before it; a retry costs one of those that are left.
StepsOfAttempt ==
    [delayed |-> 4, queued |-> 3, started |-> 2, abandoned |-> 1, ended |-> 0]

StepsLeft(j) == 5 * job[j].left + StepsOfAttempt[job[j].state]

JobsAdvance == \A j \in Jobs : /\ job[j].state # "free"
                               /\ job'[j] # job[j]
                              => job'[j].state # "free" /\ StepsLeft(j)' < StepsLeft(j)

\* What becomes of a job, by whatever action, brings it nearer to its end: one that is
\* enqueued changes at most 5 * MaxRetries + 3 times, whether its attempts fail, the
\* worker dies in them or the alarm goes off, and then never again
\* (routers/documents.py:70-76, 449-463, workers/failure_handler.py:32-63).
THEOREM JobsOnlyAdvance == Spec => [][JobsAdvance]_vars
<1>1. IInv /\ [Next]_vars => [JobsAdvance]_vars
  <2> SUFFICES ASSUME IInv, [Next]_vars, NEW j \in Jobs, job[j].state # "free", job'[j] # job[j]
               PROVE  job'[j].state # "free" /\ StepsLeft(j)' < StepsLeft(j)
    BY DEF JobsAdvance
  <2> USE DEF IInv, TypeOK, Job, JobState, StepsLeft, StepsOfAttempt
  <2>1. job[j].left \in Nat /\ job[j].state \in JobState
    BY RetriesAssumption
  <2>2. ASSUME NEW i \in Jobs, RetryOrGiveUp(i), job[i].state \in {"started", "abandoned"}
        PROVE  job'[j].state # "free" /\ StepsLeft(j)' < StepsLeft(j)
    <3>1. i = j
      BY <2>2 DEF RetryOrGiveUp
    <3>2. CASE job[j].left > 0
      <4>1. job'[j].state = "delayed" /\ job'[j].left = job[j].left - 1
        BY <2>2, <3>1, <3>2 DEF RetryOrGiveUp
      <4> QED
        BY <2>1, <2>2, <3>1, <3>2, <4>1
    <3>3. CASE ~ (job[j].left > 0)
      <4>1. job'[j].state = "ended" /\ job'[j].left = 0
        BY <2>2, <3>1, <3>3 DEF RetryOrGiveUp, FreeJob
      <4> QED
        BY <2>1, <2>2, <3>1, <4>1
    <3> QED
      BY <3>2, <3>3
  <2>3. wpc \in IngestPC => wjob \in Jobs /\ job[wjob].state = "started"
    BY DEF WorkerHoldsJob
  <2>4. ASSUME NEW r \in Reqs, RequestNext(r) PROVE FALSE
    <3>1. CASE EnqueueUpload(r) \/ EnqueueConfirm(r) \/ EnqueueRetry(r)
      <4>1. UNCHANGED job \/ \E i \in Jobs : Enqueue(i, rdoc[r])
        BY <3>1 DEF EnqueueUpload, EnqueueConfirm, EnqueueRetry, EnqueueReturned, EnqueueRaised
      <4> QED
        BY <4>1 DEF Enqueue
    <3>2. CASE ~ (EnqueueUpload(r) \/ EnqueueConfirm(r) \/ EnqueueRetry(r))
      BY <2>4, <3>2 DEF RequestNext, CountForUpload, InitiateInsert, UploadStore, ConfirmCheck,
         RetryCheck, DeleteObject, ConfirmCommit, WriteFailed, RetryCommit, DeleteRow, Abort
    <3> QED
      BY <3>1, <3>2
  <2>5. ASSUME NEW i \in Jobs, IngestLoad(i) \/ RetryDue(i)
        PROVE  job'[j].state # "free" /\ StepsLeft(j)' < StepsLeft(j)
    BY <2>1, <2>5 DEF IngestLoad, RetryDue
  <2>6. CASE IngestAck
    <3>1. j = wjob /\ job[j].state = "started"
      BY <2>3, <2>6 DEF IngestAck, IngestPC
    <3>2. job'[j].state = "ended" /\ job'[j].left = 0
      BY <2>6, <3>1 DEF IngestAck, FreeJob
    <3> QED
      BY <2>1, <3>1, <3>2
  <2>7. CASE AttemptFailed
    BY <2>2, <2>3, <2>7 DEF AttemptFailed, IngestPC
  <2>8. ASSUME NEW i \in Jobs, AbandonedFailed(i)
        PROVE  job'[j].state # "free" /\ StepsLeft(j)' < StepsLeft(j)
    BY <2>2, <2>8 DEF AbandonedFailed
  <2>9. CASE Crash
    <3>1. j = wjob /\ job[j].state = "started"
      BY <2>3, <2>9, NoJobAssumption DEF Crash, WorkerHoldsJob
    <3>2. job'[j].state = "abandoned" /\ job'[j].left = job[j].left
      BY <2>9, <3>1, NoJobAssumption DEF Crash
    <3> QED
      BY <2>1, <3>1, <3>2
  <2>10. ~ (IngestBegin \/ IngestExtract \/ IngestStore \/ IngestFail)
    BY DEF IngestBegin, IngestExtract, IngestStore, IngestFail
  <2>11. ~ (CleanupNext \/ CleanupAbandoned \/ UNCHANGED vars)
    BY DEF CleanupNext, CleanupSelect, CleanupPurge, CleanupCommit, CleanupAbandoned, vars
  <2>12. ASSUME NEW e \in Docs, \/ \E content \in {"good", "bad"} : BrowserPut(e, content)
                                \/ UrlExpires(e) \/ GoesStale(e)
         PROVE  FALSE
    BY <2>12 DEF BrowserPut, UrlExpires, GoesStale
  <2> QED
    BY <2>4, <2>5, <2>6, <2>7, <2>8, <2>9, <2>10, <2>11, <2>12 DEF Next, IngestNext, RqNext
<1> QED
  BY <1>1, Invariant, PTL DEF Spec
================================================================================
