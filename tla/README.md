# PDFTalk in TLA+

PDFTalk lets a user upload documents, splits them into chunks with embeddings and answers
questions about them. It is a FastAPI process in front of Postgres (with pgvector), Redis, S3 and
OpenAI, one RQ worker process, and a Next.js client. This directory holds TLA+ modules that model
the parts of it where state and interleaving matter, TLC configurations that check them on small
instances, and TLAPS proofs of every safety property for every instance.

## The system

Paths are relative to `src/backend/app` unless they begin with another directory.

| Component | State it keeps | Operations | Depends on |
|---|---|---|---|
| Document API (`routers/documents.py`, `services/document_service.py`, `models/document.py`) | `documents` rows with a `status` | upload, initiate-upload, confirm-upload, retry, delete (list, status, download only read) | Postgres, S3, the `ingest` queue |
| Ingest worker (`workers/ingest.py`, `failure_handler.py`, `worker.py`) | `chunks` rows; RQ jobs in Redis | `run_ingest`, `_fail`, `handle_ingest_failure` | S3, extraction, chunking, OpenAI |
| Stale cleanup (`workers/tasks.py`) | one self-scheduling RQ job | `cleanup_stale_documents_job`, `setup_stale_document_cleanup` | Postgres, S3, the `default` queue, served after `ingest` |
| Chunking (`services/chunking.py`) | none (a pure function with a buffer) | `chunk_text` | extraction's blocks |
| OpenAI guard, counters (`utils/openai_client.py`, `utils/redis_client.py`, `services/embedding.py`) | circuit breaker keys, daily token and query counters | `_guarded_call`, `check_and_increment_*` | Redis, OpenAI; called by worker and API |
| Sessions (`auth/tokens.py`, `auth/dependencies.py`, `routers/auth.py`) | `refresh_tokens` rows, the cookie | login, refresh (rotation with a 60 s grace), logout, revoke-all | Postgres; driven by `frontend/src/lib/api.ts` and `contexts/AuthContext.tsx` |
| Accounts (`services/user_service.py`, `email_verification.py`, `password_reset.py`) | `users`, `email_verifications`, `password_resets` | register, verify, resend, login with lockout, forgot, reset | Postgres, mail jobs on the `default` queue |
| Chats and answers (`routers/query.py`, `services/llm.py`, `chats.py`, `query_validation.py`) | `chats`, `messages` | ask (SSE), create, rename, delete, truncate | retrieval, prompt, OpenAI |
| Retrieval and prompt (`services/retrieval.py`, `prompt.py`) | none | vector search, context and history budgets | pgvector |
| Orphan sweeper (`backend/scripts/cleanup_s3_orphans.py`, `infra/s3_lifecycle.json`) | none | deletes objects no row names | Postgres, S3 |
| Browser client (`frontend/src`) | access token, chat and upload state | refresh on 401, polling, stream reading, upload | the API, S3 |
| The rest | | rate limiting, admin, alerting, metrics, health, migrations, scripts | |

**How they interact.** The API is one asyncio loop: between two `await`s nothing else of the API
runs, and the boto3 and RQ calls, which are synchronous, block it. Postgres runs READ COMMITTED and
the ORM updates a row by its primary key with what it changed, so a decision taken on a row that
was read in an earlier `await` is applied to whatever the row is now. API and worker share the
rows, the objects and the queue and nothing else. The worker runs one job at a time; its sessions
reload a row after a commit.

**What is hard.** Requests against requests and against the worker (confirm twice, delete while the
ingest runs, count and insert), RQ's retries, the job alarm and the death of a worker against what
an attempt has already written, failures between two of S3, Postgres and Redis, a job that
schedules itself, rotation of a cookie several tabs share, a stream that saves its result at the
end, a page that polls through requests which may fail, a sweeper that compares two listings taken
at different times, and counters in Redis whose TTL and value are set in two calls.
PROJECT.json lists each of these hazards at its line with the properties that are about it.

**What makes each component correct.**

- *Documents:* a READY document has its chunks, once; a deleted one has none; its object is there
  as long as it is READY; no document stays unsettled for ever; jobs end; the quota holds.
- *Chunking:* no token is lost, boundaries do not depend on the blocks, no chunk is mere overlap.
- *OpenAI guard:* an open breaker lets no new call through and closes again; a daily counter counts
  every charge of its day, and no more is given out than the allowance; every call ends.
- *Sessions:* tabs that refresh at once never sign each other out; after revoke-all no token of
  before is worth anything; a dead token stays dead.
- *Accounts:* wrong passwords in a row are counted, and the tenth (`_MAX_FAILED_ATTEMPTS`) locks the
  account for 15 minutes; a mailed link works once, until a newer one replaces it; a reset signs out.
- *Chats:* what is stored reads as it was held; the tab shows what is stored; every ask ends.
- *Prompt:* the budgets are never exceeded, and what is in is the best that fits.
- *Sweeper:* no object of a row is deleted, and an object without one goes.
- *Browser:* a spinner is polled or explained, and polling ends.

## The modules

| Module | What it is |
|---|---|
| `DocLifecycle` | abstract: what the status of a document may do, seen from outside |
| `DocPipeline` | rows, chunks, objects, presigned URLs, RQ jobs, requests, worker, cleanup; implements `DocLifecycle` |
| `MCDocPipeline` | instances of it for TLC (symmetry of requests and jobs) |
| `DocPipelineProofs` | its theorems |
| `DocPage` | the documents page and its polling, over a `DocLifecycle` status |
| `OrphanSweep` | the object in the bucket and the sweeper, over a `DocLifecycle` status |
| `Upload`, `UploadProofs` | composes the two with the upload form, around one status; theorems about the composition |
| `Chunking`, `ChunkingProofs` | `chunk_text` over a stream of blocks, and its theorems |
| `PromptContext`, `PromptContextProofs` | what of the chunks `Chunking` made, and of a chat, fits into a prompt, and its theorems |
| `OpenAIGuard`, `OpenAIGuardProofs` | daily counters, circuit breaker and retries, one Redis command at a time |
| `SessionTokens` | abstract: the life of a refresh token |
| `Sessions`, `MCSessions`, `SessionsProofs` | rows, cookie, tabs, requests and replies; implements `SessionTokens` |
| `Accounts`, `MCAccounts`, `AccountsProofs` | one account: registration, links, logins, resets, as overlapping transactions |
| `ChatStream`, `ChatStreamProofs` | one chat: asks and their streams, changes to the chat, the tab that shows it |

Most modules have a section *Plausible mistakes*: definitions with the parameters of one that models
code and a bug in it. No specification uses them; each shows that a property can fail, when it is
put in the place of the definition its comment names.

### DocPipeline

A step is what happens between two points where another process can get in. The variables:

- `row[d]` is the `status` column (`none` before the INSERT, `gone` after the DELETE; ids are
  UUIDs and never reused), `stale[d]` whether `updated_at` is older than the cutoff for that status.
  The database trigger of migration 0008 refreshes `updated_at` on every write.
- `copies[d]` is how often the document's complete chunk set is in the table; what is in a chunk is
  the business of `Chunking`. The chunks of a run are written in one commit, so a part of a set is
  never there.
- `object[d]` is the S3 object: absent, of the declared size (`good`), or of another (`bad`).
  `url[d]`: a presigned PUT URL is out. It binds the key, not the size and not the number of
  PUTs, so `BrowserPut` may happen again until `UrlExpires`.
- `job[j]` is an RQ job with the retries it has left; `wpc`, `wjob`, `loaded`, `batch` are the
  worker's place in its job, the job, the status its session loaded, and the cleanup's selection;
  `sweep` says what Redis knows of the cleanup job.
- `rpc[r]`, `rdoc[r]` are requests in progress. A request's snapshot needs no variable of its own:
  the guards let it past only with one status.
- `late[d]` is a history variable: how often a confirm wrote PENDING over something other than
  PENDING_UPLOAD.

| Code | Actions |
|---|---|
| `upload_document` and its endpoint | `CountForUpload`, `UploadStore`, `EnqueueUpload`, on failure `DeleteRow` |
| `initiate_upload` | `CountForUpload`, `InitiateInsert` |
| `confirm_upload` and its endpoint | `ConfirmCheck`, `ConfirmCommit`, `EnqueueConfirm`, `WriteFailed` |
| `retry_document_endpoint` | `RetryCheck`, `RetryCommit`, `EnqueueRetry`, `WriteFailed` |
| `delete_document` | `DeleteObject`, `DeleteRow` |
| a request that raises or dies | `Abort` |
| `run_ingest`, `_run`, `_fail` | `IngestLoad`, `IngestBegin`, `IngestExtract`, `IngestStore`, `IngestAck`, `IngestFail` |
| RQ and `handle_ingest_failure` | `AttemptFailed`, `AbandonedFailed`, `RetryDue`, `CleanupAbandoned` |
| `cleanup_stale_documents_job` | `CleanupSelect`, `CleanupPurge`, `CleanupCommit`, `GoesStale` |
| worker death, container restart, `setup_stale_document_cleanup` | `Crash` |

`NetWrite` is what the ORM does on a flush: the status column is part of the UPDATE only if the
value assigned differs from the one the session loaded. It matters in `_fail` and when a run marks
PROCESSING a row that another request has changed since.

The commit of READY is not the end of a run. `db.commit()` expires the row, the metrics load it again
(`loaded` is `none` until then), and an alarm, an error or a row that is gone makes it a failed run:
`IngestAck` then goes to `IngestFail` or to RQ's callback, which write FAILED over READY. A failed
cleanup (`CleanupFailed`) rolls back and schedules nothing, and it fails for more than the database: S3
calls that get no answer are no `ClientError`, and the alarm counts for it, too.

`Faults` turns kinds of failure on and off: `api` (a request stops anywhere), `crash`, `timeout`
(the job alarm), `redis`, `s3`, `db`. Redis may take a job and lose the reply. RQ is external and
modelled from how the code uses it: whether the failure callback runs while retries are left
depends on RQ's version and on the way the job failed, so it is left open.

### Chunking

A token is its position in the stream. The buffer is always a suffix of what was read, so two
numbers describe it. `TakeBlock` adds a block of any length (blank blocks are skipped), `Cut` is a
turn of the `while` loop, `Finish` the trailing chunk. That a block boundary may change how the
text is tokenised is outside the model; that it does not change where chunks begin is `ChunkGrid`.

### PromptContext

Pure operators over the chunks of `Chunking` and another, shorter document of the same chat. `Found`
is any ranking of at most `TopK` rows, fewer when the approximate index or a deletion makes them
fewer; `Relevant` is the distance filter, which gives all rows back if none is near; `ContextBlock`
and `HistoryBlock` are the two loops of `prompt.py`, each a recursive function of the number of
turns; `IsFallback` is the flag of `routers/query.py`. The reference is not the loop again: a
selection of chunks is the best if no other one within the budget has a chunk that ranks higher than
all it gives up for it.

### OpenAIGuard

A caller (`call[c]`) is an ask or an ingest; a document of several batches has a call for each, all
started at once (`NextBatch`). Its `pc` is the Redis command or answer it waits for. `used` and
`usedEnd` are the daily counters and their TTLs, `failures`/`failEnd` and `openUntil`/`openEnd` the
breaker's two keys; `Tick` drops keys that expire. The clock stands still while somebody is between
two Redis commands: that is the assumption that Redis is fast beside seconds. `Abort` takes a caller
out at any point, between the two commands of an increment included. `charged`, `admitted`, `trips`,
`tripEnd`, `since`, `lost` are history variables.

| Code | Actions |
|---|---|
| `check_and_increment_*`, `increment_counter_by` | `Start`, `SetCounterTTL`, `StreamEnds` |
| `_guarded_call` | `Check`, `Succeeds`, `RateLimited`, `Wake`, `ServerError` |
| `_record_failure`, `increment_counter` | `SetFailureTTL`, `Trip` |

### Sessions and SessionTokens

`row[t]` is the row of a refresh token by its age: `fresh`, in `grace` after its first use, `spent`
when that is over, `expired`. `jar` is the one cookie, `auth[tab]` the access token in the memory of
a tab. A request takes the cookie of the moment it is sent (`Send...`), is looked up (`Lookup`), and
writes later what it decided then (`Rotate`); its reply changes the cookie when it arrives
(`Receive`), in any order; any message may be lost (`Lose`). `DELETE /auth/sessions` deletes the
rows it saw when it began. In `SessionTokens` there are no rows, requests or clocks, only tokens
that are alive and exchanges that were granted: `alive` is mapped to the tokens in `fresh` and
`grace`, `granted` to the requests between `Lookup` and `Rotate`.

### Accounts

A request is a transaction at READ COMMITTED in two or three steps: it reads when it starts, a
DELETE sees the rows committed when it starts and waits for rows that others hold, and everything
becomes visible at the commit. The link is mailed before that (`EndDelete` queues it, `CommitLink`
stores it). `Fail` rolls back anything at any point. A password is named by the link it was set with,
so that a session knows which password it was for. `uses`, `mixed`, `tries`, `alone` are history
variables.

Sessions change beside logins and resets as well: `Rotate` reads a row, `MarkSpent` sets `revoked_at` and
so locks it (a row in its grace period is not written, and not locked), `CommitRotate` stores the
successor; `SessionEnds` is a logout, revoke-all or a row past its time. The DELETE of a reset waits for
rotations that have locked one of its rows, and a rotation that waits for the DELETE finds no row and
raises. How tokens succeed each other in the browser is the business of `Sessions`; here a session is
the password of the login it descends from, so that rows which agree in that are one.

### ChatStream

An ask is two transactions and a stream between them (`AskBegin`, `AskRead`, `AskCommit`;
`StreamToken`, `StreamDone`, `StreamFails`, `StreamCancelled`; `SaveAnswer`). `created[m]` is the
start of the transaction that stored `m`, because the column defaults to `now()`. The tab has its
own end of the stream (`Send`, `ReceiveDone`, `ReceiveError`, `Abort`, `ConnectionBreaks`), shows
rows and temporary messages, and reloads the chat after [DONE] (`LoadRead`, `LoadDone`), as it does
when the chat is opened again. `Retry` and `Truncated` are the two halves of `retryMessage`: looking
up the message, and deleting from there on and asking again. `DeleteChat` is the commit of a deletion
and `DeleteAnswered` what its reply does to the tab. `beside`, `orphaned`, `unread`, `stale` are history
variables.

Each request of the tab has its `catch`: `LoadFails`, `TruncationLost`, `TruncationFails` and
`DeleteLost` leave the view as it was, whether the server has done the work or not. `stale` says whether
what is shown can be relied on: `maybe` after a request that failed or lost its reply, two reloads at
once, or one while rows were deleted; `mending` while a reload without any of that is under way; `no`
again when it is answered. Picking the chat that is active already is a reload like the one after
[DONE] and is left out.

### Upload, DocPage, OrphanSweep, DocLifecycle

`DocLifecycle` has one variable, the status, and says what may become of it: only the first insert
makes it PENDING_UPLOAD, an ingest never completes for a document that was not confirmed, a deleted
document stays so. It is looser than the transition table of `models/document.py`, because requests
act on what they read earlier. The run `pipeline` shows that every row of `DocPipeline` moves this
way (`DocumentLife`); the browser's page and the sweeper are then modelled around a status that does
whatever `DocLifecycle` allows, instead of the whole pipeline.

`DocPage` has the list, the card, and one polling loop with its answers on their way; a round may take
up to the whole timeout. A delete aborts the loop: a pause ends at once, a request goes on to the
next round. `OrphanSweep` has the object's age in two values (`young`, `old`: more than the hour of
the buffer), the keys the sweeper read (`tracked`) and the time it read after them (`ripe`: the
object was old then). Three durations are compared there that no code compares: an object cannot get
old while its URL is valid (15 minutes), before the direct upload has inserted its row (seconds), or
while the sweeper is between reading the keys and the time (one query).

## The runs

| Run | Instance | Shows |
|---|---|---|
| `pipeline` | 1 document, 2 requests, 2 jobs, no automatic retry, all faults | `TypeOK`, `ReadyHasChunks`, `SurplusOnlyFromLateConfirms`, `NoChunksWithoutIngest`, `WorkerKeepsReady`, `ReadyObjectOnlyDeletedWithDocument`, refinement `DocumentLife` |
| `pipeline_live` | 1 document, 1 request at a time, 1 job with 2 retries, all faults, `FairSpec` | `Settles`, `JobsEnd` |
| `chunking` | size 5, overlap 2, up to 40 tokens; the first 3 of every ranking, context of 13, history of 4 | `TypeOK`, `NothingLost`, `ChunkGrid`, `LastChunkIsNew`, `PromptFillsBudgets` |
| `guard` | 2 callers at a time, 3 in all, 2 attempts, breaker at 2 failures, 2 days of 3 units, `FairSpec` | `TypeOK`, `AllowanceHolds`, `CounterCoversDay`, `FailureWindowEnds`, `NobodyLetInWhileOpen`, `CallsEnd` |
| `sessions` | 2 tabs, 2 requests, 3 tokens, 1 lost message, 1 expired row, 1 revoke-all | `TypeOK`, `CookieStaysFresh`, `RevokeAllReachesAll`, refinement `TokenLife` |
| `accounts` | 2 requests, 3 links, lock at the second wrong password | `TypeOK`, `LinksWorkOnce`, `NewestLinkOnly`, `FailuresCounted`, `ResetSignsOut`, `LinksKeptUntilReplaced` |
| `chats` | 2 asks, `FairSpec` | `TypeOK`, `ReadsAsHeld`, `AnswersHaveQuestions`, `ShowsWhatIsStored`, `AsksEnd` |
| `upload` | 1 document, 2 rounds of polling, `FairSpec` | `TypeOK`, `SpinnersEnd`, `SweepSparesDocuments`, `PollingEnds`, `OrphansGo` |
| `confirm_enqueue` | 1 document, 1 request, Redis failures | violated: `PendingHasJob` |
| `double_confirm` | 1 document, 2 requests, 2 jobs, no faults | violated: `ReadyHasOneCopy` |
| `quota_race` | 2 documents, 2 requests, quota 1, no faults | violated: `QuotaRespected` |
| `cleanup_delete` | 1 document, 1 request, no faults | violated: `CleanupScheduled` |

**Why the bounds are enough.** Documents share only the worker, the queue and the quota, and every
safety property speaks of one document, so one is enough for all but the quota. Two requests give
every race of two (confirm with confirm, retry with delete); a third would have to race with a pair
that already wrote. Two jobs allow a second ingest while the first is queued, running, delayed or
abandoned; with the automatic retry off, a second run of a failed document comes from the user's
retry or the other job, which take the same path. Jobs are spent, not reused: with both ended, an
enqueue cannot be taken, and the request stays where it is or aborts. The proofs put no bound on any
of these. In `pipeline_live` the retries are on, because the number left is the larger part of the
measure that makes jobs end (`JobsOnlyAdvance`, below). Chunking is checked over texts of more than
ten chunks, in every split; of their chunks, two full ones fit the context with a token to spare, so
that a row is skipped and a short one behind it is not.

The races of the other modules are races of two: two callers, two requests, two asks (one of which
may be the retry of the other), one sweeper against one document. In `guard`, the third caller
comes when one of two has opened the breaker; 2 days let a TTL of yesterday meet today's key. In
`sessions`, 3 tokens are a login and two rotations of it, side by side or in a chain. In `accounts`,
3 links are two that replace each other and a third of the other kind, and the lock comes at the
second wrong password (10 in the code): the first is counted, the next one locks, and what comes in
between only adds one more; `AccountsProofs` leaves the number open. In `upload`, 2
rounds are one that goes on and one that gives up, and a round may also take up all the time.

Deadlock is not checked because the systems may stop: no user need ask for anything, and a text ends.

**Symmetry** of requests, jobs and tabs is used in safety runs only.

**Fairness.** In `DocPipeline`, `FairSpec` assumes that the worker goes on with its job and takes the
next (weak fairness of the ingest steps and of the cleanup steps), that RQ's scheduler releases a
delayed job, that time passes (`GoesStale`), and that RQ's maintenance gets to an abandoned job although
cleanups keep starting (strong fairness: it runs every few minutes between jobs). Users, browsers and
requests owe nothing: a request may stop anywhere. `Crash` may happen again and again; fairness of the
worker means that not every attempt is cut short for ever: an attempt a crash cuts short uses up a
retry.

In `OpenAIGuard` a caller goes on (weak fairness of its steps): the OpenAI client and the Redis client
have timeouts, and a sleep ends. In `ChatStream` the server goes on with an ask it was sent, which
`STREAM_CHUNK_TIMEOUT` guarantees when the model goes silent (`StreamFails`), and the tab takes what
has arrived; the tokens, the end of the answer and every step of the user owe nothing. In `Upload` the
timers and requests of a polling loop go on, the presigned URL expires, time passes for an object
(strong fairness: puts start its age anew while the URL is valid), and the sweeper is started again;
each of its steps is strongly fair, because a run may fail at any of them and the next day's run
must get through some time. `Sessions` and `Accounts` are safety only: nothing in them has to happen
that a user or a network does not decide.

`Settles` carries the condition that the cleanup loop is alive (`sweep = "on"`), because the code
does not guarantee that it is: `cleanup_delete` shows how it dies.

## What is proved

Every safety property that a run checks, action properties and both refinements included, is also
proved for every value of the constants that satisfies the named assumptions. The theorems are
`THEOREM Spec => []...` or `Spec => ...` for an action property or a refinement; fairness plays no part
in them.

| Module | Theorems (property) | For any |
|---|---|---|
| `DocPipelineProofs` | `TypeCorrect` (`TypeOK`), `ReadyAlwaysHasChunks` (`ReadyHasChunks`), `ChunksOncePerConfirm` (`SurplusOnlyFromLateConfirms`), `NoOrphanedChunks` (`NoChunksWithoutIngest`), `OnlyFailedRunsUndoReady` (`WorkerKeepsReady`), `ReadyKeepsItsObject` (`ReadyObjectOnlyDeletedWithDocument`), `StatusesRefineLifecycle` (`DocumentLife`) | documents, requests, jobs (finite or not), retries, quota, kinds of failure; `NoJob`, `NoDoc` outside their sets |
| `ChunkingProofs` | `ChunkingTypeCorrect`, `NoTokenLost` (`NothingLost`), `ChunksOnGrid` (`ChunkGrid`), `NoChunkIsOverlapOnly` (`LastChunkIsNew`) | chunk size, smaller overlap, text |
| `OpenAIGuardProofs` | `GuardTypeCorrect`, `AllowanceIsKept` (`AllowanceHolds`), `NothingChargedIsLost` (`CounterCoversDay`), `BreakerLetsNobodyIn` (`NobodyLetInWhileOpen`), `FailuresCountInOneWindow` (`FailureWindowEnds`) | callers, limits, threshold, periods, attempts, length of a day; the breaker's key lives at least as long as it is open |
| `SessionsProofs` | `SessionsTypeCorrect`, `RevocationReachesAll` (`RevokeAllReachesAll`), `TabsKeepOneFreshCookie` (`CookieStaysFresh`), `SessionsRefineTokenLife` (`TokenLife`) | tabs, requests, tokens, lost messages |
| `AccountsProofs` | `AccountsTypeCorrect`, `LinksAreUsedOnce` (`LinksWorkOnce`), `LinksStayUntilReplaced` (`LinksKeptUntilReplaced`), `OneLinkOfAKind` (`NewestLinkOnly`), `WrongPasswordsAreCounted` (`FailuresCounted`), `ResetsSignOut` (`ResetSignsOut`) | requests, links, a lock at the second wrong password or later |
| `ChatStreamProofs` | `ChatTypeCorrect`, `ChatsReadAsHeld` (`ReadsAsHeld`), `AnswersFollowQuestions` (`AnswersHaveQuestions`), `TabShowsWhatIsStored` (`ShowsWhatIsStored`) | questions |
| `UploadProofs` | `UploadTypeCorrect`, `NoSilentSpinner` (`SpinnersEnd`), `SweeperSparesDocuments` (`SweepSparesDocuments`) | length of the polling |
| `PromptContextProofs` | `BudgetsFilled` (`PromptFillsBudgets`), from `ContextIsBest` (any ranked rows without repetition) and `HistoryIsLongest` (any messages) | budgets with room for one chunk and its label, size and overlap of chunks, text, ranking |

Two more kinds of theorem say what no run could: that the causes of the four violations are the only
ones, and that what must end comes nearer to its end with each step.

| Theorem | What it states | Goes with |
|---|---|---|
| `OneCopyUnlessConfirmsOverlap` | `Spec /\ []ConfirmsAlone => []ReadyHasOneCopy`: a READY document has its chunks once, if no other request is about a document while a confirm of it is between check and write | `double_confirm` |
| `PendingCarriedUnlessLost` | without the faults `api`, `redis` and `db`, `Spec => []PendingHasJob` | `confirm_enqueue` |
| `QuotaUnlessUploadsOverlap` | `Spec /\ []UploadsAlone /\ [][NoneRevived]_vars => []QuotaRespected`: the quota holds if one upload at a time is between count and insert and no FAILED document comes back | `quota_race` |
| `CleanupGoesOnUnlessDeletes` | when nothing fails but the API (`Faults \subseteq {"api"}`), `Spec /\ [][NoneDeletedWhileSwept]_vars => []CleanupScheduled` | `cleanup_delete` |
| `JobsOnlyAdvance` | every change of an enqueued job lowers `StepsLeft`, at most `5 * MaxRetries + 3` | `JobsEnd` |
| `CallsOnlyAdvance` | every step of a call lowers its `StepsLeft`, at most `4 * (2 * Attempts + 5)` | `CallsEnd` |
| `PollingOnlyAdvances` | every step of the polling loop lowers `PollSteps`, at most `4 * HardTimeout + 1` | `PollingEnds` |
| `AsksOnlyAdvance` | every step of the server on an ask lowers `StepsOfAsk`, at most 7 | `AsksEnd` |
| `NoTabWaitsForNothing` | the tab's end of an open stream is owed a last event or has one on the way, and the spinner belongs to such an ask | `AsksEnd` |

Few of these properties are inductive. What each of them rests on is an inductive invariant with a
name, which was model-checked on the instance of the run (or on the one named here) before it was
proved.

**The pipeline.** Whether a run may add its chunks depends on what it knows from the moment it
loaded the row. `IInv` adds to `ReadyHasChunks` and `SurplusOnlyFromLateConfirms`

- `CarriedDocsExist`: jobs and requests are about documents that were inserted, so no chunk is ever
  written for a document that was not;
- `WorkerHoldsJob`: the worker is in an ingest exactly while it holds a started job;
- `PendingCopies`: a PENDING row has chunks only if a late confirm made it PENDING again;
- `RunInv`: until a run commits, the row is not READY (only the worker makes it so, and it is busy), and
  a failed run that finds it READY has completed it or found it so; a run that found PENDING found no
  chunks beyond the late confirms, and one that found PROCESSING or FAILED dropped them; a confirm
  during the run is counted in `late` and pays for the set the run is about to add;
- `SweepInv`: the cleanup's selection exists only while it runs, and none of it becomes READY.

`OnlyFailedRunsUndoReady` then follows because a step that moves no request is one of the worker's,
RQ's, the browser's or time's (`RequestMoves`), and `RunInv` and `SweepInv` say that such a step of a
busy worker is about a READY row only at the end of a failed run that had finished. That a finished run
may fail there is what the code does; the property says that nothing else takes READY away.

*The refinement.* `DocLifecycle` lets nobody process or complete a document that was not
confirmed. That is `ConfirmedInv`: the document of a job, and of a request past its confirmation,
is no longer PENDING_UPLOAD; no row returns to PENDING_UPLOAD, so what was confirmed once stays so
for jobs that run much later. With it and `IInv`, `StatusMoves` shows that every step moves every row
as `DocLifecycle` allows, or not at all.

*The four violations.* A run shows that something can go wrong; these theorems show what else it
would take, with every other interleaving and fault still allowed.

- `OneCopyInv` (TLC: 1 document, 2 requests, 2 jobs, 1 retry, all faults): a row that is PENDING has
  no chunks, nor has one whose confirm is between check and write, which no job is about either; a run
  that is about to add chunks has dropped those before it or found none. Every retry, callback and
  abandoned job is in it; only the second confirm breaks it.
- `CarriedInv` (TLC: the same instance without those three faults): a row PENDING when its run is
  acknowledged is some other job's, or still a request's. An S3 error, the death of the worker and a
  job alarm are allowed, so that of all the faults only a stopped API process, a failed call to Redis
  and a lost write strand a document.
- `QuotaInv` (TLC: 2 documents, quota 1, 1 job, faults `api`, `s3`, `db`): while a request is between
  count and insert there is room for its document. The proof needs the second hypothesis: a FAILED
  document is not counted, and a retry or a late write brings it back beside the one that took its
  place. `NoneRevived` excludes exactly that.
- `ScheduledInv` (TLC: 1 document, 2 requests, 2 jobs, fault `api`): what the running cleanup has
  selected is still there, so its commit does not raise. Each of the other faults stops the loop by
  itself: a crash, the alarm, S3 that does not answer, the database, Redis when the next run is
  scheduled.

**Chunking.** `CInv` says that outside `done` all chunks are full and on the grid, that the buffer
begins where the next chunk will, that it holds at least the overlap once there is a chunk and less
than a chunk between blocks, and that everything before the buffer's end of overlap is covered.

**OpenAI guard.** `QuotaInv`: a counter holds all charges of its day (`CountersHoldAll`) and no TTL ends
before its day does (`KeysOutliveTheirDay`). The first charge of a day, whose caller is between INCR and
EXPIRE, is counted and not admitted yet (`FirstIsPending`), and there is one such caller for each
counter (`OneFirst`). So a charge is admitted only when everything admitted so far was in the number
that was compared with the limit. Days are `now \div Day`; the lemmas of the section *Days* are the
arithmetic of TTLs and midnights. `BreakerInv`: until the last trip runs out the key that keeps the
breaker open is there, so whoever looks sees it. `FailureInv`: failures that count have a window that
began with the first, or its caller is about to set it, or died.

**Sessions.** `RevokeInv`: a row that is there, of whatever age, descends from a login since the last
revocation or from what overlapped one, and what a revocation under way has not seen overlaps it.
`CookieInv`: as long as nothing excuses it, no reply under way clears the cookie, every cookie presented
is in use or in grace, a token on its way to the browser is fresh and nobody else has it, and if the
cookie itself was used, its successor is on its way. *The refinement* maps steps on rows to steps on
live tokens: `Lookup` of a usable token grants an exchange, `Rotate` performs it, and a row never gets
younger.

**Accounts.** `AloneInv` is about overlap itself: a request that counts as alone has no other of its
sort beside it. `LinksInv`: a row is held by one transaction at a time, links are numbered as they are
mailed, a link that is mailed and not committed belongs to one request, and a row that is there was
not used. `ReplacedInv`: what a request's DELETEs missed was committed by one that overlapped it.
`LoginsInv`: a login that is alone knows the count. `SignedOutInv`: the sessions a reset about to commit
has not seen are of those its DELETE overlapped, and a session of another password than the user's is one
of them or descends from one.

**Chats.** `TimesInv`: rows are stored by asks that got that far (`WrittenInv`), none is younger than
the clock, asks under way together are beside each other, and what is stored when an ask reads is older
than its question, or another ask is beside it (`HistoryInv`; the question has its time before it is
read, and `created_at` is not the commit). `AnswersFollowQuestions` needs the order of times: a truncation
cuts by `created_at`, and takes the answer with its question because the answer is younger.
`ViewInv` is about the view, and says what `stale` is worth. `SeenInv`: what is shown or was read by a
reload was stored once. `CutInv`: the question a truncation starts from is there as long as the chat
is. `ReloadInv`: unless `stale` is `maybe` there is one reload at a time; what it has read is there, what
it has not read was stored since and not shown, and it has the questions of the asks that were done.
`FreshInv`: when `stale` is `no`, what is shown is there, a chat that is gone is shown no longer than until
the tab hears of it, and the reload after [DONE] has replaced the temporary ids.

**Upload.** `SpinnersEnd` is inductive. `SweepInv`: an object that is old when the sweeper reads the
time had its row before the sweeper read the keys, so if it was not among them its document is gone.

**Prompt.** What a loop computes takes induction over its turns; `LoopInduction` gets it from the least
element of a set of numbers (`LeastNumber`), and `LoopRuns` from that the function which a recursive
definition denotes. `BestContext` and `LongestHistory` speak of sums over sets and sequences; with
running sums (`SumsExist`, `SumsCompare`) each turn compares with them. For the context the argument is
the one of every greedy choice: suppose a selection that fits has a chunk ranked above all it gives up
for it. The loop skipped that chunk because it did not fit beside those before it, which the selection
has too; so it does not fit. For the history: the loop stops at the first message that does not fit,
and longer ends only cost more. That a function of the number of turns with that definition exists is
a lemma as well (`ContextRuns`, `HistoryRuns`), and so is its type.

**Measures.** `StepsLeft` of a job is five for each retry left and the stage of its attempt, so that the
delayed retry after a failure is still a step down. `StepsLeft` of a call counts its stages (charge,
embed, chat, bill) before what is left of the one it is in, `PollSteps` four for each round of polling
left, and `StepsOfAsk` counts what the server has yet to do. `StageInv` and `PollInv` are the invariants
they need: a caller's Redis command belongs to its stage, and the loop asks only before its timeout.
A polling that is over may begin again, when the page is opened, and an idle caller with another call;
an ask or a job that ended does not. All of them were checked by TLC on the instances of `guard`,
`upload` and `chats`, and for jobs with one job, two requests and one retry. `TabsAreServed` is inductive
with the types.

**Only model-checked.** Liveness (`Settles`, `JobsEnd`, `CallsEnd`, `AsksEnd`, `PollingEnds`,
`OrphansGo`): the prover has no rules for fairness and ENABLED. For four of them the measure is proved,
so what is left to TLC is that a step which is owed is taken at last. The four violations are single
behaviours that TLC finds.

## Where code and documentation disagree

Four disagreements have a run (`confirm_enqueue`, `double_confirm`, `quota_race`, `cleanup_delete`;
see the findings in PROJECT.json), and for each a theorem shows that its causes are the only ones
(above). Others that the model follows the code in:

- `models/document.py:45` calls READY terminal. A confirm or a retry with an outdated snapshot, the
  callback of an abandoned job and `WriteFailed` may write over it; so does the end of the very run that
  wrote READY, when it fails after its commit (`workers/ingest.py:172-193`). Its chunks stay until the
  retry.
- The cleanup writes PENDING -> FAILED directly; the transition table (`models/document.py:43`) has
  no such move.
- `workers/tasks.py:225-226`: a PENDING_UPLOAD document past its window "can never be successfully
  confirmed"; `confirm_upload` has no such check and confirms it until the cleanup has run.
- `workers/tasks.py:74-75`: a FAILED row "can never re-enter the ingest pipeline"; retry does that,
  and then the object the cleanup deleted is missing.
- `workers/tasks.py:24-30`: an object without a row "cannot occur"; it does when a document is
  deleted while its URL is still valid and the browser PUTs, or when the direct upload's insert and
  its undo both fail.
- `utils/s3_client.py:120` calls the URL valid for a single PUT; a presigned PUT can be repeated.
- `workers/tasks.py:37-39` says the lifecycle rule is scoped to the upload prefix;
  `infra/s3_lifecycle.json` has the empty prefix, which is every object.
- `utils/redis_client.py:104` says PERSIST is a no-op if the key has a TTL; it removes it.
- `auth/tokens.py:224` says rotation deletes the row; it marks it revoked and honours it for 60 s.
  `frontend/src/lib/auth.api.ts:110` says the same ("one-time-use"). A logout deletes the row of the cookie
  it was sent, and leaves a predecessor in its grace alone.
- `frontend/src/lib/auth.api.ts:120` says `refreshToken` throws an ApiError on 401; it throws a plain
  Error (line 135), so that `apiFetch` (`lib/api.ts:291`) never logs out when a refresh fails.
- Replies change the cookie when they arrive: a late reply to a logout or to a refused refresh clears
  a cookie that another tab has just renewed by logging in.
- `routers/auth.py:115` calls the user committed when the mail fails; the commit comes later, and a
  Redis error is not a RuntimeError: the request fails and the user is rolled back.
- `consume_reset_token` deletes an expired row and raises, which rolls the deletion back
  (`password_reset.py:87-91`); `verify_token` does the same and keeps it, because its handler turns
  the error into a redirect. A reset changes the password and leaves counter and lock as they are.
- `workers/tasks.py:114-118` calls the deletion of an object best-effort, with any other error
  (permissions, network) logged and skipped; only `ClientError` is caught, so that a network error ends
  the cleanup and its schedule.
- `routers/query.py:183` sends [DONE] before the answer is saved, so that the reload it causes may
  come too early; a rename between reading a chat and storing its first question is overwritten
  (`routers/query.py:104`); the confirmation dialog of a retry does not look at `isStreaming`
  (`chat/page.tsx:270`), so that a retry may run beside a stream; loads of a chat that were started
  for another purpose bring it back to the front (`ChatContext.tsx:65`).
- `services/retrieval.py:272` says that when every chunk is too distant the prompt builder gives the
  model a hint; it does so only when no chunk is included (`prompt.py:167`), and distant ones are.
- `services/prompt.py:78`: "as many whole chunks as possible" is as many as fit in the order of their
  rank; several small ones are given up for a better one. The separators are not counted.
- The quota is exceeded without a race, too: a FAILED document does not count
  (`document_service.py:268`), another one may take its place, and the retry that takes it back into
  the pipeline (`routers/documents.py:233`) counts nothing. `QuotaUnlessUploadsOverlap` shows that there
  is no third way.
- A delete of a document aborts its polling; a request under way is answered, shown, and the loop
  ends at its next round.

## The plan

Every component whose state matters has its module, every safety property of a run its theorem,
every violation its causes, and most liveness properties their measure. What is left is the measure for
`Settles` and `OrphansGo`, which depend on several components at once: a document settles when its jobs
end and the cleanup comes round, an object goes when its URL has expired and the sweeper comes round.

## What is not modelled

Extraction and validation (third-party parsers; they fail or they do not), the vector search, the
rate limiter's counters (an external library), password hashing, mail text, metrics, logging,
alerting, the admin endpoints (they only read), `chunk_service` (nothing calls it), migrations,
deployment, the lifecycle rule of the bucket and the pages' layout. Creating a chat is one INSERT and
the initial state of `ChatStream`; lists of chats and documents are only read. Postgres is taken at
READ COMMITTED with atomic commits, S3 as an atomic store, Redis as atomic per call (MULTI/EXEC is
one). Keys of daily counters may outlive their day, because PERSIST takes their TTL; nothing reads
them again, and no property speaks of them.
