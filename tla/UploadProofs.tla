------------------------------- MODULE UploadProofs -------------------------------
(***************************************************************************)
(* Proofs about Upload and the modules it is composed of, for any number   *)
(* of rounds of polling.                                                   *)
(***************************************************************************)
EXTENDS Upload, TLAPS

--------------------------------------------------------------------------------
(* Types.                                                                  *)

\* Before anything happens, the types are right.
LEMMA InitType == Init => TypeOK
<1>1. Init => /\ page \in BOOLEAN /\ aborted \in BOOLEAN /\ notice \in BOOLEAN
              /\ url \in BOOLEAN /\ tracked \in BOOLEAN /\ ripe \in BOOLEAN
              /\ swept \in BOOLEAN
  BY Zenon DEF Init, PageInit, SweepInit
<1>2. Init => elapsed \in 0..HardTimeout
  BY HardTimeoutAssumption DEF Init, PageInit
<1> QED
  BY <1>1, <1>2, Zenon DEF Init, LifecycleInit, PageInit, SweepInit, TypeOK, PageTypeOK,
     SweepTypeOK

\* What a document's status becomes is again a status.
LEMMA LifecycleType ==
  ASSUME TypeOK,
         Initiate \/ Store \/ Confirm \/ Process \/ Complete \/ Fail \/ Delete
  PROVE  status' \in {"none", "gone"} \cup DocumentStatus
BY DEF Initiate, Store, Confirm, Process, Complete, Fail, Delete, DocumentStatus

\* The page's steps keep the types of its variables and of the status.
LEMMA PageStepType ==
  ASSUME TypeOK, PageNext
  PROVE  PageTypeOK' /\ status' \in {"none", "gone"} \cup DocumentStatus
<1> USE DEF TypeOK, PageTypeOK, Answer, Asks, Exists
<1>1. CASE OpenPage
  BY <1>1 DEF OpenPage
<1>2. CASE ClosePage
  <2>1. page' \in BOOLEAN /\ aborted' \in BOOLEAN /\ notice' \in BOOLEAN
    BY <1>2, Zenon DEF ClosePage, Closed
  <2>2. elapsed' \in 0..HardTimeout
    BY <1>2, HardTimeoutAssumption DEF ClosePage, Closed
  <2> QED
    BY <1>2, <2>1, <2>2, Zenon DEF ClosePage, Closed
<1>3. CASE ListAnswered
  BY <1>3 DEF ListAnswered
<1>4. CASE ShowList
  BY <1>4 DEF ShowList
<1>5. CASE PollRound
  BY <1>5 DEF PollRound, GivesUp
<1>6. CASE PollAnswered
  BY <1>6 DEF PollAnswered
<1>7. CASE ShowStatus
  BY <1>7 DEF ShowStatus, Shown
<1>8. CASE Wake
  BY <1>8, HardTimeoutAssumption DEF Wake
<1>9. CASE ClickDelete
  BY <1>9 DEF ClickDelete
<1>10. CASE DeleteAnswered
  BY <1>10 DEF DeleteAnswered, Delete
<1>11. CASE ShowDeleted
  BY <1>11 DEF ShowDeleted
<1> QED
  BY <1>1, <1>2, <1>3, <1>4, <1>5, <1>6, <1>7, <1>8, <1>9, <1>10, <1>11
     DEF PageNext, Polling

\* So do the steps of the bucket and of the sweeper.
LEMMA SweepStepType ==
  ASSUME TypeOK, ObjectNext \/ SweepNext
  PROVE  SweepTypeOK' /\ status' \in {"none", "gone"} \cup DocumentStatus
<1> USE DEF TypeOK, SweepTypeOK, SweepOff
<1>1. CASE ObjectNext
  BY <1>1 DEF ObjectNext, InitiateUpload, Initiate, BrowserPut, UrlExpires, PutFirst, StoreRow,
     Store, ObjectDeleted, ObjectAges, DocumentStatus
<1>2. CASE SweepNext
  <2>1. /\ object' \in {"absent", "young", "old"}
        /\ sweeper' \in {"off", "keys", "list", "delete"}
        /\ status' \in {"none", "gone"} \cup DocumentStatus
    BY <1>2 DEF SweepNext, SweepRead, SweepTime, SweepList, SweepDelete, SweepFails
  <2>2. /\ tracked' \in BOOLEAN /\ ripe' \in BOOLEAN /\ swept' \in BOOLEAN
        /\ url' \in BOOLEAN
    <3>a. Tracked \in BOOLEAN
      BY DEF Tracked, Exists
    <3>1. CASE SweepRead
      BY <3>a, <3>1, Zenon DEF SweepRead
    <3>2. CASE SweepTime
      BY <3>2, Zenon DEF SweepTime
    <3>3. CASE SweepList
      BY <3>3, Zenon DEF SweepList
    <3>4. CASE SweepDelete \/ SweepFails
      BY <3>4, Zenon DEF SweepDelete, SweepFails
    <3> QED
      BY <1>2, <3>1, <3>2, <3>3, <3>4, Zenon DEF SweepNext
  <2> QED
    BY <2>1, <2>2
<1> QED
  BY <1>1, <1>2

\* Every step keeps the types.
LEMMA NextType == TypeOK /\ [Next]_vars => TypeOK'
<1> SUFFICES ASSUME TypeOK, [Next]_vars
             PROVE  TypeOK'
  OBVIOUS
<1>a. UNCHANGED pageVars => PageTypeOK'
  BY DEF pageVars, PageTypeOK, TypeOK
<1>b. UNCHANGED sweepVars => SweepTypeOK'
  BY DEF sweepVars, SweepTypeOK, TypeOK
<1>c. FormInitiate \/ FormPut \/ FormConfirm
        => form' \in {"idle", "put", "confirm", "done", "failed"}
  BY DEF FormInitiate, FormPut, FormConfirm
<1>1. CASE FormInitiate \/ FormPut
  <2>1. CASE ObjectNext
    BY <1>1, <1>a, <1>c, <2>1, SweepStepType DEF FormInitiate, FormPut, TypeOK
  <2>2. CASE UNCHANGED <<status, sweepVars>>
    BY <1>1, <1>a, <1>b, <1>c, <2>2 DEF FormInitiate, FormPut, TypeOK
  <2> QED
    BY <1>1, <2>1, <2>2 DEF FormInitiate, FormPut, ObjectNext
<1>3. CASE FormConfirm
  BY <1>3, <1>a, <1>b, <1>c, LifecycleType DEF FormConfirm, TypeOK
<1>4. CASE PageNext /\ UNCHANGED <<sweepVars, form>>
  BY <1>4, <1>b, PageStepType DEF TypeOK
<1>5. CASE (ObjectNext \/ SweepNext) /\ UNCHANGED <<pageVars, form>>
  BY <1>5, <1>a, SweepStepType DEF TypeOK
<1>6. CASE OthersNext
  BY <1>6, <1>a, <1>b, LifecycleType DEF OthersNext, TypeOK
<1>7. CASE UNCHANGED vars
  BY <1>7, <1>a, <1>b DEF vars, TypeOK
<1> QED
  BY <1>1, <1>3, <1>4, <1>5, <1>6, <1>7 DEF Next

\* Every variable keeps its type; a poll never counts past its timeout
\* (documents.api.ts:386-392).
THEOREM UploadTypeCorrect == Spec => []TypeOK
BY InitType, NextType, PTL DEF Spec
--------------------------------------------------------------------------------
(* The documents page.                                                     *)

\* SpinnersEnd is inductive: an answer that leaves a spinner goes on polling.
LEMMA SpinnersStep == TypeOK /\ SpinnersEnd /\ [Next]_vars => SpinnersEnd'
<1> SUFFICES ASSUME TypeOK, SpinnersEnd, [Next]_vars
             PROVE  SpinnersEnd'
  OBVIOUS
<1> USE DEF SpinnersEnd
<1>1. CASE PageNext
  <2> USE DEF TypeOK, PageTypeOK, Answer, Asks, DocumentStatus, Unsettled
  <2>1. CASE OpenPage
    BY <2>1 DEF OpenPage
  <2>2. CASE ClosePage
    BY <2>2 DEF ClosePage, Closed
  <2>3. CASE ListAnswered
    BY <2>3 DEF ListAnswered
  <2>4. CASE ShowList
    BY <2>4 DEF ShowList
  <2>5. CASE PollRound
    BY <2>5 DEF PollRound, GivesUp
  <2>6. CASE PollAnswered
    BY <2>6 DEF PollAnswered
  <2>7. CASE ShowStatus
    BY <2>7 DEF ShowStatus, Shown
  <2>8. CASE Wake
    BY <2>8 DEF Wake
  <2>9. CASE ClickDelete \/ DeleteAnswered
    BY <2>9 DEF ClickDelete, DeleteAnswered
  <2>10. CASE ShowDeleted
    BY <2>10 DEF ShowDeleted
  <2> QED
    BY <1>1, <2>1, <2>2, <2>3, <2>4, <2>5, <2>6, <2>7, <2>8, <2>9, <2>10
       DEF PageNext, Polling
<1>2. CASE UNCHANGED pageVars
  BY <1>2 DEF pageVars
<1> QED
  BY <1>1, <1>2 DEF Next, vars, FormInitiate, FormPut, FormConfirm, OthersNext

\* A card with a spinner is polled, or says that it is not any more, however long
\* the polling goes on before it gives up (documents/page.tsx:255-296).
THEOREM NoSilentSpinner == Spec => []SpinnersEnd
<1>1. Init => SpinnersEnd
  BY DEF Init, PageInit, SpinnersEnd, Unsettled
<1> QED
  BY <1>1, SpinnersStep, UploadTypeCorrect, PTL DEF Spec
--------------------------------------------------------------------------------
(* How far polling is from its end.                                        *)

\* The list is loaded once, before the polling starts, and only a page that is open
\* polls; a round goes on only before the timeout.
PollInv ==
    /\ list # "none" => page /\ poll = "off"
    /\ ~page => poll = "off"
    /\ poll \notin {"off", "round"} => elapsed < HardTimeout

\* A round is a request, its answer and a pause.
PollSteps ==
    CASE poll = "off"    -> 0
      [] poll = "round"  -> 4 * (HardTimeout - elapsed) + 1
      [] poll = "asked"  -> 4 * (HardTimeout - elapsed)
      [] poll = "sleep"  -> 4 * (HardTimeout - elapsed) - 2
      [] poll \in Answer -> 4 * (HardTimeout - elapsed) - 1

PollingAdvances ==
    /\ PollSteps \in 0..(4 * HardTimeout + 1)
    /\ poll # "off" /\ poll' # poll => PollSteps' < PollSteps

\* Every step of the page brings the polling nearer to its end.
LEMMA PageAdvances ==
  ASSUME TypeOK, PollInv, PageNext
  PROVE  PollInv' /\ (poll # "off" /\ poll' # poll => PollSteps' < PollSteps)
<1> USE DEF TypeOK, PageTypeOK, Answer, DocumentStatus, Unsettled, PollInv
<1>1. HardTimeout \in Nat /\ elapsed \in 0..HardTimeout
  BY HardTimeoutAssumption
<1>2. poll # "off" => PollSteps \in Nat /\ 0 < PollSteps
  BY <1>1 DEF PollSteps
<1>3. poll' = "off" => PollSteps' = 0
  BY DEF PollSteps
<1>4. CASE OpenPage \/ ListAnswered
  BY <1>4 DEF OpenPage, ListAnswered
<1>5. CASE ShowList
  BY <1>5 DEF ShowList
<1>6. CASE ClosePage
  <2>1. poll' = "off" /\ list' = "none"
    BY <1>6, Zenon DEF ClosePage, Closed
  <2> QED
    BY <1>2, <1>3, <2>1
<1>7. CASE PollRound
  BY <1>1, <1>7 DEF PollRound, GivesUp, PollSteps
<1>8. CASE PollAnswered
  <2>1. poll = "asked" /\ poll' \in Answer /\ UNCHANGED <<page, list, elapsed>>
    BY <1>8 DEF PollAnswered, Asks, Exists
  <2>2. PollSteps = 4 * (HardTimeout - elapsed)
    BY <2>1 DEF PollSteps
  <2>3. PollSteps' = 4 * (HardTimeout - elapsed) - 1
    BY <2>1 DEF PollSteps
  <2> QED
    BY <1>1, <2>1, <2>2, <2>3
<1>9. CASE ShowStatus
  <2>1. CASE poll \in {"READY", "FAILED", "missing"}
    BY <1>9, <1>2, <1>3, <2>1 DEF ShowStatus
  <2>2. CASE poll \notin {"READY", "FAILED", "missing"}
    BY <1>1, <1>9, <2>2 DEF ShowStatus, PollSteps
  <2> QED
    BY <2>1, <2>2
<1>10. CASE Wake
  <2>1. /\ poll = "sleep" /\ poll' = "round" /\ UNCHANGED <<page, list>>
        /\ elapsed < HardTimeout /\ elapsed' \in Nat
        /\ elapsed + 1 <= elapsed' /\ elapsed' <= HardTimeout
    BY <1>1, <1>10 DEF Wake
  <2> QED
    BY <1>1, <2>1 DEF PollSteps
<1>11. CASE ClickDelete \/ DeleteAnswered
  BY <1>11 DEF ClickDelete, DeleteAnswered
<1>12. CASE ShowDeleted
  BY <1>1, <1>12 DEF ShowDeleted, PollSteps
<1> QED
  BY <1>4, <1>5, <1>6, <1>7, <1>8, <1>9, <1>10, <1>11, <1>12 DEF PageNext, Polling

\* Whatever is answered, lost or deleted, the polling of a document only goes towards its
\* end: within 4 * HardTimeout + 1 steps of the loop it is over
\* (documents.api.ts:386-420, documents/page.tsx:255-296).
THEOREM PollingOnlyAdvances == Spec => [][PollingAdvances]_vars
<1>1. Init => PollInv
  BY DEF Init, PageInit, PollInv
<1>2. TypeOK /\ PollInv /\ [Next]_vars => PollInv' /\ [PollingAdvances]_vars
  <2> SUFFICES ASSUME TypeOK, PollInv, [Next]_vars
               PROVE  PollInv' /\ PollingAdvances
    OBVIOUS
  <2>1. PollSteps \in 0..(4 * HardTimeout + 1)
    BY HardTimeoutAssumption
    DEF TypeOK, PageTypeOK, PollInv, PollSteps, Answer, DocumentStatus
  <2>2. CASE PageNext
    BY <2>1, <2>2, PageAdvances DEF PollingAdvances
  <2>3. CASE UNCHANGED pageVars
    BY <2>1, <2>3 DEF pageVars, PollInv, PollingAdvances
  <2> QED
    BY <2>2, <2>3 DEF Next, vars, FormInitiate, FormPut, FormConfirm, OthersNext
<1> QED
  BY <1>1, <1>2, UploadTypeCorrect, PTL DEF Spec
--------------------------------------------------------------------------------
(* The sweeper.                                                            *)

\* An object that is old when the sweeper reads the time has had its row before the
\* sweeper read the keys: it cannot age while it has none yet, nor in between.
SweepInv ==
    /\ object = "old" => status # "none"
    /\ ripe => object = "old"
    /\ sweeper = "keys" /\ ~tracked /\ object = "old" => status = "gone"
    /\ sweeper = "list" /\ ~tracked /\ ripe => status = "gone"
    /\ sweeper = "delete" => status = "gone"
    /\ SweepSparesDocuments

\* A document that is gone stays so, and one that is in the table was inserted.
LEMMA GoneForGood ==
  ASSUME TypeOK,
         Initiate \/ Store \/ Confirm \/ Process \/ Complete \/ Fail \/ Delete
  PROVE  /\ status # "gone"
         /\ status' # "none"
BY DEF Initiate, Store, Confirm, Process, Complete, Fail, Delete, Exists, DocumentStatus

\* The steps of the bucket and of the sweeper keep the invariant.
LEMMA BucketInv ==
  ASSUME TypeOK, SweepInv, ObjectNext \/ SweepNext
  PROVE  SweepInv'
<1> USE DEF SweepInv, SweepSparesDocuments, TypeOK, SweepTypeOK, SweepOff
<1>1. CASE InitiateUpload
  BY <1>1 DEF InitiateUpload, Initiate
<1>2. CASE BrowserPut
  BY <1>2 DEF BrowserPut
<1>3. CASE UrlExpires
  BY <1>3 DEF UrlExpires
<1>4. CASE PutFirst
  BY <1>4 DEF PutFirst
<1>5. CASE StoreRow
  BY <1>5 DEF StoreRow, Store
<1>6. CASE ObjectDeleted
  BY <1>6 DEF ObjectDeleted
<1>7. CASE ObjectAges
  BY <1>7 DEF ObjectAges
<1>8. CASE SweepRead
  BY <1>8 DEF SweepRead, Tracked, Exists
<1>9. CASE SweepTime
  BY <1>9 DEF SweepTime
<1>10. CASE SweepList
  BY <1>10 DEF SweepList, Orphan
<1>11. CASE SweepDelete
  BY <1>11 DEF SweepDelete
<1>12. CASE SweepFails
  BY <1>12 DEF SweepFails
<1> QED
  BY <1>1, <1>2, <1>3, <1>4, <1>5, <1>6, <1>7, <1>8, <1>9, <1>10, <1>11, <1>12
     DEF ObjectNext, SweepNext

\* Every step keeps the invariant.
LEMMA SweepStep == TypeOK /\ SweepInv /\ [Next]_vars => SweepInv'
<1> SUFFICES ASSUME TypeOK, SweepInv, [Next]_vars
             PROVE  SweepInv'
  OBVIOUS
<1>1. CASE ObjectNext \/ SweepNext
  BY <1>1, BucketInv
<1>2. CASE UNCHANGED sweepVars /\ (UNCHANGED status \/ Confirm \/ Delete \/ OthersNext)
  BY <1>2, GoneForGood DEF SweepInv, SweepSparesDocuments, sweepVars, OthersNext
<1>3. CASE PageNext /\ UNCHANGED <<sweepVars, form>>
  <2>1. UNCHANGED status \/ Delete
    BY <1>3 DEF PageNext, Polling, OpenPage, ClosePage, ListAnswered, ShowList, PollRound,
       PollAnswered, ShowStatus, Wake, ClickDelete, DeleteAnswered, ShowDeleted
  <2> QED
    BY <1>2, <1>3, <2>1
<1>4. CASE FormInitiate \/ FormPut \/ FormConfirm
  BY <1>1, <1>2, <1>4 DEF FormInitiate, FormPut, FormConfirm, ObjectNext
<1>5. CASE OthersNext
  BY <1>2, <1>5 DEF OthersNext
<1>6. CASE UNCHANGED vars
  BY <1>2, <1>6 DEF vars
<1> QED
  BY <1>1, <1>3, <1>4, <1>5, <1>6 DEF Next

\* The sweeper never deletes the object of a document that is in the table or is
\* still to come (scripts/cleanup_s3_orphans.py:44-100).
THEOREM SweeperSparesDocuments == Spec => []SweepSparesDocuments
<1>1. Init => SweepInv
  BY DEF Init, LifecycleInit, SweepInit, SweepInv, SweepSparesDocuments
<1>2. SweepInv => SweepSparesDocuments
  BY DEF SweepInv
<1> QED
  BY <1>1, <1>2, SweepStep, UploadTypeCorrect, PTL DEF Spec
================================================================================
