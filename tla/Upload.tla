--------------------------------- MODULE Upload ---------------------------------
(***************************************************************************)
(* A document from the outside: the upload form of the browser             *)
(* (UploadForm.tsx, documents.api.ts), the documents page, the bucket and  *)
(* its sweeper, around one row whose status moves as DocLifecycle lets it. *)
(***************************************************************************)
EXTENDS DocPage, OrphanSweep

VARIABLE
    form         \* uploadDocument: "idle", "put", "confirm", "done", "failed"

vars == <<status, pageVars, sweepVars, form>>

Init == LifecycleInit /\ PageInit /\ SweepInit /\ form = "idle"
--------------------------------------------------------------------------------
(* The form: three requests one after the other, no retry.                 *)

\* initiateUpload; the answer may be lost, the row stays.
FormInitiate ==
    /\ form = "idle"
    /\ \/ InitiateUpload /\ form' \in {"put", "failed"}
       \/ form' = "failed" /\ UNCHANGED <<status, sweepVars>>
    /\ UNCHANGED pageVars

\* uploadToS3WithProgress.
FormPut ==
    /\ form = "put"
    /\ \/ BrowserPut /\ form' \in {"confirm", "failed"}
       \/ form' = "failed" /\ UNCHANGED <<status, sweepVars>>
    /\ UNCHANGED pageVars

\* confirmUpload: 409 unless the row waits and the object is there.
FormConfirm ==
    /\ form = "confirm"
    /\ \/ /\ status = "PENDING_UPLOAD" /\ object # "absent"
          /\ Confirm
          /\ form' \in {"done", "failed"}
          /\ UNCHANGED sweepVars
       \/ form' = "failed" /\ UNCHANGED <<status, sweepVars>>
    /\ UNCHANGED pageVars
--------------------------------------------------------------------------------
\* What other tabs, requests, the worker and its cleanup do to the row.
OthersNext ==
    /\ Confirm \/ Process \/ Complete \/ Fail \/ Delete
    /\ UNCHANGED <<pageVars, sweepVars, form>>

Next ==
    \/ FormInitiate \/ FormPut \/ FormConfirm
    \/ PageNext /\ UNCHANGED <<sweepVars, form>>
    \/ ObjectNext /\ UNCHANGED <<pageVars, form>>
    \/ SweepNext /\ UNCHANGED <<pageVars, form>>
    \/ OthersNext

\* Requests of the page are answered or fail and timers go off; the URL expires,
\* objects grow old and cron starts the sweeper, of whose runs some do not fail.
Spec == Init /\ [][Next]_vars
FairSpec ==
    /\ Spec
    /\ WF_pageVars(Polling)
    /\ WF_sweepVars(UrlExpires) /\ SF_sweepVars(ObjectAges)
    /\ WF_sweepVars(SweepRead) /\ SF_sweepVars(SweepTime)
    /\ SF_sweepVars(SweepList) /\ SF_sweepVars(SweepDelete)
--------------------------------------------------------------------------------
\* Every variable has its type (models/document.py:29-34, documents.api.ts:364-370).
TypeOK ==
    /\ status \in {"none", "gone"} \cup DocumentStatus
    /\ PageTypeOK /\ SweepTypeOK
    /\ form \in {"idle", "put", "confirm", "done", "failed"}
================================================================================
