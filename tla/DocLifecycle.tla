------------------------------ MODULE DocLifecycle ------------------------------
(***************************************************************************)
(* What the status of one document may do, seen from outside: the promise  *)
(* that DocPipeline keeps and that the documents page and the sweeper of   *)
(* the bucket build on.  Requests that act on what they read earlier make  *)
(* it looser than the transition table of the code.                        *)
(***************************************************************************)

VARIABLE
    status       \* "none" before the insert, "gone" after the delete

DocumentStatus == {"PENDING_UPLOAD", "PENDING", "PROCESSING", "READY", "FAILED"}
Unsettled      == {"PENDING_UPLOAD", "PENDING", "PROCESSING"}

Exists == status \in DocumentStatus

LifecycleInit == status = "none"

Initiate == status = "none" /\ status' = "PENDING_UPLOAD"

\* POST /documents/upload; "gone": it failed and its key is never used again.
Store == status = "none" /\ status' \in {"PENDING", "gone"}

\* Only a document that was never confirmed is waited for; a confirm that read that
\* earlier overwrites what the row has become.
Confirm == Exists /\ status' = "PENDING"

\* An ingest starts or is asked for again; never before the upload is confirmed.
Process == /\ status \in DocumentStatus \ {"PENDING_UPLOAD"}
           /\ status' = "PROCESSING"

\* An ingest ends well, whatever the row has become, but it never runs for a
\* document that was not confirmed.
Complete == /\ status \in {"PENDING", "PROCESSING", "FAILED"}
            /\ status' = "READY"

Fail   == Exists /\ status' = "FAILED"
Delete == Exists /\ status' = "gone"

LifecycleNext ==
    Initiate \/ Store \/ Confirm \/ Process \/ Complete \/ Fail \/ Delete

LifecycleSpec == LifecycleInit /\ [][LifecycleNext]_status
================================================================================
