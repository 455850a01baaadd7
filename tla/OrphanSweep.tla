------------------------------- MODULE OrphanSweep -------------------------------
(***************************************************************************)
(* The S3 object of a document, and the cron job that deletes objects      *)
(* without a row (scripts/cleanup_s3_orphans.py).  The sweeper reads the   *)
(* keys of the table once, then the time, and then goes through the bucket *)
(* and deletes what is not among the keys and is older than an hour; rows  *)
(* and objects change meanwhile.                                           *)
(*                                                                         *)
(* The one hour is compared with durations the code only bounds otherwise: *)
(* a presigned URL is valid for 15 minutes, a direct upload inserts its    *)
(* row seconds after the object, and so does the sweeper read the time     *)
(* after the keys.                                                         *)
(***************************************************************************)
EXTENDS DocLifecycle

VARIABLES
    object,    \* "absent", "young", or "old": last modified more than an hour ago
    url,       \* a presigned PUT URL is valid
    sweeper,   \* "off", "keys" (has read the keys), "list", "delete"
    tracked,   \* the key was among those it read
    ripe,      \* the object was old when it read the time, and is the same one
    swept      \* history: a sweeper deleted the object

sweepVars == <<object, url, sweeper, tracked, ripe, swept>>

SweepInit == /\ object = "absent" /\ url = FALSE /\ sweeper = "off"
             /\ tracked = FALSE /\ ripe = FALSE /\ swept = FALSE

\* Nothing is kept between two runs.
SweepOff == sweeper' = "off" /\ tracked' = FALSE /\ ripe' = FALSE
--------------------------------------------------------------------------------
(* Plausible mistakes, each in the place of the definition named in its    *)
(* comment; no specification of this module uses them.                     *)

\* For Orphan: the age is compared with the time of the deletion.
OrphanByNow == ~tracked /\ object = "old"

\* For Tracked: rows are only marked as deleted.
TrackedSoft == status # "none"
--------------------------------------------------------------------------------
(* The object, and the rows with it.                                       *)

InitiateUpload ==
    /\ Initiate
    /\ url' = TRUE
    /\ UNCHANGED <<object, sweeper, tracked, ripe, swept>>

\* The browser may use the URL as long as it is valid, row or no row.
BrowserPut ==
    /\ url
    /\ object' = "young" /\ ripe' = FALSE
    /\ UNCHANGED <<url, sweeper, tracked, swept, status>>

UrlExpires ==
    /\ url
    /\ url' = FALSE
    /\ UNCHANGED <<object, sweeper, tracked, ripe, swept, status>>

\* The direct upload puts the object before it inserts the row; it takes back an
\* object whose row it could not insert, as far as it can.
PutFirst ==
    /\ status = "none" /\ object = "absent"
    /\ object' = "young"
    /\ UNCHANGED <<url, sweeper, tracked, ripe, swept, status>>

StoreRow ==
    /\ Store
    /\ object # "absent"
    /\ object' \in {object} \cup (IF status' = "gone" THEN {"absent"} ELSE {})
    /\ ripe' = (ripe /\ object' # "absent")
    /\ UNCHANGED <<url, sweeper, tracked, swept>>

\* Requests and the cleanup of stale documents delete an object while there is
\* still a row.
ObjectDeleted ==
    /\ Exists
    /\ object' = "absent" /\ ripe' = FALSE
    /\ UNCHANGED <<url, sweeper, tracked, swept, status>>

ObjectAges ==
    /\ object = "young"
    /\ ~url /\ status # "none" /\ sweeper # "keys"
    /\ object' = "old"
    /\ UNCHANGED <<url, sweeper, tracked, ripe, swept, status>>
--------------------------------------------------------------------------------
(* The cron job.                                                           *)

\* get_valid_s3_keys.
Tracked == Exists

SweepRead ==
    /\ sweeper = "off"
    /\ sweeper' = "keys" /\ tracked' = Tracked
    /\ UNCHANGED <<object, url, ripe, swept, status>>

SweepTime ==
    /\ sweeper = "keys"
    /\ sweeper' = "list" /\ ripe' = (object = "old")
    /\ UNCHANGED <<object, url, tracked, swept, status>>

Orphan == ~tracked /\ ripe

\* The page of the listing that has the object, if there is one.
SweepList ==
    /\ sweeper = "list"
    /\ IF object # "absent" /\ Orphan
       THEN sweeper' = "delete" /\ UNCHANGED <<tracked, ripe>>
       ELSE SweepOff
    /\ UNCHANGED <<object, url, swept, status>>

SweepDelete ==
    /\ sweeper = "delete"
    /\ object' = "absent"
    /\ swept' = TRUE
    /\ SweepOff
    /\ UNCHANGED <<url, status>>

\* The database, the listing or the deletion fails: until the next day.
SweepFails ==
    /\ sweeper # "off"
    /\ SweepOff
    /\ UNCHANGED <<object, url, swept, status>>

SweepNext == SweepRead \/ SweepTime \/ SweepList \/ SweepDelete \/ SweepFails

ObjectNext ==
    \/ InitiateUpload \/ BrowserPut \/ UrlExpires
    \/ PutFirst \/ StoreRow \/ ObjectDeleted \/ ObjectAges

SweepTypeOK ==
    /\ object \in {"absent", "young", "old"}
    /\ url \in BOOLEAN
    /\ sweeper \in {"off", "keys", "list", "delete"}
    /\ tracked \in BOOLEAN /\ ripe \in BOOLEAN /\ swept \in BOOLEAN

\* The sweeper deletes only what belongs to no row and never will, however long it
\* takes and whatever is uploaded or deleted while it runs
\* (scripts/cleanup_s3_orphans.py:44-100).
SweepSparesDocuments == swept => status = "gone"

\* An object that lost its row goes, too, although the presigned URL outlives the
\* row and runs fail, provided not all of them do
\* (scripts/cleanup_s3_orphans.py:56-111, services/document_service.py:723-734).
OrphansGo == (status = "gone" /\ object # "absent") ~> (object = "absent")
================================================================================
