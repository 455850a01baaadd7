\* The enqueue of a confirm raises; the document must not be left PENDING.
SPECIFICATION Spec
CONSTANTS
    Docs = {d1}
    Reqs = {r1}
    Jobs = {j1}
    NoJob = NoJob
    NoDoc = NoDoc
    MaxRetries = 0
    Quota = 1
    Faults = {"redis"}
CHECK_DEADLOCK FALSE
INVARIANT
    PendingHasJob
