\* A document is deleted while the cleanup handles it; the cleanup must go on.
SPECIFICATION Spec
CONSTANTS
    Docs = {d1}
    Reqs = {r1}
    Jobs = {j1}
    NoJob = NoJob
    NoDoc = NoDoc
    MaxRetries = 0
    Quota = 1
    Faults = {}
CHECK_DEADLOCK FALSE
INVARIANT
    CleanupScheduled
