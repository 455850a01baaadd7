\* Two confirm requests for one upload; the document must be ingested once.
SPECIFICATION Spec
CONSTANTS
    Docs = {d1}
    Reqs = {r1, r2}
    Jobs = {j1, j2}
    NoJob = NoJob
    NoDoc = NoDoc
    MaxRetries = 0
    Quota = 1
    Faults = {}
CHECK_DEADLOCK FALSE
INVARIANT
    ReadyHasOneCopy
