\* Two uploads at once with room for one; the quota must hold.
SPECIFICATION Spec
CONSTANTS
    Docs = {d1, d2}
    Reqs = {r1, r2}
    Jobs = {j1}
    NoJob = NoJob
    NoDoc = NoDoc
    MaxRetries = 0
    Quota = 1
    Faults = {}
CHECK_DEADLOCK FALSE
INVARIANT
    QuotaRespected
