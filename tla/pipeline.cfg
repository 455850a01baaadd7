\* One document, two requests at a time, two enqueued jobs, every kind of failure.
SPECIFICATION Spec
CONSTANTS
    Docs = {d1}
    Reqs = {r1, r2}
    Jobs = {j1, j2}
    NoJob = NoJob
    NoDoc = NoDoc
    MaxRetries = 0
    Quota = 1
    Faults = {"api", "crash", "timeout", "redis", "s3", "db"}
SYMMETRY Symmetry
CHECK_DEADLOCK FALSE
INVARIANTS
    TypeOK
    ReadyHasChunks
    SurplusOnlyFromLateConfirms
    NoChunksWithoutIngest
PROPERTIES
    WorkerKeepsReady
    ReadyObjectOnlyDeletedWithDocument
    DocumentLife
