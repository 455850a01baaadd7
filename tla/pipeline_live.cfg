\* Liveness: one request at a time, one ingest job with two retries, every
\* kind of failure.  No symmetry: it is not sound for liveness.
SPECIFICATION FairSpec
CONSTANTS
    Docs = {d1}
    Reqs = {r1}
    Jobs = {j1}
    NoJob = NoJob
    NoDoc = NoDoc
    MaxRetries = 2
    Quota = 1
    Faults = {"api", "crash", "timeout", "redis", "s3", "db"}
CHECK_DEADLOCK FALSE
PROPERTIES
    Settles
    JobsEnd
