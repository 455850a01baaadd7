\* One document; the page gives up after two rounds of polling.
SPECIFICATION FairSpec
CONSTANTS
    HardTimeout = 2
CHECK_DEADLOCK FALSE
INVARIANTS
    TypeOK
    SpinnersEnd
    SweepSparesDocuments
PROPERTIES
    PollingEnds
    OrphansGo
