\* Two requests at a time, three links, a lock at the second wrong password.
SPECIFICATION Spec
CONSTANTS
    Reqs = {r1, r2}
    MaxTokens = 3
    MaxFailed = 2
CHECK_DEADLOCK FALSE
SYMMETRY Symmetry
INVARIANTS
    TypeOK
    LinksWorkOnce
    NewestLinkOnly
    FailuresCounted
    ResetSignsOut
PROPERTIES
    LinksKeptUntilReplaced
