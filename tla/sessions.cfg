\* Two tabs, two requests at a time, three tokens, one revocation;
\* at most one lost message and one row past its expiry at a time.
SPECIFICATION Spec
CONSTANTS
    Tabs = {tab1, tab2}
    NoTab = NoTab
    Reqs = {r1, r2}
    MaxTokens = 3
    MaxLost = 1
    MaxExpired = 1
    MaxRevokes = 1
CHECK_DEADLOCK FALSE
SYMMETRY Symmetry
INVARIANTS
    TypeOK
    CookieStaysFresh
    RevokeAllReachesAll
PROPERTIES
    TokenLife
