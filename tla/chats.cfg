\* Two questions; the second one possibly a retry of the first one.
SPECIFICATION FairSpec
CONSTANTS
    MaxAsks = 2
CHECK_DEADLOCK FALSE
INVARIANTS
    TypeOK
    ReadsAsHeld
    AnswersHaveQuestions
    ShowsWhatIsStored
PROPERTIES
    AsksEnd
