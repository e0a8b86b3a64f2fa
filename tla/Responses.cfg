SPECIFICATION FairResponseSpec
CONSTANT
    MaxEvents = 3
INVARIANTS
    AnswersAreAudited
    RowsAreTrue
    SuccessIsSaved
    StreamsTellTheirEnd
PROPERTIES
    TurnsAreAnswered
