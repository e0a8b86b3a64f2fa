SPECIFICATION ResponseSpec
CONSTANT
    MaxEvents = 1
INVARIANT
    TimeoutsAreAudited
