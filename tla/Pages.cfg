SPECIFICATION PagesSpec
CONSTANTS
    Ids = {1, 2, 3, 4}
    MaxLimit = 2
INVARIANTS
    ListedInOrder
    SteadyRowsListed
