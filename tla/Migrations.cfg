SPECIFICATION FairMigrationsSpec
CONSTANTS
    Processes = {server, command1, command2}
    MaxCrashes = 2
INVARIANTS
    StampIsTrue
    MigratedIsStamped
    FailsOnlyInCompany
PROPERTIES
    VersionNeverFalls
    EveryoneMigrates
