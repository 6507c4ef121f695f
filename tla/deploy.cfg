SPECIFICATION FairSpec
CONSTANTS
    Slugs <- MCSlugs
    Databases <- MCDatabases
    Environments <- MCEnvironments
    Targets = {8, 9, 10}
    NewUnits = {"degC"}
    MaxReadings = 2
INVARIANTS TypeOK MeaningKept RefusedOnlyBelowUnits ServesAtLatest CatalogComplete
PROPERTY Served
