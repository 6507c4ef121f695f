SPECIFICATION Spec
CONSTANTS
    Slugs <- MCSlugs
    Databases <- MCDatabases
    Environments <- MCEnvironments
    Targets = {8}
    NewUnits = {}
    MaxReadings = 2
INVARIANT UpgradePossible
