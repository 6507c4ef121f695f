SPECIFICATION Spec
CONSTANTS
    alice = alice
    bob = bob
    reef = reef
    nano = nano
    noon = noon
    dusk = dusk
    NULL = NULL
    Unset = Unset
    Workers = {w1, w2}
    Users <- MCUsers
    Names <- MCNames
    Slugs <- MCSlugs
    Notations <- AllNotations
    UnitSlugs <- MCUnitSlugs
    Values <- MCValues
    Instants <- MCInstants
    Lower <- LowerCase
    Slugify <- SlugifyUnit
    Rules <- ParameterRules
    InitAquariums <- OneAquarium
    InitParameters <- BothParameters
    InitUnits <- BothMigratedUnits
    InitParameterUnits <- BothParameterUnits
    Arrivals <- CatalogRaceArrivals
    MaxRows <- CatalogRaceRows
INVARIANTS ReferencesResolve RawUnitAssociated StoredUnitCanonical
    RuleUnitFound NotationUnambiguous
