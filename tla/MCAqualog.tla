------------------------------ MODULE MCAqualog ------------------------------
(***************************************************************************)
(* Instances of Aqualog for TLC.                                           *)
(***************************************************************************)
EXTENDS Aqualog, Catalog

CONSTANTS alice, bob, reef, nano, noon, dusk

MCUsers == {alice, bob}
MCNames == {reef, nano}
MCInstants == {noon, dusk}
MCValues == 0..101
MCSlugs == {"salinity", "temperature"}
MCUnitSlugs == {SlugifyUnit[n] : n \in AllNotations}

\* alice has an aquarium before the first request.
OneAquarium == {[id |-> 1, owner |-> alice, name |-> reef]}

\* The catalog the migrations leave, for one or for two parameters.
SalinityParameters == SeededParameters({"salinity"})
SalinityUnits == MigratedUnits({"salinity"})
SalinityParameterUnits == SeededParameterUnits({"salinity"})

BothParameters == SeededParameters(MCSlugs)
BothMigratedUnits == MigratedUnits(MCSlugs)
BothParameterUnits == SeededParameterUnits(MCSlugs)

-----------------------------------------------------------------------------
(* Requests *)

PutThreshold(user, target, min, max) ==
    [route |-> "set_threshold", user |-> user, aquarium |-> 1,
     slug |-> "salinity", target |-> target, min |-> min, max |-> max]
Post(user, slug, unit, at) ==
    [route |-> "create_measurement", user |-> user, aquarium |-> 1,
     slug |-> slug, unit |-> unit, plausible |-> TRUE, finite |-> TRUE,
     at |-> at]
Scoped(route, user, slug) ==
    [route |-> route, user |-> user, aquarium |-> 1, slug |-> slug]
DeleteReading(user, id) ==
    [route |-> "delete_measurement", user |-> user, aquarium |-> 1,
     slug |-> "salinity", measurement |-> id]
OnAquarium(route, user, id) ==
    [route |-> route, user |-> user, aquarium |-> id]
Rename(user, id, name) ==
    [route |-> "update_aquarium", user |-> user, aquarium |-> id, name |-> name,
     nulled |-> FALSE]
NullType(user, id, name) == [Rename(user, id, name) EXCEPT !.nulled = TRUE]
PostNaN(user, at) == [Post(user, "salinity", "ppt", at) EXCEPT !.finite = FALSE]
NewAquarium(user, name) ==
    [route |-> "create_aquarium", user |-> user, name |-> name]
OnParameter(route, slug) ==
    [route |-> route, user |-> bob, slug |-> slug]
NewUnit(unit) == [route |-> "create_unit", user |-> bob, unit |-> unit]
OnUnit(route, slug) == [route |-> route, user |-> bob, slug |-> slug]
PatchCatalog(route, slug, nulled) ==
    [route |-> route, user |-> bob, slug |-> slug, nulled |-> nulled]

\* Every route once, with inputs that reach its branches.
EveryRouteArrivals ==
    {NewAquarium(alice, reef), NewAquarium(alice, nano),
     Rename(alice, 1, nano), Rename(alice, 1, Unset), Rename(bob, 1, nano),
     Rename(alice, 1, NULL), NullType(alice, 1, Unset),
     OnAquarium("get_aquarium", alice, 1), OnAquarium("get_aquarium", bob, 1),
     OnAquarium("delete_aquarium", alice, 1),
     PutThreshold(alice, NULL, 30, NULL), PutThreshold(alice, NULL, NULL, 20),
     PutThreshold(alice, 20, 30, NULL), PutThreshold(alice, 101, NULL, NULL),
     Scoped("get_threshold", alice, "salinity"),
     Post(alice, "salinity", "ppt", noon), Post(alice, "salinity", "sg", noon),
     Post(alice, "salinity", "ppt", dusk), Post(alice, "salinity", "celsius", noon),
     PostNaN(alice, dusk),
     [Post(alice, "salinity", "ppt", noon) EXCEPT !.plausible = FALSE],
     Scoped("list_measurements", alice, "salinity"), DeleteReading(alice, 1),
     OnParameter("create_parameter", "salinity"),
     OnParameter("delete_parameter", "salinity"),
     PatchCatalog("update_parameter", "salinity", FALSE),
     PatchCatalog("update_parameter", "salinity", TRUE),
     NewUnit("PPT"), NewUnit("celsius"), OnUnit("delete_unit", "ppt"),
     PatchCatalog("update_unit", "ppt", FALSE)}
EveryRouteRows ==
    [aquarium |-> 2, parameter |-> 2, unit |-> 4, measurement |-> 2]

\* Two tenants, the aquarium of one renamed and deleted under the other routes.
TenantRaceArrivals ==
    {NewAquarium(alice, nano), NewAquarium(bob, reef),
     Rename(alice, 1, nano), NullType(alice, 1, nano), Rename(bob, 1, nano),
     OnAquarium("delete_aquarium", alice, 1),
     PutThreshold(alice, NULL, 30, NULL), PutThreshold(bob, NULL, NULL, 20),
     PutThreshold(alice, 20, NULL, 101),
     Post(alice, "salinity", "ppt", noon), Post(bob, "salinity", "sg", noon),
     Scoped("list_measurements", alice, "salinity"),
     DeleteReading(alice, 1), DeleteReading(bob, 1),
     OnParameter("delete_parameter", "salinity"),
     PatchCatalog("update_parameter", "salinity", FALSE)}
TenantRaceRows ==
    [aquarium |-> 2, parameter |-> 1, unit |-> 2, measurement |-> 1]

\* The catalog changes under measurements that are being taken.  It is the one
\* the migrations leave: no unit has the notation celsius, one may come back.
CatalogRaceArrivals ==
    {Post(alice, "salinity", "ppt", noon), Post(alice, "salinity", "sg", noon),
     Post(alice, "temperature", "celsius", noon),
     Post(alice, "temperature", "degf", noon),
     DeleteReading(alice, 1),
     OnParameter("delete_parameter", "salinity"),
     OnParameter("create_parameter", "salinity"),
     OnParameter("delete_parameter", "temperature"),
     OnUnit("delete_unit", "ppt"), NewUnit("PPT"),
     OnUnit("delete_unit", "degc"), NewUnit("degC"),
     PatchCatalog("update_unit", "degc", FALSE),
     PatchCatalog("update_parameter", "temperature", TRUE)}
CatalogRaceRows ==
    [aquarium |-> 1, parameter |-> 3, unit |-> 5, measurement |-> 2]

\* Two PUTs of the same threshold.
ThresholdRaceArrivals ==
    {PutThreshold(alice, NULL, 20, 30), PutThreshold(alice, NULL, 30, 30),
     PutThreshold(alice, NULL, 20, 20)}
TemperatureArrivals ==
    {Post(alice, "temperature", "celsius", noon),
     Post(alice, "temperature", "fahrenheit", noon)}
SmallRows == [aquarium |-> 1, parameter |-> 4, unit |-> 6, measurement |-> 1]
=============================================================================
