----------------------------- MODULE Migrations ------------------------------
(***************************************************************************)
(* The eleven Alembic revisions of src/alembic/versions as functions from  *)
(* a database to the database they leave, both ways, and the constraints   *)
(* of the schema at each revision.                                         *)
(*                                                                         *)
(* rev 0 is an empty database, rev n the state after the n-th file in the  *)
(* order of their names.  A reading refers to its parameter by slug up to  *)
(* rev 7 and by id afterwards, and to its units by notation up to rev 9    *)
(* and by id afterwards.                                                   *)
(***************************************************************************)
EXTENDS Catalog

CONSTANT Slugs      \* the seeded parameters that are modelled

Latest == 11

\* NULL, and the unit column before there is one.
NoId == 0
NoName == ""

-----------------------------------------------------------------------------
(* Columns that hold ids, and the foreign keys between those that           *)
(* revision 7 converts.                                                     *)

IdColumns ==
    {"users.id", "aquariums.id", "aquariums.owner_user_id",
     "aquarium_measurements.id", "aquarium_measurements.aquarium_id",
     "aquarium_parameter_thresholds.id",
     "aquarium_parameter_thresholds.aquarium_id", "parameters.id"}

References ==
    {<<"aquariums.owner_user_id", "users.id">>,
     <<"aquarium_measurements.aquarium_id", "aquariums.id">>,
     <<"aquarium_parameter_thresholds.aquarium_id", "aquariums.id">>}

EmptyDatabase ==
    [rev |-> 0, tables |-> {}, uuids |-> {}, parameters |-> {}, units |-> {},
     parameterUnits |-> {}, readings |-> {}, thresholds |-> {}]

WithTables(d, tables) == [d EXCEPT !.tables = @ \cup tables]
WithoutTables(d, tables) == [d EXCEPT !.tables = @ \ tables]

-----------------------------------------------------------------------------
(* 20260716_000001 to 20260726_000002: tables, and a column of users. *)

CreateUsers(d) == WithTables(d, {"users"})
DropUsers(d) == WithoutTables(d, {"users"})

CreateAquariums(d) == WithTables(d, {"aquariums"})
DropAquariums(d) == WithoutTables(d, {"aquariums"})

CreateMeasurements(d) == WithTables(d, {"aquarium_measurements"})
DropMeasurements(d) == [WithoutTables(d, {"aquarium_measurements"}) EXCEPT !.readings = {}]

AddUsername(d) == WithTables(d, {"users.username"})
DropUsername(d) == WithoutTables(d, {"users.username"})

AddThresholds(d) == WithTables(d, {"aquarium_parameter_thresholds"})
DropThresholds(d) ==
    [WithoutTables(d, {"aquarium_parameter_thresholds"}) EXCEPT !.thresholds = {}]

\* 20260730_000001: the parameter catalog.
AddParameterCatalog(d) ==
    [WithTables(d, {"parameters"}) EXCEPT !.parameters = SeededParameters(Slugs)]
DropParameterCatalog(d) ==
    [WithoutTables(d, {"parameters"}) EXCEPT !.parameters = {}]

\* 20260731_000001: every id column becomes a UUID; the three foreign keys
\* between them are dropped before and created after.
ConvertIdsToUuid(d) == [d EXCEPT !.uuids = IdColumns]
ConvertIdsToText(d) == [d EXCEPT !.uuids = {}]

\* 20260731_000002: UPDATE ... FROM parameters, by slug one way and by id the
\* other; what matches no row is left NULL.
ParameterId(d, slug) ==
    IF \E p \in d.parameters : p.slug = slug
      THEN (CHOOSE p \in d.parameters : p.slug = slug).id ELSE NoId
ParameterSlug(d, id) ==
    IF \E p \in d.parameters : p.id = id
      THEN (CHOOSE p \in d.parameters : p.id = id).slug ELSE NoName

ParameterFkToId(d) ==
    [d EXCEPT
       !.readings = {[m EXCEPT !.parameter = ParameterId(d, @)] : m \in @},
       !.thresholds = {[t EXCEPT !.parameter = ParameterId(d, @)] : t \in @}]
ParameterFkToSlug(d) ==
    [d EXCEPT
       !.readings = {[m EXCEPT !.parameter = ParameterSlug(d, @)] : m \in @},
       !.thresholds = {[t EXCEPT !.parameter = ParameterSlug(d, @)] : t \in @}]

\* 20260731_000003: the unit catalog, whose slug is the notation, and the
\* associations between seeds and whatever parameters there are.
AddUnitCatalog(d) ==
    [WithTables(d, {"units", "parameter_units"}) EXCEPT
       !.units = {[id |-> u.id, slug |-> u.unit, unit |-> NoName] :
                    u \in SeededUnits(Slugs)},
       !.parameterUnits = Associations(d.parameters, SeededUnits(Slugs))]
DropUnitCatalog(d) ==
    [WithoutTables(d, {"units", "parameter_units"}) EXCEPT
       !.units = {}, !.parameterUnits = {}]

\* Mutant of UnitId: the comparison is by case.
UnitIdExactly(d, notation) ==
    IF \E u \in d.units : u.slug = notation
      THEN (CHOOSE u \in d.units : u.slug = notation).id ELSE NoId

\* 20260731_000004: the notations of a reading become ids of units by a join
\* that ignores case, and ids become slugs on the way back.
UnitId(d, notation) ==
    IF \E u \in d.units : LowerCase[u.slug] = LowerCase[notation]
      THEN (CHOOSE u \in d.units : LowerCase[u.slug] = LowerCase[notation]).id
      ELSE NoId
UnitSlug(d, id) ==
    IF \E u \in d.units : u.id = id
      THEN (CHOOSE u \in d.units : u.id = id).slug ELSE NoName

\* Mutant of MeasurementUnitFk: raw_unit_id is filled from the wrong column.
MeasurementUnitFkTwice(d) ==
    [d EXCEPT !.readings =
       {[m EXCEPT !.unit = UnitId(d, m.unit), !.raw = UnitId(d, m.unit)] : m \in @}]

MeasurementUnitFk(d) ==
    [d EXCEPT !.readings =
       {[m EXCEPT !.unit = UnitId(d, @), !.raw = UnitId(d, @)] : m \in @}]
MeasurementUnitNotation(d) ==
    [d EXCEPT !.readings =
       {[m EXCEPT !.unit = UnitSlug(d, @), !.raw = UnitSlug(d, @)] : m \in @}]

\* 20260731_000005: the notation moves to a column of its own, the slug
\* becomes a URL-safe key, and four notations are rewritten.
NormalizeSlug(d) ==
    [d EXCEPT !.units =
       {[u EXCEPT !.unit = Renamed(u.slug), !.slug = SlugifyUnit[@]] : u \in @}]

NotationToSlug(d) ==
    [d EXCEPT !.units = {[u EXCEPT !.slug = u.unit, !.unit = NoName] : u \in @}]

-----------------------------------------------------------------------------
Upgraded(d) ==
    LET next == CASE d.rev = 0  -> CreateUsers(d)
                  [] d.rev = 1  -> CreateAquariums(d)
                  [] d.rev = 2  -> CreateMeasurements(d)
                  [] d.rev = 3  -> AddUsername(d)
                  [] d.rev = 4  -> AddThresholds(d)
                  [] d.rev = 5  -> AddParameterCatalog(d)
                  [] d.rev = 6  -> ConvertIdsToUuid(d)
                  [] d.rev = 7  -> ParameterFkToId(d)
                  [] d.rev = 8  -> AddUnitCatalog(d)
                  [] d.rev = 9  -> MeasurementUnitFk(d)
                  [] d.rev = 10 -> NormalizeSlug(d)
    IN [next EXCEPT !.rev = @ + 1]

Downgraded(d) ==
    LET next == CASE d.rev = 1  -> DropUsers(d)
                  [] d.rev = 2  -> DropAquariums(d)
                  [] d.rev = 3  -> DropMeasurements(d)
                  [] d.rev = 4  -> DropUsername(d)
                  [] d.rev = 5  -> DropThresholds(d)
                  [] d.rev = 6  -> DropParameterCatalog(d)
                  [] d.rev = 7  -> ConvertIdsToText(d)
                  [] d.rev = 8  -> ParameterFkToSlug(d)
                  [] d.rev = 9  -> DropUnitCatalog(d)
                  [] d.rev = 10 -> MeasurementUnitNotation(d)
                  [] d.rev = 11 -> NotationToSlug(d)
    IN [next EXCEPT !.rev = @ - 1]

-----------------------------------------------------------------------------
(* What the schema of a revision demands: PostgreSQL refuses the statement *)
(* that would break it, and with it the whole transaction.                 *)

Distinct(S, Key(_)) == \A x, y \in S : Key(x) = Key(y) => x = y

\* The foreign keys of readings and thresholds, and NOT NULL with them.
ParametersReferred(d) ==
    LET known == IF d.rev <= 7 THEN {p.slug : p \in d.parameters}
                               ELSE {p.id : p \in d.parameters} IN
    /\ \A m \in d.readings : m.parameter \in known
    /\ \A t \in d.thresholds : t.parameter \in known
UnitsReferred(d) ==
    LET known == {u.id : u \in d.units} IN
    \A m \in d.readings : m.unit \in known /\ m.raw \in known

\* Both ends of a foreign key have one type; revision 8 adds UUID columns
\* that refer to parameters.id.
TypesAgree(d) ==
    /\ \A r \in References : (r[1] \in d.uuids) = (r[2] \in d.uuids)
    /\ d.rev >= 8 => "parameters.id" \in d.uuids

SlugsUnique(d) ==
    IF d.rev = Latest THEN Distinct(d.units, LAMBDA u : u.slug)
                    ELSE Distinct(d.units, LAMBDA u : LowerCase[u.slug])

Legal(d) ==
    /\ TypesAgree(d)
    /\ SlugsUnique(d)
    /\ d.rev >= 6 => ParametersReferred(d)
    /\ d.rev >= 10 => UnitsReferred(d)

-----------------------------------------------------------------------------
(* The databases there are at a revision.                                  *)

Tables ==
    {"users", "users.username", "aquariums", "aquarium_measurements",
     "aquarium_parameter_thresholds", "parameters", "units", "parameter_units"}

\* What rows refer to: a name, and from revision 8 and 10 an id.
ParameterKey(n) ==
    IF n <= 7 THEN {SeedParameters[i] : i \in DOMAIN SeedParameters} ELSE Nat
UnitKey(n) == IF n <= 9 THEN AllNotations ELSE Nat

UnitRows(n) ==
    [id : Nat \ {0}, slug : AllNotations,
     unit : IF n = Latest THEN AllNotations ELSE {NoName}]
ReadingRows(n) ==
    [id : Nat, parameter : ParameterKey(n), unit : UnitKey(n), raw : UnitKey(n)]
ThresholdRows(n) == [id : Nat, parameter : ParameterKey(n)]
AssociationRows == [parameter : Nat, unit : Nat, canonical : BOOLEAN]

Database(n) ==
    [rev : {n}, tables : SUBSET Tables,
     uuids : {IF n >= 7 THEN IdColumns ELSE {}},
     parameters : SUBSET SeededParameters(Slugs), units : SUBSET UnitRows(n),
     parameterUnits : SUBSET AssociationRows,
     readings : SUBSET ReadingRows(n), thresholds : SUBSET ThresholdRows(n)]

\* The columns of its revision, keys that identify a row, and what the schema
\* demands: what PostgreSQL sees to in every database it keeps.
WellFormed(d) ==
    /\ d \in Database(d.rev) /\ d.rev \in 0..Latest
    /\ d.rev >= 1 => "users" \in d.tables
    /\ IsFiniteSet(d.units)
    /\ \A u, v \in d.units : u.id = v.id => u = v
    /\ Legal(d)

-----------------------------------------------------------------------------
(* What the rows of a database say, in terms no revision changes. *)

\* The physical unit behind a notation.
Physical(n) ==
    LET l == LowerCase[n] IN
    CASE l = "degc" -> "celsius" [] l = "degf" -> "fahrenheit"
      [] l = "us gal" -> "gal_us" [] OTHER -> l

UnitMeant(d, x) ==
    IF d.rev <= 9 THEN Physical(x)
    ELSE LET u == CHOOSE u \in d.units : u.id = x IN
         Physical(IF d.rev = Latest THEN u.unit ELSE u.slug)
ParameterMeant(d, x) == IF d.rev <= 7 THEN x ELSE ParameterSlug(d, x)

ReadingsMeant(d) ==
    {[id |-> m.id, parameter |-> ParameterMeant(d, m.parameter),
      unit |-> UnitMeant(d, m.unit), raw |-> UnitMeant(d, m.raw)] : m \in d.readings}
ThresholdsMeant(d) ==
    {[id |-> t.id, parameter |-> ParameterMeant(d, t.parameter)] : t \in d.thresholds}
=============================================================================
