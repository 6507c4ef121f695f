-------------------------------- MODULE Store --------------------------------
(***************************************************************************)
(* The relational store behind the API: the tables of src/src/models.py,   *)
(* what each single-statement transaction of the repositories does to      *)
(* them, and the constraints under which the database refuses it.          *)
(*                                                                         *)
(* A table is a set of rows.  A row keeps the columns the properties tell  *)
(* apart: keys, foreign keys, the unique columns, threshold values.  Every *)
(* commit of the repositories carries one statement, so a commit is one    *)
(* atomic step here; row locks make concurrent commits serial.             *)
(*                                                                         *)
(* uuid4 primary keys are numbered in the order in which they are minted:  *)
(* a key is never minted twice.  A threshold has no key of its own here:   *)
(* it dies only with its aquarium, whose key never comes back, so the pair *)
(* (aquarium, parameter) identifies the row for ever.                      *)
(***************************************************************************)
EXTENDS Integers, FiniteSets

CONSTANTS
    Users,              \* ids of the resolved users (module Identity)
    Names,              \* aquarium names
    Slugs,              \* parameter slugs
    Notations,          \* unit notations, in the case they are stored in
    UnitSlugs,          \* URL-safe routing keys of units
    Values,             \* threshold values
    NULL,               \* SQL NULL
    Instants,           \* measured_at, UTC, microseconds dropped
    Lower,              \* notation |-> lower(notation), the case-insensitive key
    InitAquariums, InitParameters, InitUnits, InitParameterUnits

VARIABLES
    aquariums, parameters, units, parameterUnits, thresholds, measurements,
    minted              \* per table, the number of primary keys minted so far

catalog == <<parameters, units, parameterUnits>>
readings == <<thresholds, measurements>>
tables == <<aquariums, parameters, units, parameterUnits, thresholds,
            measurements, minted>>

Optional(S) == S \cup {NULL}

Aquarium == [id : Nat \ {0}, owner : Users, name : Names]
Parameter == [id : Nat \ {0}, slug : Slugs]
Unit == [id : Nat \ {0}, slug : UnitSlugs, unit : Notations]
ParameterUnit == [parameter : Nat \ {0}, unit : Nat \ {0}, canonical : BOOLEAN]
Threshold == [aquarium : Nat \ {0}, parameter : Nat \ {0},
              target : Optional(Values), min : Optional(Values),
              max : Optional(Values)]
Measurement == [id : Nat \ {0}, aquarium : Nat \ {0}, parameter : Nat \ {0},
                at : Instants, unit : Nat \ {0}, rawUnit : Nat \ {0},
                finite : BOOLEAN]   \* whether value and raw_value are numbers

Minted == [aquarium : Nat, parameter : Nat, unit : Nat, measurement : Nat]

IdsOf(table) == {row.id : row \in table}

\* What the seeds and the rows a run starts with have to satisfy: their keys
\* are numbered from 1, and they respect the constraints of models.py.
SeededKeys(table) ==
    /\ Cardinality(table) \in Nat
    /\ \A row \in table : row.id \in 1..Cardinality(table)
    /\ \A r, s \in table : r.id = s.id => r = s

ASSUME SeedAssumption ==
    /\ InitAquariums \subseteq Aquarium /\ SeededKeys(InitAquariums)
    /\ InitParameters \subseteq Parameter /\ SeededKeys(InitParameters)
    /\ InitUnits \subseteq Unit /\ SeededKeys(InitUnits)
    /\ InitParameterUnits \subseteq ParameterUnit
    /\ \A a, b \in InitAquariums :
         a.owner = b.owner /\ a.name = b.name => a = b
    /\ \A p, q \in InitParameters : p.slug = q.slug => p = q
    /\ \A u, v \in InitUnits : u.slug = v.slug => u = v
    /\ \A pu \in InitParameterUnits :
         pu.parameter \in IdsOf(InitParameters) /\ pu.unit \in IdsOf(InitUnits)

ASSUME NotationAssumption ==
    /\ Lower \in [Notations -> Notations]
    /\ NULL \notin Values /\ NULL \notin Threshold

-----------------------------------------------------------------------------
(* Foreign keys and UNIQUE constraints, as predicates a commit consults.   *)

NameTaken(owner, name) ==
    \E a \in aquariums : a.owner = owner /\ a.name = name
SlugTaken(slug) == \E p \in parameters : p.slug = slug
UnitSlugTaken(slug) == \E u \in units : u.slug = slug
ThresholdExists(aquarium, parameter) ==
    \E t \in thresholds : t.aquarium = aquarium /\ t.parameter = parameter
ReadingTaken(aquarium, parameter, at) ==
    \E m \in measurements :
        m.aquarium = aquarium /\ m.parameter = parameter /\ m.at = at

\* ondelete="RESTRICT": the rows that keep a parameter, or a unit, alive.
ParameterInUse(id) ==
    \/ \E t \in thresholds : t.parameter = id
    \/ \E m \in measurements : m.parameter = id
\* Mutant: parameter_units.unit_id without its foreign key.
UnitInUseByMeasurement(id) ==
    \E m \in measurements : m.unit = id \/ m.rawUnit = id

UnitInUse(id) ==
    \/ \E m \in measurements : m.unit = id \/ m.rawUnit = id
    \/ \E pu \in parameterUnits : pu.unit = id

-----------------------------------------------------------------------------
(* The statements.  An INSERT, a renaming UPDATE or a DELETE is enabled    *)
(* exactly when no constraint refuses it; the handler answers the refusal. *)

InsertAquarium(owner, name) ==
    /\ ~NameTaken(owner, name)
    /\ aquariums' = aquariums \cup
         {[id |-> minted.aquarium + 1, owner |-> owner, name |-> name]}
    /\ minted' = [minted EXCEPT !.aquarium = @ + 1]
    /\ UNCHANGED <<catalog, readings>>

\* The unique index sees every other row of the owner, not the row itself.
RenameRefused(id, name) ==
    \E a \in aquariums, b \in aquariums :
        a.id = id /\ b.id # id /\ b.owner = a.owner /\ b.name = name

RenameAquarium(id, name) ==
    /\ ~RenameRefused(id, name)
    /\ aquariums' = {IF a.id = id THEN [a EXCEPT !.name = name] ELSE a :
                        a \in aquariums}
    /\ UNCHANGED <<catalog, readings, minted>>

\* ondelete="CASCADE" takes the aquarium's thresholds and measurements along.
\* A DELETE that matches no row is not an error.
DeleteAquarium(id) ==
    /\ aquariums' = {a \in aquariums : a.id # id}
    /\ thresholds' = {t \in thresholds : t.aquarium # id}
    /\ measurements' = {m \in measurements : m.aquarium # id}
    /\ UNCHANGED <<catalog, minted>>

ThresholdRefused(aquarium, parameter) ==
    \/ aquarium \notin IdsOf(aquariums)
    \/ parameter \notin IdsOf(parameters)
    \/ ThresholdExists(aquarium, parameter)

InsertThreshold(row) ==
    /\ ~ThresholdRefused(row.aquarium, row.parameter)
    /\ thresholds' = thresholds \cup {row}
    /\ UNCHANGED <<aquariums, catalog, measurements, minted>>

\* Mutant: a body field that is null leaves its column alone.
OverlayNonNull(row, loaded, new) ==
    [row EXCEPT
        !.target = IF new.target = NULL THEN @ ELSE new.target,
        !.min    = IF new.min    = NULL THEN @ ELSE new.min,
        !.max    = IF new.max    = NULL THEN @ ELSE new.max]

\* The unit of work writes the columns that differ from the values it loaded,
\* and leaves the others to whatever the row holds by now.
Overlay(row, loaded, new) ==
    [row EXCEPT
        !.target = IF new.target = loaded.target THEN @ ELSE new.target,
        !.min    = IF new.min    = loaded.min    THEN @ ELSE new.min,
        !.max    = IF new.max    = loaded.max    THEN @ ELSE new.max]

UpdateThreshold(loaded, new) ==
    /\ thresholds' =
         {IF t.aquarium = new.aquarium /\ t.parameter = new.parameter
            THEN Overlay(t, loaded, new) ELSE t : t \in thresholds}
    /\ UNCHANGED <<aquariums, catalog, measurements, minted>>

\* Every reason the database has to refuse a measurement row.
MeasurementOrphan(row) ==
    \/ row.aquarium \notin IdsOf(aquariums)
    \/ row.parameter \notin IdsOf(parameters)
    \/ row.unit \notin IdsOf(units)
    \/ row.rawUnit \notin IdsOf(units)
\* Mutant of MeasurementRefused: the unique constraint without measured_at.
OneReadingPerParameter(row) ==
    \/ MeasurementOrphan(row)
    \/ \E at \in Instants : ReadingTaken(row.aquarium, row.parameter, at)

MeasurementRefused(row) ==
    MeasurementOrphan(row) \/ ReadingTaken(row.aquarium, row.parameter, row.at)

InsertMeasurement(row) ==
    /\ ~MeasurementRefused(row)
    /\ measurements' = measurements \cup {row}
    /\ minted' = [minted EXCEPT !.measurement = @ + 1]
    /\ UNCHANGED <<aquariums, catalog, thresholds>>

DeleteMeasurement(id) ==
    /\ measurements' = {m \in measurements : m.id # id}
    /\ UNCHANGED <<aquariums, catalog, thresholds, minted>>

InsertParameter(slug) ==
    /\ ~SlugTaken(slug)
    /\ parameters' = parameters \cup
         {[id |-> minted.parameter + 1, slug |-> slug]}
    /\ minted' = [minted EXCEPT !.parameter = @ + 1]
    /\ UNCHANGED <<aquariums, units, parameterUnits, readings>>

\* Mutant: parameter_units.parameter_id without ondelete="CASCADE", unenforced.
DeleteParameterOnly(id) ==
    /\ ~ParameterInUse(id)
    /\ parameters' = {p \in parameters : p.id # id}
    /\ UNCHANGED <<aquariums, units, parameterUnits, readings, minted>>

\* Mutant: CASCADE instead of RESTRICT on the rows that refer to a parameter.
DeleteParameterCascading(id) ==
    /\ parameters' = {p \in parameters : p.id # id}
    /\ parameterUnits' = {pu \in parameterUnits : pu.parameter # id}
    /\ thresholds' = {t \in thresholds : t.parameter # id}
    /\ measurements' = {m \in measurements : m.parameter # id}
    /\ UNCHANGED <<aquariums, units, minted>>

DeleteParameter(id) ==
    /\ ~ParameterInUse(id)
    /\ parameters' = {p \in parameters : p.id # id}
    /\ parameterUnits' = {pu \in parameterUnits : pu.parameter # id}
    /\ UNCHANGED <<aquariums, units, readings, minted>>

InsertUnit(slug, notation) ==
    /\ ~UnitSlugTaken(slug)
    /\ units' = units \cup
         {[id |-> minted.unit + 1, slug |-> slug, unit |-> notation]}
    /\ minted' = [minted EXCEPT !.unit = @ + 1]
    /\ UNCHANGED <<aquariums, parameters, parameterUnits, readings>>

DeleteUnit(id) ==
    /\ ~UnitInUse(id)
    /\ units' = {u \in units : u.id # id}
    /\ UNCHANGED <<aquariums, parameters, parameterUnits, readings, minted>>

-----------------------------------------------------------------------------
(* Queries *)

Owned(aquarium, user) ==
    \E a \in aquariums : a.id = aquarium /\ a.owner = user
ParametersBySlug(slug) == {p \in parameters : p.slug = slug}
\* lower(units.unit) = lower(?): the column is not unique.
UnitsByNotation(notation) == {u \in units : Lower[u.unit] = Lower[notation]}
Associated(parameter, unit) ==
    \E pu \in parameterUnits : pu.parameter = parameter /\ pu.unit = unit

StoreInit ==
    /\ aquariums = InitAquariums
    /\ parameters = InitParameters
    /\ units = InitUnits
    /\ parameterUnits = InitParameterUnits
    /\ thresholds = {}
    /\ measurements = {}
    /\ minted = [aquarium |-> Cardinality(InitAquariums),
                 parameter |-> Cardinality(InitParameters),
                 unit |-> Cardinality(InitUnits), measurement |-> 0]

-----------------------------------------------------------------------------
TypeOKStore ==
    /\ aquariums \subseteq Aquarium
    /\ parameters \subseteq Parameter
    /\ units \subseteq Unit
    /\ parameterUnits \subseteq ParameterUnit
    /\ thresholds \subseteq Threshold
    /\ measurements \subseteq Measurement
    /\ minted \in Minted

\* No row outlives what it refers to, however a DELETE races the handlers that
\* are about to write a child row.  (models.py: foreign keys, ondelete.)
ReferencesResolve ==
    /\ \A t \in thresholds : /\ t.aquarium \in IdsOf(aquariums)
                             /\ t.parameter \in IdsOf(parameters)
    /\ \A m \in measurements : /\ m.aquarium \in IdsOf(aquariums)
                               /\ m.parameter \in IdsOf(parameters)
                               /\ {m.unit, m.rawUnit} \subseteq IdsOf(units)
    /\ \A pu \in parameterUnits : /\ pu.parameter \in IdsOf(parameters)
                                  /\ pu.unit \in IdsOf(units)

\* A key is minted once: no row of a table has a key still to come.
KeysMinted ==
    /\ \A a \in aquariums : a.id <= minted.aquarium
    /\ \A p \in parameters : p.id <= minted.parameter
    /\ \A u \in units : u.id <= minted.unit
    /\ \A m \in measurements : m.id <= minted.measurement
=============================================================================
