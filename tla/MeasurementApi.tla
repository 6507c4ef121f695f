--------------------------- MODULE MeasurementApi ----------------------------
(***************************************************************************)
(* /aquariums/{aquarium_id}/measurements/{parameter}:                      *)
(* src/src/routers/aquarium_measurements.py over                           *)
(* aquarium_measurement_repository.py, unit_repository.py and              *)
(* services/parameter_rules.py.                                            *)
(*                                                                         *)
(* A request's unit is a notation already stripped and lowered by the      *)
(* schema; `plausible` is what the rule's validate_value says of its value *)
(* in that unit, `finite` that the value is a number: a NaN is plausible   *)
(* as a salinity in ppt (module Readings), and no answer can render it.    *)
(* Values themselves take part in no constraint.                           *)
(***************************************************************************)
EXTENDS Api

\* one_or_none: no row, the row, or MultipleResultsFound, which nobody handles.
FindUnit(w) ==
    /\ At(w, "create_measurement", "unit")
    /\ LET found == UnitsByNotation(req[w].unit) IN
       \/ /\ found = {} /\ Answer(w, 422) /\ UNCHANGED loc
       \/ /\ \E u, v \in found : u # v
          /\ Answer(w, 500) /\ UNCHANGED loc
       \/ \E u \in found :
            /\ found = {u}
            /\ loc' = [loc EXCEPT ![w].unit = u.id]
            /\ Goto(w, "association")
    /\ UNCHANGED <<tables, req>>

CheckAssociation(w) ==
    /\ At(w, "create_measurement", "association")
    /\ IF Associated(loc[w].parameter, loc[w].unit) /\ req[w].plausible
         THEN Goto(w, "canonical") ELSE Answer(w, 422)
    /\ UNCHANGED <<tables, req, loc>>

\* The canonical unit is looked up by the notation the rule names, not by the
\* catalog's is_canonical; a missing row is a RuntimeError.
FindCanonicalUnit(w) ==
    /\ At(w, "create_measurement", "canonical")
    /\ LET found == UnitsByNotation(Rules[req[w].slug].canonical) IN
       \/ /\ found = {} \/ \E u, v \in found : u # v
          /\ Answer(w, 500) /\ UNCHANGED loc
       \/ \E u \in found :
            /\ found = {u}
            /\ loc' = [loc EXCEPT ![w].canonical = u.id]
            /\ Goto(w, "owned")
    /\ UNCHANGED <<tables, req>>

\* Mutant: the row refers to whatever parameter has the slug at the INSERT.
ReadingBySlug(w) ==
    [id |-> minted.measurement + 1, aquarium |-> req[w].aquarium,
     parameter |-> IF SlugTaken(req[w].slug)
                     THEN (CHOOSE p \in parameters : p.slug = req[w].slug).id
                     ELSE loc[w].parameter,
     at |-> req[w].at, unit |-> loc[w].canonical, rawUnit |-> loc[w].unit,
     finite |-> req[w].finite]

\* Mutant: the unit the client chose is stored as the canonical one.
ReadingInRawUnit(w) ==
    [id |-> minted.measurement + 1, aquarium |-> req[w].aquarium,
     parameter |-> loc[w].parameter, at |-> req[w].at,
     unit |-> loc[w].unit, rawUnit |-> loc[w].unit, finite |-> req[w].finite]

Reading(w) ==
    [id |-> minted.measurement + 1, aquarium |-> req[w].aquarium,
     parameter |-> loc[w].parameter, at |-> req[w].at,
     unit |-> loc[w].canonical, rawUnit |-> loc[w].unit, finite |-> req[w].finite]

CreateMeasurement(w) ==
    /\ At(w, "create_measurement", "commit")
    /\ \/ /\ MeasurementRefused(Reading(w))
          /\ Goto(w, "refused")
          /\ UNCHANGED <<tables, loc>>
       \/ /\ InsertMeasurement(Reading(w))
          /\ loc' = [loc EXCEPT ![w].row = minted.measurement + 1]
          /\ Goto(w, "refresh")
    /\ UNCHANGED req

\* Any IntegrityError is answered as a duplicate timestamp.  The message names
\* the slug of the parameter, which the rollback has expired: it is loaded once
\* more, and a parameter that is gone is an ObjectDeletedError.
ReportDuplicate(w) ==
    /\ At(w, "create_measurement", "refused")
    /\ Answer(w, IF loc[w].parameter \in IdsOf(parameters) THEN 409 ELSE 500)
    /\ UNCHANGED <<tables, req, loc>>

\* The payload is rendered after the commit: a NaN is stored and answered 500.
RefreshMeasurement(w) ==
    /\ At(w, "create_measurement", "refresh")
    /\ Answer(w, IF loc[w].row \in IdsOf(measurements) /\ req[w].finite
                   THEN 201 ELSE 500)
    /\ UNCHANGED <<tables, req, loc>>

\* The rows of the aquarium and parameter; from/to only narrow them.
ListMeasurements(w) ==
    /\ At(w, "list_measurements", "select")
    /\ loc' = [loc EXCEPT ![w].rows =
                 {m \in measurements : /\ m.aquarium = req[w].aquarium
                                       /\ m.parameter = loc[w].parameter}]
    /\ Goto(w, "units")
    /\ UNCHANGED <<tables, req>>

\* _to_payload loads unit and raw_unit of each row lazily: a unit deleted since
\* is None, and None.unit an AttributeError.  Unit ids do not come back, so one
\* look at the units stands for the loads one after the other.  JSONResponse
\* refuses a NaN, whichever row of the list has it.
LoadUnits(w) ==
    /\ At(w, "list_measurements", "units")
    /\ Answer(w, IF \A m \in loc[w].rows :
                        m.finite /\ {m.unit, m.rawUnit} \subseteq IdsOf(units)
                   THEN 200 ELSE 500)
    /\ UNCHANGED <<tables, req, loc>>

SelectMeasurement(w) ==
    /\ At(w, "delete_measurement", "select")
    /\ IF \E m \in measurements : /\ m.id = req[w].measurement
                                  /\ m.aquarium = req[w].aquarium
                                  /\ m.parameter = loc[w].parameter
         THEN Goto(w, "commit") ELSE Answer(w, 404)
    /\ UNCHANGED <<tables, req, loc>>

RemoveMeasurement(w) ==
    /\ At(w, "delete_measurement", "commit")
    /\ DeleteMeasurement(req[w].measurement)
    /\ Answer(w, 200)
    /\ UNCHANGED <<req, loc>>

MeasurementStep(w) ==
    \/ FindUnit(w)
    \/ CheckAssociation(w)
    \/ FindCanonicalUnit(w)
    \/ CreateMeasurement(w)
    \/ ReportDuplicate(w)
    \/ RefreshMeasurement(w)
    \/ ListMeasurements(w)
    \/ LoadUnits(w)
    \/ SelectMeasurement(w)
    \/ RemoveMeasurement(w)
=============================================================================
