------------------------------ MODULE Readings ------------------------------
(***************************************************************************)
(* Values of measurements: what the schema and services/parameter_rules.py *)
(* accept, how a value is converted, and what is stored and served.        *)
(*                                                                         *)
(* A value is a whole number of thousandths of its unit, or NaN, which     *)
(* json.loads and a `float` field let through; an infinity is a number     *)
(* beyond every bound.  Converted values are exact: those of a parameter   *)
(* are whole multiples of 1/Scale[parameter] of its canonical unit, where  *)
(* the program rounds to doubles.  One aquarium, and the catalog db.py     *)
(* seeds; who may ask, and conflicts, are in MeasurementApi.               *)
(***************************************************************************)
EXTENDS Integers, FiniteSets

CONSTANTS
    Values,     \* numbers clients send, in thousandths
    NaN,
    Capacity    \* bound on the readings stored

VARIABLES
    readings,   \* the measurements stored
    answer      \* status code of the last request, 0 before any

vars == <<readings, answer>>

\* Comparisons as IEEE 754 has them: with NaN all are false.
LessEq(a, b) == a # NaN /\ b # NaN /\ a <= b

-----------------------------------------------------------------------------
(* PARAMETER_RULES. *)

\* The upper bounds of the parameters that are stored as they are sent.
Limit ==
    [phosphate |-> 100, calcium |-> 1000, ammonia |-> 50, nitrite |-> 50,
     nitrate |-> 500, ph |-> 14, alkalinity |-> 30, magnesium |-> 2000]

Parameters == {"salinity", "temperature"} \cup DOMAIN Limit

\* supported_units: what the catalog associates, lowered by the schema.
UnitsOf ==
    [p \in Parameters |->
       CASE p = "salinity"    -> {"ppt", "sg"}
         [] p = "temperature" -> {"celsius", "fahrenheit"}
         [] p = "ammonia"     -> {"mg/l"}
         [] p = "ph"          -> {"ph"}
         [] p = "alkalinity"  -> {"dkh"}
         [] OTHER             -> {"ppm"}]

Scale ==
    [p \in Parameters |->
       CASE p = "salinity" -> 100000 [] p = "temperature" -> 9000 [] OTHER -> 1000]

\* canonical_range, whose lower end is always 0.
High(p) ==
    Scale[p] * (CASE p = "salinity" -> 100 [] p = "temperature" -> 45
                  [] OTHER -> Limit[p])

\* canonicalize: _to_ppt, _to_celsius and _identity.
Canonical(p, v, unit) ==
    CASE v = NaN              -> NaN
      [] p = "salinity"       -> IF unit = "ppt" THEN v * 100 ELSE (v - 1000) * 132576
      [] p = "temperature"    -> IF unit = "celsius" THEN v * 9 ELSE (v - 32000) * 5
      [] OTHER                -> v

\* validate_value: salinity is compared before conversion, and in ppt only
\* from above; temperature is compared after conversion.
Plausible(p, v, unit) ==
    CASE p = "salinity" ->
           /\ unit = "ppt" => v = NaN \/ v <= 100000
           /\ unit = "sg" => LessEq(1000, v) /\ LessEq(v, 1040)
      [] p = "temperature" ->
           LET c == Canonical(p, v, unit) IN LessEq(0, c) /\ LessEq(c, High(p))
      [] OTHER -> LessEq(0, v) /\ LessEq(v, High(p))

\* The schema refuses what is not greater than 0, by `value <= 0`.
Positive(v) == ~LessEq(v, 0)

-----------------------------------------------------------------------------
Init == readings = {} /\ answer = 0

\* A payload with a NaN cannot be rendered: JSONResponse refuses it, after the
\* commit.
Rendered(rows, status) ==
    IF \E r \in rows : r.value = NaN \/ r.raw = NaN THEN 500 ELSE status

CreateMeasurement(p, v, unit) ==
    \/ /\ ~Positive(v) \/ ~Plausible(p, v, unit)
       /\ answer' = 422
       /\ UNCHANGED readings
    \/ LET new == [parameter |-> p, value |-> Canonical(p, v, unit), raw |-> v] IN
       /\ Positive(v) /\ Plausible(p, v, unit)
       /\ Cardinality(readings) < Capacity
       /\ readings' = readings \cup {new}
       /\ answer' = Rendered({new}, 201)

ListMeasurements(p) ==
    /\ answer' = Rendered({r \in readings : r.parameter = p}, 200)
    /\ UNCHANGED readings

DeleteMeasurement(r) ==
    /\ readings' = readings \ {r}
    /\ answer' = 200

Next ==
    \/ \E p \in Parameters, v \in Values :
         \E unit \in UnitsOf[p] : CreateMeasurement(p, v, unit)
    \/ \E p \in Parameters : ListMeasurements(p)
    \/ \E r \in readings : DeleteMeasurement(r)

Spec == Init /\ [][Next]_vars

-----------------------------------------------------------------------------
\* What is stored can be compared with a threshold: it lies within the
\* canonical range that thresholds are held to, whatever unit it was sent in
\* and whether it was checked before the conversion or after.
StoredInRange ==
    \A r \in readings : LessEq(0, r.value) /\ LessEq(r.value, High(r.parameter))
=============================================================================
