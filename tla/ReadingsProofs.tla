--------------------------- MODULE ReadingsProofs ---------------------------
(***************************************************************************)
(* For finite values the rules do what they are for: whatever is stored is *)
(* within the canonical range of its parameter.  The one value that is not *)
(* is NaN, which run nan_salinity finds.                                   *)
(***************************************************************************)
EXTENDS Readings, TLAPS

\* What passes the schema and validate_value in the unit it was sent in is
\* within the canonical range once it is converted.
LEMMA PlausibleIsInRange ==
    ASSUME NaN \notin Int, NEW v \in Int, NEW p \in Parameters, NEW unit \in UnitsOf[p],
           Positive(v), Plausible(p, v, unit)
    PROVE  LessEq(0, Canonical(p, v, unit)) /\ LessEq(Canonical(p, v, unit), High(p))
<1> USE DEF LessEq
<1>1. v > 0
  BY DEF Positive
<1>2. CASE p = "salinity"
  <2>1. unit \in {"ppt", "sg"} /\ High(p) = 10000000
    BY <1>2 DEF UnitsOf, High, Scale, Parameters
  <2>2. CASE unit = "ppt"
    BY <1>1, <1>2, <2>1, <2>2 DEF Plausible, Canonical
  <2>3. CASE unit = "sg"
    <3>1. 1000 <= v /\ v <= 1040
      BY <1>2, <2>3 DEF Plausible
    <3>2. Canonical(p, v, unit) = (v - 1000) * 132576
      BY <1>2, <2>3 DEF Canonical
    <3> QED BY <2>1, <3>1, <3>2
  <2> QED BY <2>1, <2>2, <2>3
<1>3. CASE p = "temperature"
  BY <1>3 DEF Plausible
<1>4. CASE p \notin {"salinity", "temperature"}
  BY <1>4 DEF Plausible, Canonical
<1> QED BY <1>2, <1>3, <1>4

\* Every finite measurement that is stored lies within the canonical range
\* (validate_measurement_payload before canonicalize_measurement).
THEOREM FiniteReadingsInRange ==
    ASSUME NaN \notin Int, Values \subseteq Int
    PROVE  Spec => []StoredInRange
<1>1. Init => StoredInRange
  BY DEF Init, StoredInRange
<1>2. ASSUME StoredInRange, [Next]_vars PROVE StoredInRange'
  <2>1. ASSUME NEW p \in Parameters, NEW v \in Values, NEW unit \in UnitsOf[p],
               CreateMeasurement(p, v, unit)
        PROVE StoredInRange'
    <3>1. CASE UNCHANGED readings
      BY <1>2, <3>1 DEF StoredInRange
    <3>2. CASE /\ Positive(v) /\ Plausible(p, v, unit)
               /\ readings' = readings \cup {[parameter |-> p,
                                value |-> Canonical(p, v, unit), raw |-> v]}
      <4>1. LessEq(0, Canonical(p, v, unit)) /\ LessEq(Canonical(p, v, unit), High(p))
        BY <3>2, PlausibleIsInRange
      <4> QED BY <1>2, <3>2, <4>1 DEF StoredInRange
    <3> QED BY <2>1, <3>1, <3>2 DEF CreateMeasurement
  <2>2. ASSUME NEW p \in Parameters, ListMeasurements(p) PROVE StoredInRange'
    BY <1>2, <2>2 DEF ListMeasurements, StoredInRange
  <2>3. ASSUME NEW r \in readings, DeleteMeasurement(r) PROVE StoredInRange'
    BY <1>2, <2>3 DEF DeleteMeasurement, StoredInRange
  <2>4. CASE UNCHANGED vars
    BY <1>2, <2>4 DEF vars, StoredInRange
  <2> QED BY <1>2, <2>1, <2>2, <2>3, <2>4 DEF Next
<1> QED BY <1>1, <1>2, PTL DEF Spec
=============================================================================
