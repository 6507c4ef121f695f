---------------------------- MODULE RequestProofs -----------------------------
(***************************************************************************)
(* What a request may rely on while other workers change the store under   *)
(* it, and what follows for the data of tenants: thresholds within range,  *)
(* canonical units, isolation.  Then what a single worker may rely on, and *)
(* that any number of workers implements Tenancy.                          *)
(*                                                                         *)
(* A handler checks rows in early statements and writes in a later one.    *)
(* Between the two it may rely on little: a row it has seen is gone for    *)
(* good, or has the owner, the slug or the aquarium it had, because keys   *)
(* are minted once and no statement changes those columns.                 *)
(***************************************************************************)
EXTENDS AqualogProofs, FiniteSetTheorems

AquariumIs(id, owner) ==
    /\ id <= minted.aquarium
    /\ \A a \in aquariums : a.id = id => a.owner = owner
ParameterIs(id, slug) ==
    /\ id <= minted.parameter
    /\ \A p \in parameters : p.id = id => p.slug = slug
MeasurementIs(id, aquarium) ==
    /\ id <= minted.measurement
    /\ \A m \in measurements : m.id = id => m.aquarium = aquarium
CanonicalFor(parameter, unit) ==
    \E pu \in parameterUnits :
        pu.parameter = parameter /\ pu.unit = unit /\ pu.canonical
CanonicalIs(parameter, unit) ==
    /\ parameter <= minted.parameter
    /\ parameter \in IdsOf(parameters) => CanonicalFor(parameter, unit)

\* Past the statement that looks for the aquarium, or the parameter, of the path.
PastAquarium == {"parameter", "unit", "association", "canonical", "owned",
                 "select", "units", "commit", "refused", "refresh"}
PastParameter == PastAquarium \ {"parameter"}

ReliesOnAquarium(w) ==
    req[w].route \in ScopedRoutes /\ pc[w] \in PastAquarium =>
        AquariumIs(req[w].aquarium, req[w].user)
ReliesOnRow(w) ==
    req[w].route \in {"update_aquarium", "delete_aquarium"} /\ pc[w] = "commit" =>
        AquariumIs(loc[w].row, req[w].user)
ReliesOnParameter(w) ==
    req[w].route \in ScopedRoutes /\ pc[w] \in PastParameter =>
        /\ ParameterIs(loc[w].parameter, req[w].slug)
        /\ req[w].slug \in DOMAIN Rules
        /\ req[w].route = "set_threshold" => ThresholdInRange(req[w])
ReliesOnMeasurement(w) ==
    At(w, "delete_measurement", "commit") =>
        MeasurementIs(req[w].measurement, req[w].aquarium)
ReliesOnCanonical(w) ==
    req[w].route = "create_measurement" /\ pc[w] \in {"owned", "commit"} =>
        CanonicalIs(loc[w].parameter, loc[w].canonical)

Relies(w) ==
    /\ ReliesOnAquarium(w)
    /\ ReliesOnRow(w)
    /\ ReliesOnParameter(w)
    /\ ReliesOnMeasurement(w)
    /\ ReliesOnCanonical(w)

CatalogAgrees == Agree(parameters, units, parameterUnits)

RInv ==
    /\ IInv
    /\ KeysUnique
    /\ CatalogAgrees
    /\ ThresholdWithinRange
    /\ StoredUnitCanonical
    /\ \A w \in Workers : Relies(w)

-----------------------------------------------------------------------------
(* What has been seen of a row stays true, whatever statement comes next.  *)

LEMMA SeenStays ==
  ASSUME RInv, Statement
  PROVE  /\ \A id \in Nat : \A owner : AquariumIs(id, owner) => AquariumIs(id, owner)'
         /\ \A id \in Nat : \A slug : ParameterIs(id, slug) => ParameterIs(id, slug)'
         /\ \A id \in Nat : \A aquarium :
              MeasurementIs(id, aquarium) => MeasurementIs(id, aquarium)'
<1>1. minted \in Minted /\ minted' \in Minted
  BY StatementInv DEF RInv, IInv, StoreInv, TypeOKStore
<1>2. StoreInv /\ KeysUnique
  BY DEF RInv, IInv
<1>3. ASSUME NEW id \in Nat, NEW owner, AquariumIs(id, owner)
      PROVE  AquariumIs(id, owner)'
  <2>1. id <= minted'.aquarium
    BY <1>1, <1>2, <1>3, StatementMints DEF AquariumIs, Minted
  <2>2. \A a \in aquariums' : a.id = id => a.owner = owner
    BY <1>2, <1>3, StatementKeeps DEF AquariumIs
  <2> QED BY <2>1, <2>2 DEF AquariumIs
<1>4. ASSUME NEW id \in Nat, NEW slug, ParameterIs(id, slug)
      PROVE  ParameterIs(id, slug)'
  <2>1. id <= minted'.parameter
    BY <1>1, <1>2, <1>4, StatementMints DEF ParameterIs, Minted
  <2>2. \A p \in parameters' : p.id = id => p.slug = slug
    BY <1>2, <1>4, StatementKeeps DEF ParameterIs
  <2> QED BY <2>1, <2>2 DEF ParameterIs
<1>5. ASSUME NEW id \in Nat, NEW aquarium, MeasurementIs(id, aquarium)
      PROVE  MeasurementIs(id, aquarium)'
  <2>1. id <= minted'.measurement
    BY <1>1, <1>2, <1>5, StatementKeeps DEF MeasurementIs, Minted
  <2>2. \A m \in measurements' : m.id = id => m.aquarium = aquarium
    BY <1>2, <1>5, StatementKeeps DEF MeasurementIs
  <2> QED BY <2>1, <2>2 DEF MeasurementIs
<1> QED BY <1>3, <1>4, <1>5

\* The associations of a parameter that is still there are those it had.
LEMMA AssociationsStay ==
  ASSUME RInv, Statement, NEW p \in Nat, p <= minted.parameter,
         p \in IdsOf(parameters)'
  PROVE  /\ p \in IdsOf(parameters)
         /\ \A pu \in parameterUnits : pu.parameter = p => pu \in parameterUnits'
         /\ \A pu \in parameterUnits' : pu.parameter = p => pu \in parameterUnits
<1>1. StoreInv /\ StoreInv'
  BY StatementInv DEF RInv, IInv
<1>2. parameterUnits \subseteq ParameterUnit /\ parameterUnits' \subseteq ParameterUnit
  BY <1>1 DEF StoreInv, TypeOKStore
<1>3. p \in 0..minted.parameter
  BY <1>1 DEF StoreInv, TypeOKStore, Minted
<1> QED
  BY <1>1, <1>2, <1>3, StatementAssociations, StatementKeepsAssociations

LEMMA CanonicalStays ==
  ASSUME RInv, Statement, NEW p \in Nat, NEW u, CanonicalIs(p, u)
  PROVE  CanonicalIs(p, u)'
<1>1. minted \in Minted /\ minted' \in Minted
  BY StatementInv DEF RInv, IInv, StoreInv, TypeOKStore
<1>2. p <= minted'.parameter
  BY <1>1, StatementMints DEF RInv, IInv, CanonicalIs, Minted
<1>3. ASSUME p \in IdsOf(parameters)' PROVE CanonicalFor(p, u)'
  <2>1. PICK pu \in parameterUnits :
          pu.parameter = p /\ pu.unit = u /\ pu.canonical
    BY <1>3, AssociationsStay DEF CanonicalIs, CanonicalFor
  <2>2. pu \in parameterUnits'
    BY <1>3, <2>1, AssociationsStay DEF CanonicalIs
  <2> QED BY <2>1, <2>2 DEF CanonicalFor
<1> QED BY <1>2, <1>3 DEF CanonicalIs

-----------------------------------------------------------------------------
(* Types of what requests and handlers hold.                               *)

LEMMA PathFields ==
  ASSUME TypeOKWorkers, NEW w \in Workers
  PROVE  /\ req[w].route \in ScopedRoutes => req[w].aquarium \in Nat
         /\ req[w].route = "delete_measurement" => req[w].measurement \in Nat
         /\ loc[w] \in Locals
         /\ loc[w].parameter \in Nat /\ loc[w].canonical \in Nat
         /\ loc[w].unit \in Nat /\ loc[w].row \in Nat
<1>1. req[w] \in Request \cup {NoRequest}
  BY ArrivalsAssumption DEF TypeOKWorkers
<1>2. loc[w] \in Locals
  BY DEF TypeOKWorkers
<1> QED
  BY <1>1, <1>2 DEF Request, NoRequest, ScopedRoutes, ThresholdRoutes,
     MeasurementRoutes, Locals

-----------------------------------------------------------------------------
(* A worker that waits keeps what it relies on.                            *)

LEMMA OthersRely ==
  ASSUME RInv, NEW w \in Workers, Step(w), NEW v \in Workers \ {w}
  PROVE  Relies(v)'
<1>1. /\ pc'[v] = pc[v] /\ req'[v] = req[v] /\ loc'[v] = loc[v]
      /\ Statement /\ TypeOKWorkers /\ Relies(v)
  BY DEF RInv, IInv, Step, Moves
<1>2. ReliesOnAquarium(v)'
  BY <1>1, SeenStays, PathFields DEF Relies, ReliesOnAquarium, AquariumIs
<1>3. ReliesOnRow(v)'
  BY <1>1, SeenStays, PathFields DEF Relies, ReliesOnRow, AquariumIs
<1>4. ReliesOnParameter(v)'
  BY <1>1, SeenStays, PathFields DEF Relies, ReliesOnParameter, ParameterIs
<1>5. ReliesOnMeasurement(v)'
  BY <1>1, SeenStays, PathFields DEF Relies, ReliesOnMeasurement, MeasurementIs, At
<1>6. ReliesOnCanonical(v)'
  <2> SUFFICES ASSUME req[v].route = "create_measurement",
                      pc[v] \in {"owned", "commit"}
               PROVE  CanonicalIs(loc[v].parameter, loc[v].canonical)'
    BY <1>1 DEF ReliesOnCanonical
  <2>1. CanonicalIs(loc[v].parameter, loc[v].canonical) /\ loc[v].parameter \in Nat
    BY <1>1, PathFields DEF Relies, ReliesOnCanonical
  <2>2. ASSUME NEW p \in Nat, NEW u, CanonicalIs(p, u)
        PROVE  CanonicalIs(p, u)'
    BY <1>1, <2>2, CanonicalStays
  <2> QED BY <1>1, <2>1, <2>2 DEF CanonicalIs, CanonicalFor
<1> QED BY <1>2, <1>3, <1>4, <1>5, <1>6 DEF Relies

-----------------------------------------------------------------------------
(* A worker that goes on keeps what it relied on, and adds what its        *)
(* statement has seen.                                                     *)

LEMMA StaysOnAquarium ==
  ASSUME RInv, NEW w \in Workers, Step(w), UNCHANGED req, pc[w] \in PastAquarium
  PROVE  ReliesOnAquarium(w)'
BY SeenStays, PathFields
   DEF RInv, IInv, Step, Relies, ReliesOnAquarium, AquariumIs

LEMMA StaysOnParameter ==
  ASSUME RInv, NEW w \in Workers, Step(w), UNCHANGED req, pc[w] \in PastParameter,
         loc'[w].parameter = loc[w].parameter
  PROVE  ReliesOnParameter(w)'
<1> SUFFICES ASSUME req[w].route \in ScopedRoutes
    PROVE  /\ ParameterIs(loc[w].parameter, req[w].slug)'
           /\ req[w].slug \in DOMAIN Rules
           /\ req[w].route = "set_threshold" => ThresholdInRange(req[w])
  BY DEF ReliesOnParameter
<1>1. /\ ParameterIs(loc[w].parameter, req[w].slug)
      /\ req[w].slug \in DOMAIN Rules
      /\ req[w].route = "set_threshold" => ThresholdInRange(req[w])
  BY DEF RInv, Relies, ReliesOnParameter
<1>2. loc[w].parameter \in Nat /\ Statement
  BY PathFields DEF RInv, IInv, Step
<1> QED
  BY <1>1, <1>2, SeenStays DEF ParameterIs

\* Nothing is relied on before the first lookup, after the answer, and by
\* routes outside an aquarium.
LEMMA NothingToRelyOn ==
  ASSUME NEW w \in Workers,
         \/ pc'[w] \in {"idle", "body", "aquarium", "answered"}
         \/ req'[w].route \notin ScopedRoutes \cup {"update_aquarium", "delete_aquarium"}
         \/ req'[w].route \notin ScopedRoutes /\ pc'[w] # "commit"
  PROVE  Relies(w)'
BY DEF Relies, ReliesOnAquarium, ReliesOnRow, ReliesOnParameter,
   ReliesOnMeasurement, ReliesOnCanonical, PastAquarium, PastParameter, At,
   ScopedRoutes, MeasurementRoutes

LEMMA OwnedIs ==
  ASSUME RInv, NEW id, NEW user, Owned(id, user)
  PROVE  AquariumIs(id, user)
BY DEF RInv, IInv, StoreInv, KeysMinted, KeysUnique, Owned, AquariumIs

LEMMA FoundIs ==
  ASSUME RInv, NEW p \in parameters
  PROVE  ParameterIs(p.id, p.slug)
BY DEF RInv, IInv, StoreInv, KeysMinted, KeysUnique, ParameterIs

\* pc and loc of the worker after a step of its own.
LEMMA Moved ==
  ASSUME TypeOKWorkers, NEW w \in Workers
  PROVE  /\ \A label : Goto(w, label) => pc'[w] = label
         /\ \A status : Answer(w, status) => pc'[w] = "answered"
BY DEF TypeOKWorkers, Goto, Answer

LEMMA Answers ==
  ASSUME RInv, NEW w \in Workers, NEW status, Answer(w, status)
  PROVE  Relies(w)'
BY Moved, NothingToRelyOn DEF RInv, IInv

LEMMA FindAquariumRelies ==
  ASSUME RInv, NEW w \in Workers, Step(w), FindAquarium(w)
  PROVE  Relies(w)'
<1>1. CASE Owned(req[w].aquarium, req[w].user) /\ Goto(w, "parameter")
  <2>1. pc'[w] = "parameter" /\ req' = req /\ UNCHANGED tables
    BY <1>1, Moved DEF RInv, IInv, FindAquarium
  <2>2. AquariumIs(req[w].aquarium, req[w].user)
    BY <1>1, OwnedIs
  <2>3. ReliesOnAquarium(w)'
    BY <2>1, <2>2 DEF ReliesOnAquarium, AquariumIs, tables
  <2> QED
    BY <2>1, <2>3 DEF Relies, ReliesOnRow, ReliesOnParameter, PastParameter,
       ReliesOnMeasurement, ReliesOnCanonical, At
<1>2. CASE Answer(w, 404)
  BY <1>2, Answers
<1> QED BY <1>1, <1>2 DEF FindAquarium

LEMMA FindParameterRelies ==
  ASSUME RInv, NEW w \in Workers, Step(w), FindParameter(w),
         req[w].route \in ScopedRoutes
  PROVE  Relies(w)'
<1>1. CASE Answer(w, 422)
  BY <1>1, Answers
<1>2. CASE /\ Goto(w, AfterParameter(req[w].route))
           /\ req[w].slug \in DOMAIN Rules
           /\ req[w].route = "set_threshold" => ThresholdInRange(req[w])
           /\ \E p \in ParametersBySlug(req[w].slug) :
                loc' = [loc EXCEPT ![w].parameter = p.id]
  <2>1. PICK p \in parameters : /\ p.slug = req[w].slug
                                /\ loc' = [loc EXCEPT ![w].parameter = p.id]
    BY <1>2 DEF ParametersBySlug
  <2>2. pc[w] = "parameter" /\ req' = req /\ UNCHANGED tables
    BY DEF FindParameter
  <2>3. loc'[w].parameter = p.id
    BY <2>1 DEF RInv, IInv, TypeOKWorkers, Locals
  <2>4. /\ pc'[w] \in {"unit", "select", "owned"}
        /\ req[w].route = "create_measurement" => pc'[w] = "unit"
    BY <1>2, Moved DEF RInv, IInv, AfterParameter
  <2>5. ReliesOnAquarium(w)'
    BY <2>2, StaysOnAquarium DEF PastAquarium
  <2>6. ReliesOnParameter(w)'
    BY <1>2, <2>1, <2>2, <2>3, FoundIs DEF ReliesOnParameter, ParameterIs, tables
  <2> QED
    BY <2>2, <2>4, <2>5, <2>6 DEF Relies, ReliesOnRow, ReliesOnMeasurement,
       ReliesOnCanonical, At
<1> QED BY <1>1, <1>2 DEF FindParameter

\* Of the later statements, those that do more than go on or answer.
LEMMA GoesOn ==
  ASSUME RInv, NEW w \in Workers, Step(w), UNCHANGED req,
         req[w].route \in ScopedRoutes, pc[w] \in PastParameter,
         loc'[w].parameter = loc[w].parameter,
         ReliesOnMeasurement(w)', ReliesOnCanonical(w)'
  PROVE  Relies(w)'
<1>1. ReliesOnAquarium(w)' /\ ReliesOnParameter(w)'
  BY StaysOnAquarium, StaysOnParameter DEF PastParameter
<1> QED
  BY <1>1 DEF Relies, ReliesOnRow, ScopedRoutes, ThresholdRoutes, MeasurementRoutes

LEMMA CheckOwnedRelies ==
  ASSUME RInv, NEW w \in Workers, Step(w), CheckOwned(w),
         req[w].route \in ScopedRoutes
  PROVE  Relies(w)'
<1>1. CASE Answer(w, 500)
  BY <1>1, Answers
<1>2. CASE Goto(w, IF req[w].route = "create_measurement"
                     THEN "commit" ELSE "select")
  <2>1. /\ pc'[w] = (IF req[w].route = "create_measurement"
                       THEN "commit" ELSE "select")
        /\ pc[w] = "owned" /\ UNCHANGED <<tables, req, loc>>
    BY <1>2, Moved DEF RInv, IInv, CheckOwned
  <2>2. ReliesOnCanonical(w)'
    BY <2>1 DEF RInv, Relies, ReliesOnCanonical, CanonicalIs, CanonicalFor,
       IdsOf, tables
  <2> QED
    BY <2>1, <2>2, GoesOn DEF PastParameter, PastAquarium, ReliesOnMeasurement, At
<1> QED BY <1>1, <1>2 DEF CheckOwned

\* Threshold handlers past the lookups rely on nothing more.
LEMMA ThresholdRelies ==
  ASSUME RInv, NEW w \in Workers, Step(w), UNCHANGED req,
         req[w].route \in ThresholdRoutes, pc[w] \in PastParameter,
         loc'[w].parameter = loc[w].parameter
  PROVE  Relies(w)'
BY GoesOn DEF ReliesOnMeasurement, ReliesOnCanonical, At, ThresholdRoutes, ScopedRoutes

LEMMA ThresholdStepRelies ==
  ASSUME RInv, NEW w \in Workers, Step(w), ThresholdStep(w)
  PROVE  Relies(w)'
<1> USE DEF ThresholdRoutes, PastParameter, PastAquarium, At
<1>1. ASSUME ValidateOrdering(w) PROVE Relies(w)'
  <2>1. Goto(w, "aquarium") \/ Answer(w, 422)
    BY <1>1 DEF ValidateOrdering
  <2> QED BY <2>1, Moved, NothingToRelyOn DEF RInv, IInv
<1>2. ASSUME SelectThreshold(w) PROVE Relies(w)'
  <2>1. loc'[w].parameter = loc[w].parameter
    <3>1. UNCHANGED loc \/ \E t : loc' = [loc EXCEPT ![w].threshold = t]
      BY <1>2 DEF SelectThreshold
    <3> QED BY <3>1 DEF RInv, IInv, TypeOKWorkers, Locals
  <2> QED BY <1>2, <2>1, ThresholdRelies DEF SelectThreshold
<1>3. ASSUME CreateThreshold(w) PROVE Relies(w)'
  BY <1>3, ThresholdRelies DEF CreateThreshold
<1>4. ASSUME ReplaceThreshold(w) PROVE Relies(w)'
  BY <1>4, ThresholdRelies DEF ReplaceThreshold
<1>5. ASSUME RefreshThreshold(w) PROVE Relies(w)'
  BY <1>5, Answers DEF RefreshThreshold
<1>6. ASSUME GetThreshold(w) PROVE Relies(w)'
  BY <1>6, Answers DEF GetThreshold
<1> QED BY <1>1, <1>2, <1>3, <1>4, <1>5, <1>6 DEF ThresholdStep

\* The canonical unit is found by the rule's notation.  The association check
\* that came before shows that the parameter has units, and then the catalog
\* agrees with the rules about it.
LEMMA CanonicalFound ==
  ASSUME RInv, NEW w \in Workers, At(w, "create_measurement", "canonical"),
         NEW u \in UnitsByNotation(Rules[req[w].slug].canonical)
  PROVE  CanonicalIs(loc[w].parameter, u.id)
<1>1. /\ ParameterIs(loc[w].parameter, req[w].slug)
      /\ req[w].slug \in DOMAIN Rules
  BY DEF RInv, Relies, ReliesOnParameter, At, ScopedRoutes, MeasurementRoutes,
         PastParameter, PastAquarium
<1> SUFFICES ASSUME loc[w].parameter \in IdsOf(parameters)
             PROVE  CanonicalFor(loc[w].parameter, u.id)
  BY <1>1 DEF CanonicalIs, ParameterIs
<1>2. PICK p \in parameters : p.id = loc[w].parameter /\ p.slug = req[w].slug
  BY <1>1 DEF IdsOf, ParameterIs
<1>3. \E pu \in parameterUnits : pu.parameter = p.id
  BY <1>2 DEF RInv, IInv, ValidatedAssociated, Validated, At, Associated, IdsOf
<1>4. u \in units /\ Lower[u.unit] = Lower[Rules[p.slug].canonical]
  BY <1>2 DEF UnitsByNotation
<1> QED
  BY <1>1, <1>2, <1>3, <1>4 DEF RInv, CatalogAgrees, Agree, CanonicalFor

LEMMA MeasurementStepRelies ==
  ASSUME RInv, NEW w \in Workers, Step(w), MeasurementStep(w)
  PROVE  Relies(w)'
<1> USE DEF ScopedRoutes, MeasurementRoutes, PastParameter, PastAquarium
<1>1. ASSUME FindUnit(w) PROVE Relies(w)'
  <2>1. CASE Answer(w, 422) \/ Answer(w, 500)
    BY <2>1, Answers
  <2>2. CASE Goto(w, "association") /\ \E u : loc' = [loc EXCEPT ![w].unit = u]
    <3>1. pc'[w] = "association"
      BY <2>2, Moved DEF RInv, IInv
    <3>2. loc'[w].parameter = loc[w].parameter
      BY <2>2 DEF RInv, IInv, TypeOKWorkers, Locals
    <3> QED
      BY <1>1, <3>1, <3>2, GoesOn
         DEF FindUnit, At, ReliesOnMeasurement, ReliesOnCanonical
  <2> QED BY <1>1, <2>1, <2>2 DEF FindUnit
<1>2. ASSUME CheckAssociation(w) PROVE Relies(w)'
  <2>1. CASE Answer(w, 422)
    BY <2>1, Answers
  <2>2. CASE Goto(w, "canonical")
    <3>1. pc'[w] = "canonical"
      BY <2>2, Moved DEF RInv, IInv
    <3> QED
      BY <1>2, <3>1, GoesOn
         DEF CheckAssociation, At, ReliesOnMeasurement, ReliesOnCanonical
  <2> QED BY <1>2, <2>1, <2>2 DEF CheckAssociation
<1>3. ASSUME FindCanonicalUnit(w) PROVE Relies(w)'
  <2>1. CASE Answer(w, 500)
    BY <2>1, Answers
  <2>2. CASE /\ Goto(w, "owned")
             /\ \E u \in UnitsByNotation(Rules[req[w].slug].canonical) :
                  loc' = [loc EXCEPT ![w].canonical = u.id]
    <3>1. pc'[w] = "owned"
      BY <2>2, Moved DEF RInv, IInv
    <3>2. PICK u \in UnitsByNotation(Rules[req[w].slug].canonical) :
                  loc' = [loc EXCEPT ![w].canonical = u.id]
      BY <2>2
    <3>3. loc'[w].parameter = loc[w].parameter /\ loc'[w].canonical = u.id
      BY <3>2 DEF RInv, IInv, TypeOKWorkers, Locals
    <3>4. CanonicalIs(loc[w].parameter, u.id)
      BY <1>3, CanonicalFound DEF FindCanonicalUnit
    <3>5. UNCHANGED <<tables, req>> /\ At(w, "create_measurement", "canonical")
      BY <1>3 DEF FindCanonicalUnit
    <3>6. ReliesOnCanonical(w)'
      BY <3>3, <3>4, <3>5
         DEF ReliesOnCanonical, CanonicalIs, CanonicalFor, IdsOf, tables
    <3>7. ReliesOnMeasurement(w)'
      BY <3>1 DEF ReliesOnMeasurement, At
    <3> QED
      BY <3>3, <3>5, <3>6, <3>7, GoesOn DEF At
  <2> QED BY <1>3, <2>1, <2>2 DEF FindCanonicalUnit
<1>4. ASSUME CreateMeasurement(w) PROVE Relies(w)'
  <2>1. CASE Goto(w, "refused") /\ UNCHANGED loc
    <3>1. pc'[w] = "refused"
      BY <2>1, Moved DEF RInv, IInv
    <3> QED
      BY <1>4, <2>1, <3>1, GoesOn
         DEF CreateMeasurement, At, ReliesOnMeasurement, ReliesOnCanonical
  <2>2. CASE Goto(w, "refresh") /\ \E n : loc' = [loc EXCEPT ![w].row = n]
    <3>1. pc'[w] = "refresh"
      BY <2>2, Moved DEF RInv, IInv
    <3>2. loc'[w].parameter = loc[w].parameter
      BY <2>2 DEF RInv, IInv, TypeOKWorkers, Locals
    <3> QED
      BY <1>4, <3>1, <3>2, GoesOn
         DEF CreateMeasurement, At, ReliesOnMeasurement, ReliesOnCanonical
  <2> QED BY <1>4, <2>1, <2>2 DEF CreateMeasurement
<1>5. ASSUME ListMeasurements(w) PROVE Relies(w)'
  <2>1. pc'[w] = "units"
    BY <1>5, Moved DEF RInv, IInv, ListMeasurements
  <2>2. loc'[w].parameter = loc[w].parameter
    BY <1>5 DEF ListMeasurements, RInv, IInv, TypeOKWorkers, Locals
  <2> QED
    BY <1>5, <2>1, <2>2, GoesOn
       DEF ListMeasurements, At, ReliesOnMeasurement, ReliesOnCanonical
<1>6. ASSUME SelectMeasurement(w) PROVE Relies(w)'
  <2>1. CASE Answer(w, 404)
    BY <2>1, Answers
  <2>2. CASE /\ Goto(w, "commit")
             /\ \E m \in measurements : /\ m.id = req[w].measurement
                                        /\ m.aquarium = req[w].aquarium
    <3>1. MeasurementIs(req[w].measurement, req[w].aquarium)
      BY <2>2 DEF RInv, IInv, StoreInv, KeysMinted, KeysUnique, MeasurementIs
    <3>2. ReliesOnMeasurement(w)'
      BY <1>6, <3>1 DEF SelectMeasurement, ReliesOnMeasurement, MeasurementIs, tables
    <3>3. ReliesOnCanonical(w)'
      BY <1>6 DEF SelectMeasurement, At, ReliesOnCanonical
    <3> QED
      BY <1>6, <3>2, <3>3, GoesOn DEF SelectMeasurement, At
  <2> QED BY <1>6, <2>1, <2>2 DEF SelectMeasurement
<1>7. ASSUME \/ ReportDuplicate(w) \/ RefreshMeasurement(w)
             \/ LoadUnits(w) \/ RemoveMeasurement(w)
      PROVE Relies(w)'
  BY <1>7, Answers DEF ReportDuplicate, RefreshMeasurement, LoadUnits,
                       RemoveMeasurement
<1> QED
  BY <1>1, <1>2, <1>3, <1>4, <1>5, <1>6, <1>7 DEF MeasurementStep

LEMMA AquariumStepRelies ==
  ASSUME RInv, NEW w \in Workers, Step(w), AquariumStep(w)
  PROVE  Relies(w)'
<1> USE DEF ScopedRoutes, ThresholdRoutes, MeasurementRoutes
<1>1. ASSUME CreateAquarium(w) PROVE Relies(w)'
  BY <1>1, NothingToRelyOn DEF CreateAquarium, At
<1>2. ASSUME SelectAquarium(w) PROVE Relies(w)'
  <2>1. CASE Answer(w, 404)
    BY <2>1, Answers
  <2>2. CASE \E a \in aquariums :
               /\ a.owner = req[w].user
               /\ loc' = [loc EXCEPT ![w].row = a.id, ![w].name = a.name]
    <3>1. PICK a \in aquariums :
               /\ a.owner = req[w].user
               /\ loc' = [loc EXCEPT ![w].row = a.id, ![w].name = a.name]
      BY <2>2
    <3>2. loc'[w].row = a.id
      BY <3>1 DEF RInv, IInv, TypeOKWorkers, Locals
    <3>3. AquariumIs(a.id, req[w].user)
      BY <3>1, OwnedIs DEF Owned
    <3>4. ReliesOnRow(w)'
      BY <1>2, <3>2, <3>3 DEF SelectAquarium, ReliesOnRow, AquariumIs, tables
    <3> QED
      BY <1>2, <3>4 DEF SelectAquarium, Relies, ReliesOnAquarium,
         ReliesOnParameter, ReliesOnMeasurement, ReliesOnCanonical, At
  <2> QED BY <1>2, <2>1, <2>2 DEF SelectAquarium
<1>3. ASSUME UpdateAquarium(w) PROVE Relies(w)'
  <2>1. pc'[w] # "commit"
    <3>1. Answer(w, 500) \/ Answer(w, 409) \/ Goto(w, "refresh")
      BY <1>3 DEF UpdateAquarium
    <3> QED BY <3>1, Moved DEF RInv, IInv
  <2> QED BY <1>3, <2>1, NothingToRelyOn DEF UpdateAquarium, At
<1>4. ASSUME GetAquarium(w) \/ RefreshAquarium(w) \/ RemoveAquarium(w)
      PROVE Relies(w)'
  BY <1>4, Answers DEF GetAquarium, RefreshAquarium, RemoveAquarium
<1> QED BY <1>1, <1>2, <1>3, <1>4 DEF AquariumStep

LEMMA CatalogStepRelies ==
  ASSUME RInv, NEW w \in Workers, CatalogStep(w)
  PROVE  Relies(w)'
<1>1. /\ req' = req
      /\ req[w].route \notin ScopedRoutes \cup {"update_aquarium", "delete_aquarium"}
  BY DEF CatalogStep, CreateParameter, CreateUnit, SelectParameter, SelectUnit,
     UpdateCatalogRow, RefreshCatalogRow, RemoveParameter, RemoveUnit, At,
     CatalogRoutes, ScopedRoutes, ThresholdRoutes, MeasurementRoutes
<1> QED
  BY <1>1, NothingToRelyOn

LEMMA LookupRelies ==
  ASSUME RInv, NEW w \in Workers, Step(w),
         FindAquarium(w) \/ FindParameter(w) \/ CheckOwned(w)
  PROVE  Relies(w)'
<1>1. CASE req[w].route \in ScopedRoutes
  BY <1>1, FindAquariumRelies, FindParameterRelies, CheckOwnedRelies
<1>2. CASE req[w].route \notin ScopedRoutes
  <2>1. req' = req
    BY DEF FindAquarium, FindParameter, CheckOwned
  <2>2. /\ AfterParameter(req[w].route) # "commit"
        /\ req[w].route # "create_measurement"
    BY <1>2 DEF AfterParameter, ScopedRoutes, MeasurementRoutes
  <2>3. pc'[w] # "commit"
    BY <2>2, Moved DEF RInv, IInv, FindAquarium, FindParameter, CheckOwned
  <2> QED
    BY <1>2, <2>1, <2>3, NothingToRelyOn
<1> QED BY <1>1, <1>2

LEMMA AcceptRelies ==
  ASSUME RInv, NEW w \in Workers, Accept(w)
  PROVE  Relies(w)'
<1>1. PICK r \in Arrivals : /\ req' = [req EXCEPT ![w] = r]
                            /\ pc' = [pc EXCEPT ![w] = Entry(r.route)]
  BY DEF Accept
<1>2. req'[w].route = r.route /\ pc'[w] = Entry(r.route)
  BY <1>1 DEF RInv, IInv, TypeOKWorkers
<1>3. \/ Entry(r.route) \in {"body", "aquarium"}
      \/ r.route \notin ScopedRoutes /\ Entry(r.route) # "commit"
      \/ r.route \notin ScopedRoutes \cup {"update_aquarium", "delete_aquarium"}
  BY DEF Entry, ScopedRoutes, ThresholdRoutes, MeasurementRoutes
<1> QED BY <1>2, <1>3, NothingToRelyOn

LEMMA OwnRelies ==
  ASSUME RInv, NEW w \in Workers, Accept(w) \/ Handle(w)
  PROVE  Relies(w)'
<1>1. Step(w)
  BY WorkerStep DEF RInv
<1>2. ASSUME Close(w) PROVE Relies(w)'
  BY <1>2, NothingToRelyOn DEF Close, RInv, IInv, TypeOKWorkers
<1> QED
  BY <1>1, <1>2, AcceptRelies, LookupRelies, AquariumStepRelies,
     ThresholdStepRelies, MeasurementStepRelies, CatalogStepRelies DEF Handle

-----------------------------------------------------------------------------
(* What a step writes                                                      *)

NewThresholdsInRange ==
    \A t \in thresholds', p \in parameters :
        t.parameter = p.id => \A v \in {t.target, t.min, t.max} : InRange(p.slug, v)
NewReadingsCanonical ==
    \A m \in measurements' \ measurements :
        m.parameter \in IdsOf(parameters) /\ CanonicalFor(m.parameter, m.unit)
NewUnitsDerived ==
    \A u \in units' \ units : u.slug = Slugify[u.unit]

Effect(w) ==
    /\ OwnerOnly(w)
    /\ NewThresholdsInRange
    /\ NewReadingsCanonical
    /\ NewUnitsDerived

LEMMA NoEffect ==
  ASSUME RInv, NEW w \in Workers, UNCHANGED <<aquariums, thresholds, measurements>>,
         NewUnitsDerived
  PROVE  Effect(w)
BY DEF Effect, OwnerOnly, Changed, NewThresholdsInRange, RInv,
   ThresholdWithinRange, NewReadingsCanonical

LEMMA ReadingEffect ==
  ASSUME RInv, NEW w \in Workers, UNCHANGED tables
  PROVE  Effect(w)
BY NoEffect DEF NewUnitsDerived, tables

\* What a row refers to is there, with its owner.
LEMMA OwnerOf ==
  ASSUME RInv, NEW id, NEW user, AquariumIs(id, user), id \in IdsOf(aquariums)
  PROVE  Owned(id, user)
BY DEF AquariumIs, IdsOf, Owned

LEMMA AquariumEffect ==
  ASSUME RInv, NEW w \in Workers, AquariumStep(w)
  PROVE  Effect(w)
<1>1. CASE UNCHANGED tables
  BY <1>1, ReadingEffect
<1>2. CASE InsertAquarium(req[w].user, req[w].name)
  <2>1. \A a \in Changed(aquariums, aquariums') : a.owner = req[w].user
    BY <1>2 DEF InsertAquarium, Changed
  <2>2. UNCHANGED <<parameters, units, thresholds, measurements>>
    BY <1>2 DEF InsertAquarium, catalog, readings
  <2> QED
    BY <2>1, <2>2 DEF Effect, OwnerOnly, Changed, NewThresholdsInRange,
       NewReadingsCanonical, NewUnitsDerived, RInv, ThresholdWithinRange
<1>3. CASE UpdateAquarium(w) /\ RenameAquarium(loc[w].row, req[w].name)
  <2>1. AquariumIs(loc[w].row, req[w].user)
    BY <1>3 DEF UpdateAquarium, At, RInv, Relies, ReliesOnRow
  <2> DEFINE New(a) == IF a.id = loc[w].row THEN [a EXCEPT !.name = req[w].name]
                                            ELSE a
  <2>2. aquariums' = {New(a) : a \in aquariums}
    BY <1>3 DEF RenameAquarium
  <2>3. \A a \in aquariums : \/ New(a) = a
                             \/ New(a).owner = a.owner /\ a.id = loc[w].row
    BY DEF RInv, IInv, StoreInv, TypeOKStore, Aquarium
  <2> HIDE DEF New
  <2>4. \A a \in Changed(aquariums, aquariums') : a.owner = req[w].user
    BY <2>1, <2>2, <2>3 DEF Changed, AquariumIs
  <2>5. UNCHANGED <<parameters, units, thresholds, measurements>>
    BY <1>3 DEF RenameAquarium, catalog, readings
  <2> QED
    BY <2>4, <2>5 DEF Effect, OwnerOnly, Changed, NewThresholdsInRange,
       NewReadingsCanonical, NewUnitsDerived, RInv, ThresholdWithinRange
<1>4. CASE RemoveAquarium(w)
  <2>1. /\ AquariumIs(loc[w].row, req[w].user) /\ DeleteAquarium(loc[w].row)
    BY <1>4 DEF RemoveAquarium, At, RInv, Relies, ReliesOnRow
  <2>2. \A a \in Changed(aquariums, aquariums') : a.owner = req[w].user
    BY <2>1 DEF DeleteAquarium, Changed, AquariumIs
  <2>3. \A t \in Changed(thresholds, thresholds') :
          BelongsTo(req[w].user, t.aquarium)
    BY <2>1, OwnerOf DEF DeleteAquarium, Changed, BelongsTo, RInv, IInv,
       StoreInv, ReferencesResolve
  <2>4. \A m \in Changed(measurements, measurements') :
          BelongsTo(req[w].user, m.aquarium)
    BY <2>1, OwnerOf DEF DeleteAquarium, Changed, BelongsTo, RInv, IInv,
       StoreInv, ReferencesResolve
  <2>5. NewThresholdsInRange /\ NewReadingsCanonical /\ NewUnitsDerived
    BY <2>1 DEF DeleteAquarium, catalog, NewThresholdsInRange,
       NewReadingsCanonical, NewUnitsDerived, RInv, ThresholdWithinRange
  <2> QED
    BY <2>2, <2>3, <2>4, <2>5 DEF Effect, OwnerOnly
<1> QED
  BY <1>1, <1>2, <1>3, <1>4 DEF AquariumStep, GetAquarium, CreateAquarium,
     SelectAquarium, UpdateAquarium, RefreshAquarium

\* Past the lookups of set_threshold, at its INSERT or UPDATE.
LEMMA PutFacts ==
  ASSUME RInv, NEW w \in Workers, At(w, "set_threshold", "commit")
  PROVE  /\ AquariumIs(req[w].aquarium, req[w].user)
         /\ \A p \in parameters : p.id = loc[w].parameter =>
              \A v \in {req[w].target, req[w].min, req[w].max} : InRange(p.slug, v)
<1>1. /\ ReliesOnAquarium(w) /\ ReliesOnParameter(w)
      /\ pc[w] = "commit" /\ req[w].route = "set_threshold"
  BY DEF RInv, Relies, At
<1>2. pc[w] \in PastParameter /\ pc[w] \in PastAquarium
      /\ req[w].route \in ScopedRoutes
  BY <1>1 DEF PastParameter, PastAquarium, ScopedRoutes, ThresholdRoutes
<1> QED
  BY <1>1, <1>2 DEF ReliesOnAquarium, ReliesOnParameter, ParameterIs, ThresholdInRange

LEMMA ThresholdEffect ==
  ASSUME RInv, NEW w \in Workers, ThresholdStep(w)
  PROVE  Effect(w)
<1>1. CASE UNCHANGED tables
  BY <1>1, ReadingEffect
<1>2. CASE At(w, "set_threshold", "commit") /\ InsertThreshold(Body(w))
  <2>1. thresholds' = thresholds \cup {Body(w)} /\ Body(w).aquarium = req[w].aquarium
    BY <1>2 DEF InsertThreshold, Body
  <2>2. req[w].aquarium \in IdsOf(aquariums)
    BY <1>2 DEF InsertThreshold, ThresholdRefused, Body
  <2>3. OwnerOnly(w)
    <3>1. Owned(req[w].aquarium, req[w].user)
      BY <1>2, <2>2, PutFacts, OwnerOf
    <3> QED
      BY <1>2, <2>1, <3>1 DEF InsertThreshold, OwnerOnly, Changed, BelongsTo
  <2>4. NewThresholdsInRange
    BY <1>2, <2>1, PutFacts DEF NewThresholdsInRange, Body, RInv, ThresholdWithinRange
  <2> QED
    BY <1>2, <2>3, <2>4 DEF InsertThreshold, Effect, NewReadingsCanonical,
       NewUnitsDerived, catalog
<1>3. CASE At(w, "set_threshold", "commit") /\ UpdateThreshold(loc[w].threshold, Body(w))
  <2> DEFINE New(t) == IF t.aquarium = Body(w).aquarium /\ t.parameter = Body(w).parameter
                         THEN Overlay(t, loc[w].threshold, Body(w)) ELSE t
  <2>1. thresholds' = {New(t) : t \in thresholds}
    BY <1>3 DEF UpdateThreshold
  <2>2. ASSUME NEW t \in thresholds
        PROVE  /\ New(t).aquarium = t.aquarium /\ New(t).parameter = t.parameter
               /\ \/ New(t) = t
                  \/ /\ t.aquarium = req[w].aquarium
                     /\ t.parameter = loc[w].parameter
                     /\ New(t).target \in {t.target, req[w].target}
                     /\ New(t).min \in {t.min, req[w].min}
                     /\ New(t).max \in {t.max, req[w].max}
    BY DEF RInv, IInv, StoreInv, TypeOKStore, Threshold, Overlay, Body
  <2> HIDE DEF New
  <2>3. OwnerOnly(w)
    <3>1. \A t \in thresholds : t.aquarium \in IdsOf(aquariums)
      BY DEF RInv, IInv, StoreInv, ReferencesResolve
    <3>2. \A t \in Changed(thresholds, thresholds') :
            t.aquarium = req[w].aquarium /\ t.aquarium \in IdsOf(aquariums)
      BY <2>1, <2>2, <3>1 DEF Changed
    <3>3. \A t \in Changed(thresholds, thresholds') :
            BelongsTo(req[w].user, t.aquarium)
      BY <1>3, <3>2, PutFacts, OwnerOf DEF BelongsTo
    <3> QED
      BY <1>3, <3>3 DEF UpdateThreshold, OwnerOnly, Changed
  <2>4. NewThresholdsInRange
    <3> SUFFICES ASSUME NEW t \in thresholds, NEW p \in parameters,
                        New(t).parameter = p.id,
                        NEW v \in {New(t).target, New(t).min, New(t).max}
                 PROVE  InRange(p.slug, v)
      BY <2>1 DEF NewThresholdsInRange
    <3>1. \A x \in {t.target, t.min, t.max} : InRange(p.slug, x)
      BY <2>2 DEF RInv, ThresholdWithinRange
    <3>2. t.parameter = loc[w].parameter =>
            \A x \in {req[w].target, req[w].min, req[w].max} : InRange(p.slug, x)
      BY <1>3, <2>2, PutFacts
    <3> QED BY <2>2, <3>1, <3>2
  <2> QED
    BY <1>3, <2>3, <2>4 DEF UpdateThreshold, Effect, NewReadingsCanonical,
       NewUnitsDerived, catalog
<1> QED
  BY <1>1, <1>2, <1>3 DEF ThresholdStep, ValidateOrdering, SelectThreshold,
     CreateThreshold, ReplaceThreshold, RefreshThreshold, GetThreshold

LEMMA MeasurementEffect ==
  ASSUME RInv, NEW w \in Workers, MeasurementStep(w)
  PROVE  Effect(w)
<1>1. CASE UNCHANGED tables
  BY <1>1, ReadingEffect
<1>2. CASE At(w, "create_measurement", "commit") /\ InsertMeasurement(Reading(w))
  <2>1. /\ ReliesOnAquarium(w) /\ ReliesOnCanonical(w)
        /\ pc[w] = "commit" /\ req[w].route = "create_measurement"
    BY <1>2 DEF RInv, Relies, At
  <2>2. AquariumIs(req[w].aquarium, req[w].user)
    BY <2>1 DEF ReliesOnAquarium, PastAquarium, ScopedRoutes, MeasurementRoutes
  <2>3. CanonicalIs(loc[w].parameter, loc[w].canonical)
    BY <2>1 DEF ReliesOnCanonical
  <2>4. /\ req[w].aquarium \in IdsOf(aquariums)
        /\ loc[w].parameter \in IdsOf(parameters)
    BY <1>2 DEF InsertMeasurement, MeasurementRefused, MeasurementOrphan, Reading
  <2>5. /\ measurements' = measurements \cup {Reading(w)}
        /\ Reading(w).aquarium = req[w].aquarium
        /\ Reading(w).parameter = loc[w].parameter
        /\ Reading(w).unit = loc[w].canonical
    BY <1>2 DEF InsertMeasurement, Reading
  <2>6. OwnerOnly(w)
    BY <1>2, <2>2, <2>4, <2>5, OwnerOf
       DEF InsertMeasurement, OwnerOnly, Changed, BelongsTo
  <2>7. NewReadingsCanonical
    BY <2>3, <2>4, <2>5 DEF CanonicalIs, NewReadingsCanonical
  <2> QED
    BY <1>2, <2>6, <2>7 DEF InsertMeasurement, Effect, NewThresholdsInRange,
       NewUnitsDerived, catalog, RInv, ThresholdWithinRange
<1>3. CASE RemoveMeasurement(w)
  <2>1. /\ ReliesOnAquarium(w) /\ ReliesOnMeasurement(w)
        /\ At(w, "delete_measurement", "commit")
        /\ DeleteMeasurement(req[w].measurement)
    BY <1>3 DEF RInv, Relies, RemoveMeasurement
  <2>2. AquariumIs(req[w].aquarium, req[w].user)
    BY <2>1 DEF ReliesOnAquarium, PastAquarium, ScopedRoutes, MeasurementRoutes, At
  <2>3. \A m \in Changed(measurements, measurements') :
          m.aquarium = req[w].aquarium /\ m.aquarium \in IdsOf(aquariums)
    BY <2>1 DEF DeleteMeasurement, Changed, ReliesOnMeasurement, MeasurementIs,
       RInv, IInv, StoreInv, ReferencesResolve
  <2>4. OwnerOnly(w)
    BY <2>1, <2>2, <2>3, OwnerOf DEF DeleteMeasurement, OwnerOnly, Changed, BelongsTo
  <2> QED
    BY <2>1, <2>4 DEF DeleteMeasurement, Effect, NewThresholdsInRange,
       NewReadingsCanonical, NewUnitsDerived, catalog, RInv, ThresholdWithinRange
<1> QED
  BY <1>1, <1>2, <1>3 DEF MeasurementStep, FindUnit, CheckAssociation,
     FindCanonicalUnit, CreateMeasurement, ReportDuplicate, RefreshMeasurement,
     ListMeasurements, LoadUnits, SelectMeasurement

LEMMA CatalogEffect ==
  ASSUME RInv, NEW w \in Workers, CatalogStep(w)
  PROVE  Effect(w)
<1>1. CASE UNCHANGED tables
  BY <1>1, ReadingEffect
<1>2. CASE \E slug : InsertParameter(slug)
  <2>1. UNCHANGED <<aquariums, units, thresholds, measurements>>
    BY <1>2 DEF InsertParameter, readings
  <2> QED BY <2>1, NoEffect DEF NewUnitsDerived
<1>3. CASE \E id : DeleteParameter(id)
  <2>1. UNCHANGED <<aquariums, units, thresholds, measurements>>
    BY <1>3 DEF DeleteParameter, readings
  <2> QED BY <2>1, NoEffect DEF NewUnitsDerived
<1>4. CASE \E notation : InsertUnit(Slugify[notation], notation)
  <2>1. UNCHANGED <<aquariums, thresholds, measurements>> /\ NewUnitsDerived
    BY <1>4 DEF InsertUnit, readings, NewUnitsDerived
  <2> QED BY <2>1, NoEffect
<1>5. CASE \E id : DeleteUnit(id)
  <2>1. UNCHANGED <<aquariums, thresholds, measurements>> /\ NewUnitsDerived
    BY <1>5 DEF DeleteUnit, readings, NewUnitsDerived
  <2> QED BY <2>1, NoEffect
<1> QED
  BY <1>1, <1>2, <1>3, <1>4, <1>5 DEF CatalogStep, CreateParameter, CreateUnit,
     SelectParameter, SelectUnit, UpdateCatalogRow, RefreshCatalogRow,
     RemoveParameter, RemoveUnit

LEMMA StepEffect ==
  ASSUME RInv, NEW w \in Workers, Accept(w) \/ Handle(w)
  PROVE  Effect(w)
BY ReadingEffect, AquariumEffect, ThresholdEffect, MeasurementEffect,
   CatalogEffect DEF Accept, Handle, Close, FindAquarium, FindParameter, CheckOwned

-----------------------------------------------------------------------------
(* RInv is inductive.                                                      *)

\* No route creates an association.
LEMMA NoNewAssociation ==
  ASSUME Statement
  PROVE  parameterUnits' \subseteq parameterUnits
BY StatementKinds
   DEF tables, catalog, InsertAquarium, RenameAquarium, DeleteAquarium,
       InsertThreshold, UpdateThreshold, InsertMeasurement, DeleteMeasurement,
       InsertParameter, DeleteParameter, InsertUnit, DeleteUnit

\* A parameter that has units had them before, and the catalog agreed with its
\* rule: one of its units, u0, occupies the slug of the notation.  A second unit
\* of the notation would need that slug, so none is new.
LEMMA RuledParameter ==
  ASSUME RInv, NEW w \in Workers, Step(w), Effect(w),
         NEW p \in parameters', p.slug \in DOMAIN Rules,
         NEW pu \in parameterUnits', pu.parameter = p.id
  PROVE  /\ p \in parameters /\ pu \in parameterUnits
         /\ \A qu \in parameterUnits : qu.parameter = p.id => qu \in parameterUnits'
         /\ \A qu \in parameterUnits, u \in units :
              qu.parameter = p.id /\ qu.unit = u.id => u \in units'
         /\ \A u \in units' :
              Lower[u.unit] = Lower[Rules[p.slug].canonical] => u \in units
<1> DEFINE notation == Rules[p.slug].canonical
<1>1. /\ StoreInv /\ StoreInv' /\ KeysUnique /\ KeysUnique' /\ Statement
      /\ CatalogAgrees
  BY StatementInv, StatementUnique DEF RInv, IInv, Step
<1>3. /\ minted.parameter \in Nat /\ minted.unit \in Nat
      /\ units \subseteq Unit /\ units' \subseteq Unit
      /\ parameters \subseteq Parameter /\ parameters' \subseteq Parameter
  BY <1>1 DEF StoreInv, TypeOKStore, Minted
<1>4. pu \in parameterUnits /\ p.id \in Nat /\ p.id <= minted.parameter
  BY <1>1, <1>3, NoNewAssociation
     DEF StoreInv, KeysMinted, ReferencesResolve, IdsOf, Parameter
<1>5. p \in parameters
  BY <1>1, <1>4, StatementKeeps
<1>7. \A qu \in parameterUnits : qu.parameter = p.id => qu \in parameterUnits'
  BY <1>1, <1>4, AssociationsStay DEF IdsOf
<1>8. ASSUME NEW qu \in parameterUnits, NEW u \in units,
             qu.parameter = p.id, qu.unit = u.id
      PROVE  u \in units'
  <2>1. PICK v \in units' : v.id = u.id
    BY <1>1, <1>7, <1>8 DEF StoreInv, ReferencesResolve, IdsOf
  <2>2. v \in units
    BY <1>1, <2>1, StatementKeeps DEF StoreInv, KeysMinted
  <2> QED BY <1>1, <2>1, <2>2 DEF KeysUnique
<1>9. PICK u0 \in units' : u0.slug = Slugify[notation] /\ u0 \in units
  <2>1. PICK qu \in parameterUnits, u \in units :
          qu.parameter = p.id /\ qu.unit = u.id /\ u.slug = Slugify[notation]
    BY <1>1, <1>4, <1>5 DEF CatalogAgrees, Agree
  <2> QED BY <1>8, <2>1
<1>10. ASSUME NEW u \in units', Lower[u.unit] = Lower[notation]
       PROVE  u \in units
  <2>1. SUFFICES ASSUME u \notin units PROVE u = u0
    BY <1>9
  <2>2. u.slug = Slugify[u.unit]
    BY <2>1 DEF Effect, NewUnitsDerived
  <2>3. u.unit \in Notations /\ notation \in Notations
    BY <1>3, RulesAssumption DEF Unit
  <2>4. u.slug = u0.slug
    BY <1>9, <1>10, <2>2, <2>3, SlugifyAssumption
  <2> QED BY <1>1, <1>9, <2>4 DEF KeysUnique
<1> QED BY <1>4, <1>5, <1>7, <1>8, <1>10

LEMMA CatalogStillAgrees ==
  ASSUME RInv, NEW w \in Workers, Step(w), Effect(w)
  PROVE  CatalogAgrees'
<1>1. SUFFICES
        ASSUME NEW p \in parameters', p.slug \in DOMAIN Rules,
               NEW pu \in parameterUnits', pu.parameter = p.id
        PROVE  /\ \E qu \in parameterUnits', u \in units' :
                    /\ qu.parameter = p.id /\ qu.unit = u.id
                    /\ u.slug = Slugify[Rules[p.slug].canonical]
               /\ \A u \in units' : Lower[u.unit] = Lower[Rules[p.slug].canonical] =>
                    \E qu \in parameterUnits' :
                      qu.parameter = p.id /\ qu.unit = u.id /\ qu.canonical
  BY DEF CatalogAgrees, Agree
<1> DEFINE notation == Rules[p.slug].canonical
<1>2. /\ p \in parameters /\ pu \in parameterUnits
      /\ \A qu \in parameterUnits : qu.parameter = p.id => qu \in parameterUnits'
      /\ \A qu \in parameterUnits, u \in units :
           qu.parameter = p.id /\ qu.unit = u.id => u \in units'
      /\ \A u \in units' : Lower[u.unit] = Lower[notation] => u \in units
  BY <1>1, RuledParameter
<1>3. /\ \E qu \in parameterUnits, u \in units :
           qu.parameter = p.id /\ qu.unit = u.id /\ u.slug = Slugify[notation]
      /\ \A u \in units : Lower[u.unit] = Lower[notation] =>
           \E qu \in parameterUnits :
             qu.parameter = p.id /\ qu.unit = u.id /\ qu.canonical
  BY <1>1, <1>2 DEF RInv, CatalogAgrees, Agree
<1> QED BY <1>2, <1>3

\* A threshold written by a statement names a parameter the catalog has.
LEMMA ThresholdParents ==
  ASSUME StoreInv, Statement, NEW t \in thresholds'
  PROVE  t.parameter \in IdsOf(parameters)
<1>1. \A s \in thresholds : s.parameter \in IdsOf(parameters)
  BY DEF StoreInv, ReferencesResolve
<1>2. CASE thresholds' \subseteq thresholds
  BY <1>1, <1>2
<1>3. CASE \E row : InsertThreshold(row)
  BY <1>1, <1>3 DEF InsertThreshold, ThresholdRefused
<1>4. CASE \E loaded, new : UpdateThreshold(loaded, new) /\ Bounds(new)
  <2>1. PICK loaded, new : UpdateThreshold(loaded, new) /\ Bounds(new)
    BY <1>4
  <2>2. PICK s \in thresholds : \/ t = s
                                \/ t = Overlay(s, loaded, new)
    BY <2>1 DEF UpdateThreshold
  <2>3. s \in Threshold
    BY DEF StoreInv, TypeOKStore
  <2> QED BY <1>1, <2>1, <2>2, <2>3, OverlayType
<1> QED
  BY <1>2, <1>3, <1>4, StatementKinds
     DEF tables, readings, InsertAquarium, RenameAquarium, DeleteAquarium,
       InsertMeasurement, DeleteMeasurement, InsertParameter, DeleteParameter,
       InsertUnit, DeleteUnit

LEMMA ThresholdsStayInRange ==
  ASSUME RInv, NEW w \in Workers, Step(w), Effect(w)
  PROVE  ThresholdWithinRange'
<1>1. /\ StoreInv /\ StoreInv' /\ KeysUnique /\ Statement
  BY StatementInv DEF RInv, IInv, Step
<1>2. SUFFICES ASSUME NEW t \in thresholds', NEW p \in parameters', t.parameter = p.id
               PROVE  \A v \in {t.target, t.min, t.max} : InRange(p.slug, v)
  BY DEF ThresholdWithinRange, InRange
<1>3. t.parameter \in IdsOf(parameters)
  BY <1>1, ThresholdParents
<1>4. p \in parameters
  BY <1>1, <1>2, <1>3, StatementKeeps DEF StoreInv, KeysMinted, IdsOf
<1> QED
  BY <1>2, <1>4 DEF Effect, NewThresholdsInRange

LEMMA ReadingsStayCanonical ==
  ASSUME RInv, NEW w \in Workers, Step(w), Effect(w)
  PROVE  StoredUnitCanonical'
<1>1. /\ StoreInv /\ StoreInv' /\ Statement
  BY StatementInv DEF RInv, IInv, Step
<1>2. SUFFICES ASSUME NEW m \in measurements'
               PROVE  \E pu \in parameterUnits' :
                        pu.parameter = m.parameter /\ pu.unit = m.unit /\ pu.canonical
  BY DEF StoredUnitCanonical
<1>3. /\ m.parameter \in IdsOf(parameters)
      /\ CanonicalFor(m.parameter, m.unit)
  BY <1>1 DEF Effect, NewReadingsCanonical, StoreInv, ReferencesResolve,
     RInv, StoredUnitCanonical, CanonicalFor
<1>4. /\ m.parameter \in IdsOf(parameters)' /\ m.parameter \in Nat
      /\ m.parameter <= minted.parameter
  BY <1>1, <1>3 DEF StoreInv, ReferencesResolve, KeysMinted, TypeOKStore,
     Parameter, IdsOf
<1> QED
  BY <1>1, <1>3, <1>4, AssociationsStay DEF CanonicalFor

LEMMA StepRInv ==
  ASSUME RInv, NEW w \in Workers, Accept(w) \/ Handle(w)
  PROVE  RInv'
<1>1. Step(w) /\ Effect(w)
  BY WorkerStep, StepEffect DEF RInv
<1>2. IInv' /\ KeysUnique'
  BY <1>1, StepInv, StatementUnique DEF RInv, IInv, Step
<1>3. CatalogAgrees' /\ ThresholdWithinRange' /\ StoredUnitCanonical'
  BY <1>1, CatalogStillAgrees, ThresholdsStayInRange, ReadingsStayCanonical
<1>4. \A v \in Workers : Relies(v)'
  BY <1>1, OwnRelies, OthersRely
<1> QED BY <1>2, <1>3, <1>4 DEF RInv

LEMMA InitRInv == Init => RInv
<1> SUFFICES ASSUME Init PROVE RInv
  OBVIOUS
<1>1. IInv /\ KeysUnique
  BY InitInv, StoreInitUnique DEF Init, ApiInit
<1>2. CatalogAgrees
  BY CatalogAssumption DEF CatalogAgrees, Init, ApiInit, StoreInit
<1>3. ThresholdWithinRange /\ StoredUnitCanonical
  BY DEF Init, ApiInit, StoreInit, ThresholdWithinRange, StoredUnitCanonical
<1>4. \A w \in Workers : Relies(w)
  BY DEF Init, ApiInit, NoRequest, Relies, ReliesOnAquarium, ReliesOnRow,
     ReliesOnParameter, ReliesOnMeasurement, ReliesOnCanonical, PastAquarium,
     PastParameter, At
<1> QED BY <1>1, <1>2, <1>3, <1>4 DEF RInv

LEMMA NextRInv == RInv /\ [Next]_vars => RInv'
<1> SUFFICES ASSUME RInv, [Next]_vars PROVE RInv'
  OBVIOUS
<1>1. ASSUME NEW w \in Workers, Accept(w) \/ Handle(w) PROVE RInv'
  BY <1>1, StepRInv
<1>2. CASE UNCHANGED vars
  <2>1. UNCHANGED <<aquariums, parameters, units, parameterUnits, thresholds,
                    measurements, minted, pc, req, loc>>
    BY <1>2 DEF vars
  <2>2. IInv'
    BY <1>2, NextInv DEF RInv
  <2>3. KeysUnique' /\ CatalogAgrees' /\ ThresholdWithinRange' /\ StoredUnitCanonical'
    BY <2>1 DEF RInv, KeysUnique, CatalogAgrees, ThresholdWithinRange,
       StoredUnitCanonical
  <2>4. \A w \in Workers : Relies(w)'
    <3> SUFFICES ASSUME NEW w \in Workers PROVE Relies(w)'
      OBVIOUS
    <3>1. Relies(w)
      BY DEF RInv
    <3> QED
      BY <2>1, <3>1 DEF Relies, ReliesOnAquarium, ReliesOnRow, ReliesOnParameter,
         ReliesOnMeasurement, ReliesOnCanonical, AquariumIs, ParameterIs,
         MeasurementIs, CanonicalIs, CanonicalFor, IdsOf, At
  <2> QED BY <2>2, <2>3, <2>4 DEF RInv
<1> QED BY <1>1, <1>2 DEF Next

LEMMA RelianceInvariant == Spec => []RInv
BY InitRInv, NextRInv, PTL DEF Spec

-----------------------------------------------------------------------------
(* What follows for any number of workers.                                 *)

\* Every stored threshold value lies in the range of its parameter's rule: the
\* range was checked for the parameter the row refers to, whatever became of the
\* catalog between the check and the write
\* (routers/aquarium_parameter_thresholds.py, set_threshold).
THEOREM ThresholdsInRange == Spec => []ThresholdWithinRange
<1>1. RInv => ThresholdWithinRange
  BY DEF RInv
<1> QED BY <1>1, RelianceInvariant, PTL

\* A measurement is stored in the unit that the catalog marks canonical for its
\* parameter, although create_measurement looks that unit up by the notation the
\* rule names and the catalog may change before and after the INSERT.
THEOREM ReadingsInCanonicalUnits == Spec => []StoredUnitCanonical
<1>1. RInv => StoredUnitCanonical
  BY DEF RInv
<1> QED BY <1>1, RelianceInvariant, PTL

\* No request changes an aquarium of another user, or a threshold or measurement
\* that hangs off one: the owner check precedes the write by several statements,
\* and an aquarium that is gone by then does not come back with another owner.
THEOREM TenantsAreIsolated == Spec => TenantIsolation
<1>1. RInv /\ [Next]_vars => [\A w \in Workers : pc'[w] # pc[w] => OwnerOnly(w)]_vars
  <2> SUFFICES ASSUME RInv, [Next]_vars, ~UNCHANGED vars,
                      NEW w \in Workers, pc'[w] # pc[w]
               PROVE  OwnerOnly(w)
    OBVIOUS
  <2>1. PICK x \in Workers : Accept(x) \/ Handle(x)
    BY DEF Next
  <2>2. x = w
    BY <2>1, WorkerStep DEF RInv, Step, Moves
  <2> QED BY <2>1, <2>2, StepEffect DEF Effect
<1> QED BY <1>1, RelianceInvariant, PTL DEF Spec, TenantIsolation

\* A unit's slug is the one slugify_unit derives from its notation, unless a
\* migration renamed the notation and left the slug (revision 20260731_000005).
SlugsKnown == \A u \in units : SlugLeft(u) \/ u.slug = Slugify[u.unit]

LEMMA KnownStays == RInv /\ SlugsKnown /\ [Next]_vars => SlugsKnown'
<1> SUFFICES ASSUME RInv, SlugsKnown, [Next]_vars PROVE SlugsKnown'
  OBVIOUS
<1>1. ASSUME NEW w \in Workers, Accept(w) \/ Handle(w) PROVE SlugsKnown'
  BY <1>1, StepEffect DEF SlugsKnown, SlugLeft, Effect, NewUnitsDerived
<1> QED BY <1>1 DEF Next, vars, SlugsKnown, SlugLeft

LEMMA KnownUnambiguous == RInv /\ SlugsKnown => NotationUnambiguous
<1> SUFFICES ASSUME RInv, SlugsKnown, NEW u \in units, NEW v \in units,
                    Lower[u.unit] = Lower[v.unit], ~SlugLeft(u), ~SlugLeft(v)
             PROVE  u = v
  BY DEF NotationUnambiguous
<1>1. u.unit \in Notations /\ v.unit \in Notations
  BY DEF RInv, IInv, StoreInv, TypeOKStore, Unit
<1>2. u.slug = v.slug
  BY <1>1, SlugifyAssumption DEF SlugsKnown
<1> QED BY <1>2 DEF RInv, KeysUnique

\* Two units share a notation only where a migration left one of them a slug that
\* is not derived from it, in whatever case and order workers create and delete
\* units: units.unit is not UNIQUE, but any other two units of one notation would
\* share their slug (unit_repository.py, get_by_unit).
THEOREM OneUnitPerNotation == Spec => []NotationUnambiguous
<1>1. Init => RInv /\ SlugsKnown
  BY InitRInv DEF Init, ApiInit, StoreInit, SlugsKnown, SlugLeft
<1> QED BY <1>1, NextRInv, KnownStays, KnownUnambiguous, PTL DEF Spec

\* The unit of a rule is associated with the parameter, so it cannot be deleted,
\* and no second unit of its notation is created.
LEMMA RuleUnitStays == RInv /\ RuleUnitFound /\ [Next]_vars => RuleUnitFound'
<1> SUFFICES ASSUME RInv, RuleUnitFound, [Next]_vars PROVE RuleUnitFound'
  OBVIOUS
<1>1. CASE UNCHANGED vars
  BY <1>1 DEF vars, RuleUnitFound, FoundOnlyIn
<1>2. ASSUME NEW w \in Workers, Accept(w) \/ Handle(w),
             NEW p \in parameters', p.slug \in DOMAIN Rules,
             NEW pu \in parameterUnits', pu.parameter = p.id,
             NEW u \in InitUnits,
             FoundOnlyIn(InitUnits, Rules[p.slug].canonical, u)
      PROVE  FoundOnlyIn(units', Rules[p.slug].canonical, u)
  <2> DEFINE notation == Rules[p.slug].canonical
  <2>1. Step(w) /\ Effect(w)
    BY <1>2, WorkerStep, StepEffect DEF RInv
  <2>2. /\ p \in parameters /\ pu \in parameterUnits
        /\ \A qu \in parameterUnits, v \in units :
             qu.parameter = p.id /\ qu.unit = v.id => v \in units'
        /\ \A v \in units' : Lower[v.unit] = Lower[notation] => v \in units
    BY <1>2, <2>1, RuledParameter
  <2>3. FoundOnlyIn(units, notation, u)
    BY <1>2, <2>2 DEF RuleUnitFound
  <2>4. u \in units /\ Lower[u.unit] = Lower[notation]
    BY <2>3 DEF FoundOnlyIn
  <2>5. u \in units'
    BY <1>2, <2>2, <2>4 DEF RInv, CatalogAgrees, Agree
  <2> QED BY <2>2, <2>3, <2>4, <2>5 DEF FoundOnlyIn
<1> QED BY <1>1, <1>2 DEF Next, RuleUnitFound, FoundOnlyIn

\* If the catalog of the start holds the unit a rule names, and no second one of
\* its notation, then create_measurement finds that unit for every parameter that
\* still has units, while any number of workers create and delete units and
\* parameters: the RuntimeError of aquarium_measurements.py:94 and the
\* MultipleResultsFound of unit_repository.py stay away.
THEOREM RuleUnitsAreFound == Spec => []RuleUnitFound
<1>1. Init => RInv /\ RuleUnitFound
  BY InitRInv DEF Init, ApiInit, StoreInit, RuleUnitFound
<1> QED BY <1>1, NextRInv, RuleUnitStays, PTL DEF Spec

-----------------------------------------------------------------------------
(* One worker.                                                             *)
(*                                                                         *)
(* tools/entrypoint.sh starts one uvicorn process, whose handlers run one  *)
(* after the other.  What a handler has read is then still so when it      *)
(* writes; for several workers only Relies is left of it.                  *)

SeesAquarium(w) ==
    req[w].route \in ScopedRoutes /\ pc[w] \in PastAquarium =>
        Owned(req[w].aquarium, req[w].user)
SeesParameter(w) ==
    req[w].route \in ScopedRoutes /\ pc[w] \in PastParameter =>
        loc[w].parameter \in IdsOf(parameters)
SeesThreshold(w) ==
    req[w].route = "set_threshold" =>
        /\ pc[w] \in PastAquarium \cup {"aquarium"} => Ordered(req[w])
        /\ pc[w] \in {"body", "aquarium", "parameter", "owned", "select"} =>
             loc[w].threshold = NULL
        /\ pc[w] = "commit" =>
             StoredThresholds(w) = {loc[w].threshold} \ {NULL}
        /\ pc[w] = "refresh" => StoredThresholds(w) = {Body(w)}
SeesUnits(w) ==
    req[w].route = "create_measurement" =>
        /\ pc[w] \in {"association", "canonical", "owned", "commit"} =>
             loc[w].unit \in IdsOf(units)
        /\ pc[w] \in {"owned", "commit"} => loc[w].canonical \in IdsOf(units)
        /\ pc[w] = "refused" =>
             ReadingTaken(req[w].aquarium, loc[w].parameter, req[w].at)
        /\ pc[w] = "refresh" => loc[w].row \in IdsOf(measurements)
SeesReadings(w) ==
    At(w, "list_measurements", "units") => loc[w].rows \subseteq measurements

RowIds(route) ==
    CASE route \in AquariumRoutes -> IdsOf(aquariums)
      [] route \in {"create_parameter", "update_parameter", "delete_parameter"} ->
           IdsOf(parameters)
      [] OTHER -> IdsOf(units)
SeesRow(w) ==
    /\ req[w].route \in {"update_aquarium", "delete_aquarium"} /\ pc[w] = "commit" =>
         Owned(loc[w].row, req[w].user) /\ loc[w].row = req[w].aquarium
    /\ /\ req[w].route \in AquariumRoutes \cup CatalogRoutes
       /\ \/ pc[w] = "refresh"
          \/ pc[w] = "commit" /\ req[w].route \notin
               {"create_aquarium", "create_parameter", "create_unit"}
       => loc[w].row \in RowIds(req[w].route)

Sees(w) ==
    /\ pc[w] = "idle" => loc[w] = NoLocals
    /\ pc[w] \in {"aquarium", "parameter", "owned"} => req[w].route \in ScopedRoutes
    /\ SeesAquarium(w)
    /\ SeesParameter(w)
    /\ SeesThreshold(w)
    /\ SeesUnits(w)
    /\ SeesReadings(w)
    /\ SeesRow(w)

SInv ==
    /\ RInv
    /\ ThresholdOrdered
    /\ \A w \in Workers : Sees(w)

LEMMA SoloAnswers ==
  ASSUME SInv, NEW w \in Workers, NEW status, Answer(w, status)
  PROVE  Sees(w)'
<1>1. pc'[w] = "answered"
  BY Moved DEF SInv, RInv, IInv
<1> QED
  BY <1>1 DEF Sees, SeesAquarium, SeesParameter, SeesThreshold, SeesUnits, SeesReadings,
     SeesRow, PastAquarium, PastParameter, At

LEMMA SoloLookups ==
  ASSUME SInv, NEW w \in Workers, FindAquarium(w) \/ FindParameter(w) \/ CheckOwned(w)
  PROVE  Sees(w)' /\ ThresholdOrdered'
<1> USE Moved DEF SInv, RInv, IInv
<1> USE DEF ScopedRoutes, ThresholdRoutes, MeasurementRoutes, AquariumRoutes, CatalogRoutes
<1>1. ASSUME FindAquarium(w) PROVE Sees(w)'
  <2>1. CASE Owned(req[w].aquarium, req[w].user) /\ Goto(w, "parameter")
    <3>1. /\ pc'[w] = "parameter" /\ UNCHANGED <<req, loc, tables>>
          /\ Sees(w) /\ pc[w] = "aquarium"
      BY <1>1, <2>1 DEF FindAquarium
    <3> QED
      BY <2>1, <3>1 DEF Sees, SeesAquarium, SeesParameter, SeesThreshold, SeesUnits,
         SeesReadings, SeesRow, PastAquarium, PastParameter, At, Owned, tables
  <2> QED BY <1>1, <2>1, SoloAnswers DEF FindAquarium
<1>2. ASSUME FindParameter(w) PROVE Sees(w)'
  <2>1. CASE /\ Goto(w, AfterParameter(req[w].route))
             /\ \E p \in ParametersBySlug(req[w].slug) :
                  loc' = [loc EXCEPT ![w].parameter = p.id]
    <3>1. PICK p \in parameters : loc' = [loc EXCEPT ![w].parameter = p.id]
      BY <2>1 DEF ParametersBySlug
    <3>2. loc'[w].parameter \in IdsOf(parameters) /\ loc'[w].threshold = loc[w].threshold
      BY <3>1 DEF IdsOf, TypeOKWorkers, Locals
    <3>3. /\ UNCHANGED <<req, tables>> /\ Sees(w) /\ pc[w] = "parameter"
          /\ pc'[w] = AfterParameter(req[w].route)
          /\ pc'[w] \in {"unit", "select", "owned"}
          /\ req[w].route = "create_measurement" => pc'[w] = "unit"
      BY <1>2, <2>1 DEF FindParameter, AfterParameter
    <3> QED
      BY <3>2, <3>3 DEF Sees, SeesAquarium, SeesParameter, SeesThreshold, SeesUnits,
         SeesReadings, SeesRow, PastAquarium, PastParameter, At, Owned, tables
  <2> QED BY <1>2, <2>1, SoloAnswers DEF FindParameter
<1>3. ASSUME CheckOwned(w) PROVE Sees(w)'
  <2>1. CASE Goto(w, IF req[w].route = "create_measurement" THEN "commit" ELSE "select")
    <3>1. /\ UNCHANGED <<req, loc, tables>> /\ Sees(w) /\ pc[w] = "owned"
          /\ pc'[w] = IF req[w].route = "create_measurement" THEN "commit" ELSE "select"
      BY <1>3, <2>1 DEF CheckOwned
    <3> QED
      BY <3>1 DEF Sees, SeesAquarium, SeesParameter, SeesThreshold, SeesUnits,
         SeesReadings, SeesRow, PastAquarium, PastParameter, At, Owned, IdsOf, tables
  <2> QED BY <1>3, <2>1, SoloAnswers DEF CheckOwned
<1>4. ThresholdOrdered'
  BY DEF FindAquarium, FindParameter, CheckOwned, tables, ThresholdOrdered
<1> QED BY <1>1, <1>2, <1>3, <1>4

\* Against the row as it was loaded, the changed columns make the new row.
LEMMA OverlayLoaded ==
  ASSUME NEW row \in Threshold, NEW new \in Threshold,
         new.aquarium = row.aquarium, new.parameter = row.parameter
  PROVE  Overlay(row, row, new) = new
<1> DEFINE written == Overlay(row, row, new)
<1>1. written \in Threshold
  BY OverlayType DEF Threshold, Bounds
<1>2. /\ written.aquarium = new.aquarium /\ written.parameter = new.parameter
      /\ written.target = new.target /\ written.min = new.min /\ written.max = new.max
  BY DEF Overlay, Threshold
<1> QED
  BY <1>1, <1>2 DEF Threshold

LEMMA SoloThreshold ==
  ASSUME SInv, NEW w \in Workers, ThresholdStep(w)
  PROVE  Sees(w)' /\ ThresholdOrdered'
<1> USE Moved DEF SInv, RInv, IInv
<1> USE DEF ScopedRoutes, ThresholdRoutes, MeasurementRoutes, AquariumRoutes, CatalogRoutes
<1>1. ASSUME ValidateOrdering(w) PROVE Sees(w)' /\ ThresholdOrdered'
  <2>1. CASE Ordered(req[w]) /\ Goto(w, "aquarium")
    <3>1. /\ pc'[w] = "aquarium" /\ UNCHANGED <<req, loc, tables>> /\ Sees(w)
          /\ At(w, "set_threshold", "body")
      BY <1>1, <2>1 DEF ValidateOrdering
    <3> QED
      BY <2>1, <3>1 DEF Sees, SeesAquarium, SeesParameter, SeesThreshold, SeesUnits,
         SeesReadings, SeesRow, PastAquarium, PastParameter, At, tables, ThresholdOrdered
  <2> QED BY <1>1, <2>1, SoloAnswers DEF ValidateOrdering, tables, ThresholdOrdered
<1>2. ASSUME SelectThreshold(w) PROVE Sees(w)' /\ ThresholdOrdered'
  <2>1. /\ pc'[w] = "commit" /\ UNCHANGED <<req, tables>> /\ Sees(w)
        /\ At(w, "set_threshold", "select") /\ loc'[w].parameter = loc[w].parameter
        /\ \/ StoredThresholds(w) = {} /\ UNCHANGED loc
           \/ loc'[w].threshold \in StoredThresholds(w)
    BY <1>2 DEF SelectThreshold, TypeOKWorkers, Locals
  <2>2. StoredThresholds(w)' = StoredThresholds(w)
    BY <2>1 DEF StoredThresholds, tables
  <2>3. ASSUME NEW s \in StoredThresholds(w), NEW t \in StoredThresholds(w)
        PROVE  s = t /\ s # NULL
    BY NotationAssumption DEF StoredThresholds, KeysUnique, StoreInv, TypeOKStore
  <2>4. loc[w].threshold = NULL
    BY <2>1 DEF At, Sees, SeesThreshold
  <2>5. StoredThresholds(w)' = {loc'[w].threshold} \ {NULL}
    BY <2>1, <2>2, <2>3, <2>4
  <2> QED
    BY <2>1, <2>5 DEF Sees, SeesAquarium, SeesParameter, SeesThreshold, SeesUnits,
       SeesReadings, SeesRow, PastAquarium, PastParameter, At, Owned, IdsOf, tables,
       ThresholdOrdered
<1>3. ASSUME At(w, "set_threshold", "commit"), UNCHANGED <<req, loc>>,
             pc'[w] = "refresh", UNCHANGED <<aquariums, parameters>>,
             Body(w) \in thresholds',
             \A t \in thresholds' :
               \/ t = Body(w)
               \/ t \in thresholds \ StoredThresholds(w)
      PROVE  Sees(w)' /\ ThresholdOrdered'
  <2>1. /\ Body(w).aquarium = req[w].aquarium /\ Body(w).parameter = loc[w].parameter
        /\ Body(w).target = req[w].target /\ Body(w).min = req[w].min
        /\ Body(w).max = req[w].max /\ Body(w)' = Body(w)
    BY <1>3 DEF Body
  <2>2. Sees(w) /\ Ordered(req[w])
    BY <1>3 DEF Sees, SeesThreshold, PastAquarium, At
  <2>3. Ordered(Body(w))
    BY <2>1, <2>2 DEF Ordered
  <2>4. ThresholdOrdered'
    BY <1>3, <2>3 DEF ThresholdOrdered
  <2>5. StoredThresholds(w)' = {Body(w)'}
    BY <1>3, <2>1 DEF StoredThresholds
  <2> QED
    BY <1>3, <2>2, <2>4, <2>5 DEF Sees, SeesAquarium, SeesParameter, SeesThreshold,
       SeesUnits, SeesReadings, SeesRow, PastAquarium, PastParameter, At, Owned, IdsOf
<1>4. ASSUME CreateThreshold(w) PROVE Sees(w)' /\ ThresholdOrdered'
  <2>1. CASE InsertThreshold(Body(w)) /\ Goto(w, "refresh")
    <3>1. StoredThresholds(w) = {}
      BY <1>4 DEF CreateThreshold, Sees, SeesThreshold, At
    <3> QED
      BY <1>3, <1>4, <2>1, <3>1 DEF CreateThreshold, InsertThreshold, catalog
  <2> QED BY <1>4, <2>1, SoloAnswers DEF CreateThreshold, tables, ThresholdOrdered
<1>5. ASSUME ReplaceThreshold(w) PROVE Sees(w)' /\ ThresholdOrdered'
  <2>1. CASE UpdateThreshold(loc[w].threshold, Body(w)) /\ Goto(w, "refresh")
    <3> DEFINE loaded == loc[w].threshold
    <3>1. /\ StoredThresholds(w) = {loaded}
          /\ At(w, "set_threshold", "commit") /\ UNCHANGED <<req, loc>>
      BY <1>5 DEF ReplaceThreshold, Sees, SeesThreshold, At
    <3>2. /\ loaded \in thresholds /\ loaded \in Threshold
          /\ loaded.aquarium = req[w].aquarium /\ loaded.parameter = loc[w].parameter
      BY <3>1 DEF StoredThresholds, StoreInv, TypeOKStore
    <3>3. Overlay(loaded, loaded, Body(w)) = Body(w)
      <4>1. Body(w) \in Threshold
        BY <3>1, <3>2, RequestFields DEF Body, Threshold, Bounds, At
      <4> QED BY <3>2, <4>1, OverlayLoaded DEF Body
    <3>4. /\ Body(w).aquarium = req[w].aquarium
          /\ Body(w).parameter = loc[w].parameter
      BY DEF Body
    <3>5. thresholds' = {IF t \in StoredThresholds(w) THEN Body(w) ELSE t : t \in thresholds}
      BY <2>1, <3>1, <3>3, <3>4 DEF UpdateThreshold, StoredThresholds
    <3> QED
      BY <1>3, <2>1, <3>1, <3>2, <3>5 DEF UpdateThreshold, catalog
  <2> QED BY <1>5, <2>1, SoloAnswers DEF ReplaceThreshold, tables, ThresholdOrdered
<1>6. ASSUME RefreshThreshold(w) \/ GetThreshold(w) PROVE Sees(w)' /\ ThresholdOrdered'
  BY <1>6, SoloAnswers DEF RefreshThreshold, GetThreshold, tables, ThresholdOrdered
<1> QED BY <1>1, <1>2, <1>4, <1>5, <1>6 DEF ThresholdStep

\* Handlers outside an aquarium hold a row, or nothing.
LEMMA SoloUnscoped ==
  ASSUME NEW w \in Workers, req'[w].route \notin ScopedRoutes,
         pc'[w] \notin {"idle", "aquarium", "parameter", "owned"},
         SeesRow(w)'
  PROVE  Sees(w)'
BY DEF Sees, SeesAquarium, SeesParameter, SeesThreshold, SeesUnits, SeesReadings, At,
   ScopedRoutes, ThresholdRoutes, MeasurementRoutes

LEMMA SoloAquarium ==
  ASSUME SInv, NEW w \in Workers, AquariumStep(w)
  PROVE  Sees(w)' /\ ThresholdOrdered'
<1> USE Moved DEF SInv, RInv, IInv
<1> USE DEF ScopedRoutes, ThresholdRoutes, MeasurementRoutes, AquariumRoutes, CatalogRoutes
<1>1. UNCHANGED req /\ thresholds' \subseteq thresholds
  BY DEF AquariumStep, GetAquarium, CreateAquarium, SelectAquarium, UpdateAquarium,
     RefreshAquarium, RemoveAquarium, InsertAquarium, RenameAquarium, DeleteAquarium,
     tables, readings
<1>2. ThresholdOrdered'
  BY <1>1 DEF ThresholdOrdered
<1>3. ASSUME CreateAquarium(w) PROVE Sees(w)'
  <2>1. CASE /\ InsertAquarium(req[w].user, req[w].name)
             /\ loc' = [loc EXCEPT ![w].row = minted.aquarium + 1]
             /\ Goto(w, "refresh")
    <3>1. /\ loc'[w].row = minted.aquarium + 1 /\ pc'[w] = "refresh"
          /\ req'[w].route = "create_aquarium"
      BY <1>1, <1>3, <2>1 DEF CreateAquarium, At, TypeOKWorkers, Locals
    <3> DEFINE new == [id |-> minted.aquarium + 1, owner |-> req[w].user,
                       name |-> req[w].name]
    <3>2. new \in aquariums' /\ new.id = loc'[w].row
      BY <2>1, <3>1 DEF InsertAquarium
    <3>3. SeesRow(w)'
      <4> HIDE DEF new
      <4> QED BY <3>1, <3>2 DEF SeesRow, RowIds, IdsOf
    <3> QED BY <3>1, <3>3, SoloUnscoped
  <2> QED BY <1>3, <2>1, SoloAnswers DEF CreateAquarium
<1>4. ASSUME SelectAquarium(w) PROVE Sees(w)'
  <2>1. CASE \E a \in aquariums :
               /\ a.id = req[w].aquarium /\ a.owner = req[w].user
               /\ loc' = [loc EXCEPT ![w].row = a.id, ![w].name = a.name]
               /\ Goto(w, "commit")
    <3>1. PICK a \in aquariums :
               /\ a.id = req[w].aquarium /\ a.owner = req[w].user
               /\ loc' = [loc EXCEPT ![w].row = a.id, ![w].name = a.name]
               /\ Goto(w, "commit")
      BY <2>1
    <3>2. /\ loc'[w].row = a.id /\ pc'[w] = "commit" /\ UNCHANGED tables
          /\ req'[w].route \in {"update_aquarium", "delete_aquarium"}
      <4>1. loc[w] \in Locals /\ loc'[w] = [loc[w] EXCEPT !.row = a.id, !.name = a.name]
        BY <3>1 DEF TypeOKWorkers
      <4>2. loc'[w].row = a.id
        BY <4>1 DEF Locals
      <4> QED BY <1>1, <1>4, <3>1, <4>2 DEF SelectAquarium
    <3>3. /\ Owned(loc[w].row, req[w].user)' /\ loc'[w].row = req'[w].aquarium
          /\ loc'[w].row \in IdsOf(aquariums)'
      <4>1. a \in aquariums' /\ a.owner = req'[w].user /\ a.id = req'[w].aquarium
        BY <1>1, <3>1, <3>2 DEF tables
      <4> QED BY <3>2, <4>1 DEF Owned, IdsOf
    <3>4. SeesRow(w)'
      BY <3>2, <3>3 DEF SeesRow, RowIds
    <3> QED BY <3>2, <3>4, SoloUnscoped
  <2> QED BY <1>4, <2>1, SoloAnswers DEF SelectAquarium
<1>5. ASSUME UpdateAquarium(w) PROVE Sees(w)'
  <2>1. CASE Goto(w, "refresh")
    <3>1. /\ pc'[w] = "refresh" /\ UNCHANGED loc /\ At(w, "update_aquarium", "commit")
          /\ UNCHANGED tables \/ \E name : RenameAquarium(loc[w].row, name)
      BY <1>5, <2>1 DEF UpdateAquarium
    <3>2. IdsOf(aquariums) \subseteq IdsOf(aquariums)'
      BY <3>1, RenameUnique DEF IdsOf, tables
    <3>3. loc[w].row \in IdsOf(aquariums)
      BY <3>1 DEF Sees, SeesRow, RowIds, At
    <3> QED BY <1>1, <3>1, <3>2, <3>3, SoloUnscoped DEF SeesRow, RowIds, At
  <2> QED BY <1>5, <2>1, SoloAnswers DEF UpdateAquarium
<1>6. ASSUME GetAquarium(w) \/ RefreshAquarium(w) \/ RemoveAquarium(w) PROVE Sees(w)'
  BY <1>6, SoloAnswers DEF GetAquarium, RefreshAquarium, RemoveAquarium
<1> QED BY <1>2, <1>3, <1>4, <1>5, <1>6 DEF AquariumStep

\* Past its lookups a measurement handler only adds units, rows or a key.
LEMMA SoloMeasurementMoves ==
  ASSUME SInv, NEW w \in Workers, UNCHANGED <<req, aquariums, parameters>>,
         req[w].route \in MeasurementRoutes, pc[w] \in PastParameter, pc'[w] # "idle",
         loc'[w].parameter = loc[w].parameter, SeesUnits(w)', SeesReadings(w)'
  PROVE  Sees(w)'
<1>1. Sees(w)
  BY DEF SInv
<1> QED
  BY <1>1 DEF Sees, SeesAquarium, SeesParameter, SeesThreshold, SeesRow, PastParameter,
     Owned, IdsOf, ScopedRoutes, MeasurementRoutes, AquariumRoutes, CatalogRoutes

LEMMA SoloMeasurement ==
  ASSUME SInv, NEW w \in Workers, MeasurementStep(w)
  PROVE  Sees(w)' /\ ThresholdOrdered'
<1> USE Moved DEF SInv, RInv, IInv
<1>1. UNCHANGED <<req, aquariums, parameters, units, thresholds>>
  BY DEF MeasurementStep, FindUnit, CheckAssociation, FindCanonicalUnit, CreateMeasurement,
     ReportDuplicate, RefreshMeasurement, ListMeasurements, LoadUnits, SelectMeasurement,
     RemoveMeasurement,
     InsertMeasurement, DeleteMeasurement, tables, catalog
<1>2. ThresholdOrdered'
  BY <1>1 DEF ThresholdOrdered
<1>3. req[w].route \in MeasurementRoutes /\ pc[w] \in PastParameter
  BY DEF MeasurementStep, FindUnit, CheckAssociation, FindCanonicalUnit, CreateMeasurement,
     ReportDuplicate, RefreshMeasurement, ListMeasurements, LoadUnits, SelectMeasurement,
     RemoveMeasurement,
     At, MeasurementRoutes, PastParameter, PastAquarium
<1>4. Sees(w) /\ TypeOKWorkers
  OBVIOUS
<1>5. ASSUME NEW u \in units, loc' = [loc EXCEPT ![w].unit = u.id],
             At(w, "create_measurement", "unit"), Goto(w, "association")
      PROVE  Sees(w)'
  <2>1. /\ loc'[w].unit = u.id /\ loc'[w].parameter = loc[w].parameter
        /\ pc'[w] = "association"
    BY <1>5 DEF TypeOKWorkers, Locals
  <2>2. SeesUnits(w)' /\ SeesReadings(w)'
    BY <1>1, <2>1 DEF SeesUnits, SeesReadings, IdsOf, At
  <2> QED BY <1>1, <1>3, <2>1, <2>2, SoloMeasurementMoves
<1>6. ASSUME NEW u \in units, loc' = [loc EXCEPT ![w].canonical = u.id],
             At(w, "create_measurement", "canonical"), Goto(w, "owned")
      PROVE  Sees(w)'
  <2>1. /\ loc'[w].canonical = u.id /\ loc'[w].parameter = loc[w].parameter
        /\ loc'[w].unit = loc[w].unit /\ pc'[w] = "owned"
    BY <1>6 DEF TypeOKWorkers, Locals
  <2>2. loc[w].unit \in IdsOf(units)
    BY <1>4, <1>6 DEF Sees, SeesUnits, At
  <2>3. SeesUnits(w)' /\ SeesReadings(w)'
    BY <1>1, <1>6, <2>1, <2>2 DEF SeesUnits, SeesReadings, IdsOf, At
  <2> QED BY <1>1, <1>3, <2>1, <2>3, SoloMeasurementMoves
<1>7. ASSUME InsertMeasurement(Reading(w)), At(w, "create_measurement", "commit"),
             loc' = [loc EXCEPT ![w].row = minted.measurement + 1], Goto(w, "refresh")
      PROVE  Sees(w)'
  <2>1. /\ loc'[w].row = minted.measurement + 1 /\ loc'[w].parameter = loc[w].parameter
        /\ pc'[w] = "refresh"
    BY <1>7 DEF TypeOKWorkers, Locals
  <2>2. loc'[w].row \in IdsOf(measurements)'
    BY <1>7, <2>1 DEF InsertMeasurement, Reading, IdsOf
  <2>3. SeesUnits(w)' /\ SeesReadings(w)'
    BY <1>1, <1>7, <2>1, <2>2 DEF SeesUnits, SeesReadings, At
  <2> QED BY <1>1, <1>3, <2>1, <2>3, SoloMeasurementMoves
<1>8. ASSUME ListMeasurements(w) PROVE Sees(w)'
  <2>1. /\ loc'[w].parameter = loc[w].parameter /\ pc'[w] = "units"
        /\ loc'[w].rows \subseteq measurements' /\ req'[w].route = "list_measurements"
    BY <1>8 DEF ListMeasurements, TypeOKWorkers, Locals, At, tables
  <2>2. SeesUnits(w)' /\ SeesReadings(w)'
    BY <2>1 DEF SeesUnits, SeesReadings, At
  <2> QED BY <1>1, <1>3, <2>1, <2>2, SoloMeasurementMoves
<1>9. ASSUME UNCHANGED loc,
             \/ At(w, "create_measurement", "association") /\ Goto(w, "canonical")
             \/ At(w, "delete_measurement", "select") /\ Goto(w, "commit")
      PROVE  Sees(w)'
  <2>1. pc'[w] \in {"canonical", "commit"} /\ SeesUnits(w)' /\ SeesReadings(w)'
    BY <1>1, <1>4, <1>9 DEF Sees, SeesUnits, SeesReadings, IdsOf, At
  <2> QED BY <1>1, <1>3, <1>9, <2>1, SoloMeasurementMoves
<1>10. ASSUME FindUnit(w) \/ FindCanonicalUnit(w) PROVE Sees(w)'
  <2>1. ASSUME FindUnit(w) PROVE Sees(w)'
    BY <1>5, <2>1, SoloAnswers DEF FindUnit, UnitsByNotation
  <2>2. ASSUME FindCanonicalUnit(w) PROVE Sees(w)'
    BY <1>6, <2>2, SoloAnswers DEF FindCanonicalUnit, UnitsByNotation
  <2> QED BY <1>10, <2>1, <2>2
<1>11. ASSUME CheckAssociation(w) \/ SelectMeasurement(w) PROVE Sees(w)'
  BY <1>9, <1>11, SoloAnswers DEF CheckAssociation, SelectMeasurement
<1>12. ASSUME CreateMeasurement(w) PROVE Sees(w)'
  <2>1. CASE MeasurementRefused(Reading(w)) /\ Goto(w, "refused") /\ UNCHANGED <<tables, loc>>
    <3>1. At(w, "create_measurement", "commit")
      BY <1>12 DEF CreateMeasurement
    <3>2. ~MeasurementOrphan(Reading(w))
      BY <1>4, <3>1 DEF At, Sees, SeesAquarium, SeesParameter, SeesUnits,
         MeasurementOrphan, Reading, Owned, IdsOf, ScopedRoutes, MeasurementRoutes,
         PastAquarium, PastParameter
    <3>3. ReadingTaken(req[w].aquarium, loc[w].parameter, req[w].at)
      BY <2>1, <3>2 DEF MeasurementRefused, Reading
    <3>4. pc'[w] = "refused"
      BY <2>1
    <3>5. SeesUnits(w)' /\ SeesReadings(w)'
      BY <1>1, <2>1, <3>3, <3>4
         DEF SeesUnits, SeesReadings, ReadingTaken, At, tables
    <3> QED BY <1>1, <1>3, <2>1, <3>4, <3>5, SoloMeasurementMoves
  <2> QED BY <1>7, <1>12, <2>1 DEF CreateMeasurement
<1>13. ASSUME \/ ReportDuplicate(w) \/ RefreshMeasurement(w)
              \/ LoadUnits(w) \/ RemoveMeasurement(w)
       PROVE  Sees(w)'
  BY <1>13, SoloAnswers DEF ReportDuplicate, RefreshMeasurement, LoadUnits,
                            RemoveMeasurement
<1> QED BY <1>2, <1>8, <1>10, <1>11, <1>12, <1>13 DEF MeasurementStep

LEMMA SoloCatalog ==
  ASSUME SInv, NEW w \in Workers, CatalogStep(w)
  PROVE  Sees(w)' /\ ThresholdOrdered'
<1> USE Moved DEF SInv, RInv, IInv
<1>1. /\ UNCHANGED <<req, thresholds>> /\ req[w].route \in CatalogRoutes
      /\ pc[w] \in {"commit", "select", "refresh"}
  BY DEF CatalogStep, CreateParameter, CreateUnit, SelectParameter, SelectUnit,
     UpdateCatalogRow, RefreshCatalogRow, RemoveParameter, RemoveUnit, InsertParameter,
     InsertUnit, DeleteParameter, DeleteUnit, tables, readings, At, CatalogRoutes
<1>2. ThresholdOrdered'
  BY <1>1 DEF ThresholdOrdered
<1>3. ASSUME pc'[w] \in {"commit", "refresh"},
             \/ /\ req[w].route \in
                     {"create_parameter", "update_parameter", "delete_parameter"}
                /\ loc'[w].row \in IdsOf(parameters)'
             \/ /\ req[w].route \in {"create_unit", "update_unit", "delete_unit"}
                /\ loc'[w].row \in IdsOf(units)'
      PROVE  Sees(w)'
  <2>1. SeesRow(w)'
    BY <1>1, <1>3 DEF SeesRow, RowIds, CatalogRoutes, AquariumRoutes
  <2>2. req'[w].route \notin ScopedRoutes
    BY <1>1 DEF CatalogRoutes, ScopedRoutes, ThresholdRoutes, MeasurementRoutes
  <2> QED BY <1>3, <2>1, <2>2, SoloUnscoped
<1>4. ASSUME NEW n \in Nat, loc' = [loc EXCEPT ![w].row = n]
      PROVE  loc'[w].row = n
  BY <1>4 DEF TypeOKWorkers, Locals
<1>5. ASSUME CreateParameter(w) PROVE Sees(w)'
  <2>1. CASE /\ InsertParameter(req[w].slug)
             /\ loc' = [loc EXCEPT ![w].row = minted.parameter + 1]
             /\ Goto(w, "refresh")
    <3> DEFINE new == [id |-> minted.parameter + 1, slug |-> req[w].slug]
    <3>1. minted.parameter + 1 \in Nat
      BY DEF StoreInv, TypeOKStore, Minted
    <3>2. new \in parameters' /\ new.id = loc'[w].row
      BY <1>4, <2>1, <3>1 DEF InsertParameter
    <3>3. loc'[w].row \in IdsOf(parameters)'
      <4> HIDE DEF new
      <4> QED BY <3>2 DEF IdsOf
    <3> QED BY <1>3, <1>5, <2>1, <3>3 DEF CreateParameter, At
  <2> QED BY <1>5, <2>1, SoloAnswers DEF CreateParameter
<1>6. ASSUME CreateUnit(w) PROVE Sees(w)'
  <2>1. CASE /\ InsertUnit(Slugify[req[w].unit], req[w].unit)
             /\ loc' = [loc EXCEPT ![w].row = minted.unit + 1]
             /\ Goto(w, "refresh")
    <3> DEFINE new == [id |-> minted.unit + 1, slug |-> Slugify[req[w].unit],
                       unit |-> req[w].unit]
    <3>1. minted.unit + 1 \in Nat
      BY DEF StoreInv, TypeOKStore, Minted
    <3>2. new \in units' /\ new.id = loc'[w].row
      BY <1>4, <2>1, <3>1 DEF InsertUnit
    <3>3. loc'[w].row \in IdsOf(units)'
      <4> HIDE DEF new
      <4> QED BY <3>2 DEF IdsOf
    <3> QED BY <1>3, <1>6, <2>1, <3>3 DEF CreateUnit, At
  <2> QED BY <1>6, <2>1, SoloAnswers DEF CreateUnit
<1>7. ASSUME SelectParameter(w) PROVE Sees(w)'
  <2>1. ASSUME NEW p \in parameters, loc' = [loc EXCEPT ![w].row = p.id],
               Goto(w, "commit")
        PROVE  Sees(w)'
    <3>1. p.id \in Nat /\ loc'[w].row = p.id
      BY <1>4, <2>1 DEF StoreInv, TypeOKStore, Parameter
    <3>2. loc'[w].row \in IdsOf(parameters)'
      BY <1>7, <3>1 DEF SelectParameter, IdsOf, tables
    <3> QED BY <1>3, <1>7, <2>1, <3>2 DEF SelectParameter
  <2> QED BY <1>7, <2>1, SoloAnswers DEF SelectParameter, ParametersBySlug
<1>8. ASSUME SelectUnit(w) PROVE Sees(w)'
  <2>1. ASSUME NEW u \in units, loc' = [loc EXCEPT ![w].row = u.id],
               Goto(w, "commit")
        PROVE  Sees(w)'
    <3>1. u.id \in Nat /\ loc'[w].row = u.id
      BY <1>4, <2>1 DEF StoreInv, TypeOKStore, Unit
    <3>2. loc'[w].row \in IdsOf(units)'
      BY <1>8, <3>1 DEF SelectUnit, IdsOf, tables
    <3> QED BY <1>3, <1>8, <2>1, <3>2 DEF SelectUnit
  <2> QED BY <1>8, <2>1, SoloAnswers DEF SelectUnit
<1>9. ASSUME UpdateCatalogRow(w) PROVE Sees(w)'
  <2>1. CASE Goto(w, "refresh")
    <3>1. /\ req[w].route \in {"update_parameter", "update_unit"}
          /\ loc[w].row \in CatalogIds(w) /\ UNCHANGED <<tables, loc>>
      BY <1>9, <2>1 DEF UpdateCatalogRow, Answer
    <3> QED BY <1>3, <2>1, <3>1 DEF CatalogIds, IdsOf, tables
  <2> QED BY <1>9, <2>1, SoloAnswers DEF UpdateCatalogRow
<1>10. ASSUME RefreshCatalogRow(w) \/ RemoveParameter(w) \/ RemoveUnit(w) PROVE Sees(w)'
  BY <1>10, SoloAnswers DEF RefreshCatalogRow, RemoveParameter, RemoveUnit
<1> QED BY <1>2, <1>5, <1>6, <1>7, <1>8, <1>9, <1>10 DEF CatalogStep

LEMMA SoloStep ==
  ASSUME SInv, NEW w \in Workers, Accept(w) \/ Handle(w)
  PROVE  Sees(w)' /\ ThresholdOrdered'
<1>1. ASSUME Accept(w) PROVE Sees(w)' /\ ThresholdOrdered'
  <2>1. PICK r \in Arrivals : /\ req' = [req EXCEPT ![w] = r]
                              /\ pc' = [pc EXCEPT ![w] = Entry(r.route)]
    BY <1>1 DEF Accept
  <2>2. req'[w] = r /\ pc'[w] = Entry(r.route) /\ loc'[w] = NoLocals /\ UNCHANGED tables
    BY <1>1, <2>1 DEF Accept, SInv, RInv, IInv, TypeOKWorkers, Sees
  <2>3. /\ pc'[w] \in {"body", "aquarium", "commit", "select"}
        /\ r.route = "set_threshold" => pc'[w] = "body"
        /\ r.route \in ScopedRoutes \ {"set_threshold"} => pc'[w] = "aquarium"
        /\ pc'[w] = "aquarium" => r.route \in ScopedRoutes
        /\ pc'[w] = "commit" =>
             r.route \in {"create_aquarium", "create_parameter", "create_unit"}
    BY <2>2 DEF Entry, ScopedRoutes, ThresholdRoutes, MeasurementRoutes
  <2>4. loc'[w].threshold = NULL
    BY <2>2 DEF NoLocals
  <2> QED
    BY <2>2, <2>3, <2>4 DEF Sees, SeesAquarium, SeesParameter, SeesThreshold, SeesUnits,
       SeesReadings, SeesRow, PastAquarium, PastParameter, At, tables, ThresholdOrdered,
       SInv, ScopedRoutes, ThresholdRoutes, MeasurementRoutes
<1>2. ASSUME Close(w) PROVE Sees(w)' /\ ThresholdOrdered'
  <2>1. pc'[w] = "idle" /\ loc'[w] = NoLocals /\ UNCHANGED tables
    BY <1>2 DEF Close, SInv, RInv, IInv, TypeOKWorkers
  <2> QED
    BY <2>1 DEF Sees, SeesAquarium, SeesParameter, SeesThreshold, SeesUnits,
       SeesReadings, SeesRow, PastAquarium, PastParameter, At, tables, ThresholdOrdered,
       SInv
<1> QED
  BY <1>1, <1>2, SoloLookups, SoloAquarium, SoloThreshold,
     SoloMeasurement, SoloCatalog DEF Handle

LEMMA SoloInvariant ==
  ASSUME NEW x, Workers = {x}
  PROVE  Spec => []SInv
<1>1. Init => SInv
  <2> SUFFICES ASSUME Init PROVE SInv
    OBVIOUS
  <2>1. RInv
    BY InitRInv
  <2>2. ThresholdOrdered
    BY DEF Init, ApiInit, StoreInit, ThresholdOrdered
  <2>3. \A w \in Workers : Sees(w)
    BY DEF Init, ApiInit, Sees, SeesAquarium, SeesParameter, SeesThreshold, SeesUnits,
       SeesReadings, SeesRow, PastAquarium, PastParameter, At
  <2> QED BY <2>1, <2>2, <2>3 DEF SInv
<1>2. SInv /\ [Next]_vars => SInv'
  <2> SUFFICES ASSUME SInv, [Next]_vars PROVE SInv'
    OBVIOUS
  <2>1. CASE Next
    BY <2>1, StepRInv, SoloStep DEF Next, SInv
  <2>2. CASE UNCHANGED vars
    BY <2>2, NextRInv DEF vars, SInv, ThresholdOrdered, Sees, SeesAquarium, SeesParameter,
       SeesThreshold, SeesUnits, SeesReadings, SeesRow, PastAquarium, PastParameter, At,
       Owned, IdsOf, StoredThresholds, Body, RowIds, ReadingTaken
  <2> QED BY <2>1, <2>2
<1> QED BY <1>1, <1>2, PTL DEF Spec

\* With the one process that tools/entrypoint.sh starts, every stored threshold is
\* ordered: the row a PUT has loaded is the row its UPDATE finds, so the columns it
\* leaves alone hold what it validated.  (aquarium_parameter_threshold_repository.py;
\* with two workers the run threshold_mixed violates it.)
THEOREM ThresholdsOrderedAlone ==
  ASSUME NEW x, Workers = {x}
  PROVE  Spec => []ThresholdOrdered
<1>1. Spec => []SInv
  BY SoloInvariant
<1>2. SInv => ThresholdOrdered
  BY DEF SInv
<1> QED BY <1>1, <1>2, PTL

\* With one process, a PUT that is answered 200 has stored exactly its body, nulls
\* included, although it writes only the columns that differ.
THEOREM PutReplacesAlone ==
  ASSUME NEW x, Workers = {x}
  PROVE  Spec => PutReplaces
<1>1. SInv /\ [Next]_vars =>
        [\A w \in Workers :
           At(w, "set_threshold", "refresh") /\ ans'[w] = 200
             => StoredThresholds(w) = {Body(w)}]_vars
  BY DEF SInv, Sees, SeesThreshold, At
<1>2. Spec => []SInv
  BY SoloInvariant
<1> QED BY <1>1, <1>2, PTL DEF Spec, PutReplaces

\* The only statements after which a handler answers a refused INSERT or UPDATE
\* of a reading or of an aquarium.
LEMMA Conflicting ==
  ASSUME SInv, NEW w \in Workers, Accept(w) \/ Handle(w),
         pc[w] \in {"commit", "refused"}
  PROVE  /\ req[w].route = "create_measurement" =>
              CreateMeasurement(w) \/ ReportDuplicate(w)
         /\ req[w].route = "create_aquarium" => CreateAquarium(w)
         /\ req[w].route = "update_aquarium" => UpdateAquarium(w)
BY DEF Accept, Handle, FindAquarium, FindParameter, CheckOwned, Close,
   AquariumStep, GetAquarium, SelectAquarium, RefreshAquarium, RemoveAquarium,
   CreateAquarium, UpdateAquarium, ThresholdStep, ValidateOrdering,
   SelectThreshold, CreateThreshold, ReplaceThreshold, RefreshThreshold,
   GetThreshold, MeasurementStep, FindUnit, CheckAssociation, FindCanonicalUnit,
   CreateMeasurement, ReportDuplicate, RefreshMeasurement, ListMeasurements,
   LoadUnits, SelectMeasurement, RemoveMeasurement, CatalogStep, CreateParameter,
   CreateUnit, SelectParameter, SelectUnit, UpdateCatalogRow, RefreshCatalogRow,
   RemoveParameter, RemoveUnit, At

LEMMA ConflictMeansDuplicate ==
  ASSUME SInv, NEW w \in Workers, Accept(w) \/ Handle(w),
         pc[w] \in {"commit", "refused"}, ans'[w] = 409
  PROVE  LET r == req[w] IN
         CASE r.route = "create_measurement" ->
                ReadingTaken(r.aquarium, loc[w].parameter, r.at)
           [] r.route = "create_aquarium" -> NameTaken(r.user, r.name)
           [] r.route = "update_aquarium" -> NullsColumn(r) \/ OtherHasName(r)
           [] OTHER -> TRUE
<1> USE DEF SInv, RInv, IInv
<1>1. ans[w] = 0 /\ Sees(w)
  BY DEF TypeOKWorkers
<1>2. \A label : ~Goto(w, label)
  BY <1>1 DEF Goto
<1>3. CASE req[w].route = "create_measurement"
  <2>1. ReportDuplicate(w)
    BY <1>2, <1>3, Conflicting DEF CreateMeasurement
  <2>2. ReadingTaken(req[w].aquarium, loc[w].parameter, req[w].at)
    BY <1>1, <2>1 DEF ReportDuplicate, At, Sees, SeesUnits
  <2> QED BY <1>3, <2>2
<1>4. CASE req[w].route = "create_aquarium"
  <2>1. CreateAquarium(w)
    BY <1>4, Conflicting
  <2>2. NameTaken(req[w].user, req[w].name)
    BY <1>2, <2>1 DEF CreateAquarium
  <2> QED BY <1>4, <2>2
<1>5. CASE req[w].route = "update_aquarium"
  <2>1. UpdateAquarium(w)
    BY <1>5, Conflicting
  <2>2. NullsColumn(req[w]) \/ RenameRefused(loc[w].row, req[w].name)
    BY <1>1, <1>2, <2>1 DEF UpdateAquarium, Answer, TypeOKWorkers
  <2>3. CASE RenameRefused(loc[w].row, req[w].name)
    <3>1. Owned(loc[w].row, req[w].user) /\ loc[w].row = req[w].aquarium
      BY <1>1, <2>1 DEF UpdateAquarium, Sees, SeesRow, At
    <3>2. \A a \in aquariums : a.id = loc[w].row => a.owner = req[w].user
      BY <3>1 DEF Owned, KeysUnique
    <3>3. OtherHasName(req[w])
      BY <2>3, <3>1, <3>2 DEF RenameRefused, OtherHasName
    <3> QED BY <1>5, <3>3
  <2> QED BY <1>5, <2>2, <2>3
<1> QED BY <1>3, <1>4, <1>5

\* With one process, the 409 of a reading or of an aquarium name means a duplicate,
\* although any IntegrityError is answered so: the parents of the row are still
\* there when it is written.  What remains is the NOT NULL of a name or a type that
\* a PATCH sets to an explicit null.  (aquarium_measurements.py:113, aquariums.py:46.)
THEOREM ConflictsAreDuplicatesAlone ==
  ASSUME NEW x, Workers = {x}
  PROVE  Spec => ConflictIsDuplicate
<1>1. SInv /\ [Next]_vars =>
        [\A w \in Workers :
           pc[w] \in {"commit", "refused"} /\ ans'[w] = 409 =>
             LET r == req[w] IN
             CASE r.route = "create_measurement" ->
                    ReadingTaken(r.aquarium, loc[w].parameter, r.at)
               [] r.route = "create_aquarium" -> NameTaken(r.user, r.name)
               [] r.route = "update_aquarium" -> NullsColumn(r) \/ OtherHasName(r)
               [] OTHER -> TRUE]_vars
  <2> SUFFICES ASSUME SInv, [Next]_vars, ~UNCHANGED vars, NEW w \in Workers,
                      pc[w] \in {"commit", "refused"} /\ ans'[w] = 409
               PROVE  LET r == req[w] IN
                      CASE r.route = "create_measurement" ->
                             ReadingTaken(r.aquarium, loc[w].parameter, r.at)
                        [] r.route = "create_aquarium" -> NameTaken(r.user, r.name)
                        [] r.route = "update_aquarium" ->
                             NullsColumn(r) \/ OtherHasName(r)
                        [] OTHER -> TRUE
    OBVIOUS
  <2>1. Accept(w) \/ Handle(w)
    BY DEF Next
  <2> QED BY <2>1, ConflictMeansDuplicate
<1>2. Spec => []SInv
  BY SoloInvariant
<1> QED BY <1>1, <1>2, PTL DEF Spec, ConflictIsDuplicate

-----------------------------------------------------------------------------
(* The backend implements what module Tenancy promises a tenant, for any   *)
(* number of workers, any catalog, any requests and any bound on the keys. *)
(* Tenancy numbers aquariums and records up to the bound, so the proof     *)
(* first shows that no key is minted beyond it, whatever creates are in    *)
(* flight: BInv.  Then each statement that writes an aquarium, a threshold *)
(* or a measurement is matched with the step of Tenancy it implements.     *)

-----------------------------------------------------------------------------
(* How many keys are minted: every create that was accepted finds room.    *)

Tables == {"aquarium", "parameter", "unit", "measurement"}
Through == {"idle", "refresh", "answered"}

\* Creates that have yet to mint their key.
Pending(table) ==
    {w \in Workers : table \in Mints(req[w].route) /\ pc[w] \notin Through}
Fits(table) == minted[table] + Cardinality(Pending(table)) <= MaxRows[table]

BInv ==
    /\ RInv
    /\ \A table \in Tables : Fits(table)
    /\ \A w \in Workers : pc[w] # "idle" => req[w] \in Arrivals

\* What a step of w has to do with keys.
Accepted(w) == pc[w] = "idle" /\ UNCHANGED minted /\ HasRoom(req'[w])
Mints1(w, table) ==
    /\ w \in Pending(table) /\ pc'[w] \in Through
    /\ minted' = [minted EXCEPT ![table] = @ + 1]
MintsNone(w) ==
    /\ UNCHANGED minted
    /\ \/ pc'[w] \in Through
       \/ pc[w] \notin Through /\ req'[w] = req[w]
Minting(w) == Accepted(w) \/ MintsNone(w) \/ \E table \in Tables : Mints1(w, table)

LEMMA AquariumMinting ==
  ASSUME RInv, NEW w \in Workers, AquariumStep(w)
  PROVE  Minting(w)
<1> USE Moved DEF RInv, IInv, Through, At
<1>1. ASSUME GetAquarium(w) PROVE MintsNone(w)
  BY <1>1 DEF GetAquarium, MintsNone, tables
<1>2. ASSUME CreateAquarium(w) PROVE MintsNone(w) \/ Mints1(w, "aquarium")
  <2>1. CASE UNCHANGED tables /\ Answer(w, 409)
    BY <2>1 DEF MintsNone, tables
  <2>2. CASE InsertAquarium(req[w].user, req[w].name) /\ Goto(w, "refresh")
    BY <1>2, <2>2 DEF CreateAquarium, InsertAquarium, Mints1, Pending, Mints
  <2> QED BY <1>2, <2>1, <2>2 DEF CreateAquarium
<1>3. ASSUME SelectAquarium(w) PROVE MintsNone(w)
  BY <1>3 DEF SelectAquarium, MintsNone, tables
<1>4. ASSUME UpdateAquarium(w) PROVE MintsNone(w)
  <2>1. UNCHANGED minted
    BY <1>4 DEF UpdateAquarium, RenameAquarium, tables
  <2> QED BY <1>4, <2>1 DEF UpdateAquarium, MintsNone
<1>5. ASSUME RefreshAquarium(w) PROVE MintsNone(w)
  BY <1>5 DEF RefreshAquarium, MintsNone, tables
<1>6. ASSUME RemoveAquarium(w) PROVE MintsNone(w)
  BY <1>6 DEF RemoveAquarium, DeleteAquarium, MintsNone
<1> QED
  BY <1>1, <1>2, <1>3, <1>4, <1>5, <1>6 DEF AquariumStep, Minting, Tables

LEMMA ThresholdMinting ==
  ASSUME RInv, NEW w \in Workers, ThresholdStep(w)
  PROVE  MintsNone(w)
<1> USE Moved DEF RInv, IInv, Through, At, MintsNone
<1>1. UNCHANGED minted
  BY DEF ThresholdStep, ValidateOrdering, SelectThreshold, CreateThreshold,
     ReplaceThreshold, RefreshThreshold, GetThreshold, InsertThreshold,
     UpdateThreshold, tables
<1>2. ASSUME ValidateOrdering(w) \/ SelectThreshold(w) PROVE MintsNone(w)
  BY <1>1, <1>2 DEF ValidateOrdering, SelectThreshold
<1>3. ASSUME CreateThreshold(w) \/ ReplaceThreshold(w) PROVE MintsNone(w)
  BY <1>1, <1>3 DEF CreateThreshold, ReplaceThreshold
<1>4. ASSUME RefreshThreshold(w) \/ GetThreshold(w) PROVE MintsNone(w)
  BY <1>1, <1>4 DEF RefreshThreshold, GetThreshold
<1> QED BY <1>2, <1>3, <1>4 DEF ThresholdStep

LEMMA MeasurementMinting ==
  ASSUME RInv, NEW w \in Workers, MeasurementStep(w)
  PROVE  Minting(w)
<1> USE Moved DEF RInv, IInv, Through, At
<1>1. ASSUME FindUnit(w) \/ CheckAssociation(w) \/ FindCanonicalUnit(w)
      PROVE  MintsNone(w)
  BY <1>1 DEF FindUnit, CheckAssociation, FindCanonicalUnit, MintsNone, tables
<1>2. ASSUME CreateMeasurement(w) PROVE MintsNone(w) \/ Mints1(w, "measurement")
  <2>1. CASE UNCHANGED tables
    BY <1>2, <2>1 DEF CreateMeasurement, MintsNone, tables
  <2>2. CASE InsertMeasurement(Reading(w)) /\ Goto(w, "refresh")
    BY <1>2, <2>2 DEF CreateMeasurement, InsertMeasurement, Mints1, Pending, Mints
  <2> QED BY <1>2, <2>1, <2>2 DEF CreateMeasurement
<1>3. ASSUME \/ ReportDuplicate(w) \/ RefreshMeasurement(w)
             \/ ListMeasurements(w) \/ LoadUnits(w)
      PROVE  MintsNone(w)
  BY <1>3 DEF ReportDuplicate, RefreshMeasurement, ListMeasurements, LoadUnits,
              MintsNone, tables
<1>4. ASSUME SelectMeasurement(w) \/ RemoveMeasurement(w) PROVE MintsNone(w)
  BY <1>4 DEF SelectMeasurement, RemoveMeasurement, DeleteMeasurement, MintsNone, tables
<1> QED
  BY <1>1, <1>2, <1>3, <1>4 DEF MeasurementStep, Minting, Tables

LEMMA CatalogMinting ==
  ASSUME RInv, NEW w \in Workers, CatalogStep(w)
  PROVE  Minting(w)
<1> USE Moved DEF RInv, IInv, Through, At
<1>1. ASSUME CreateParameter(w) PROVE MintsNone(w) \/ Mints1(w, "parameter")
  <2>1. CASE UNCHANGED tables /\ Answer(w, 409)
    BY <2>1 DEF MintsNone, tables
  <2>2. CASE InsertParameter(req[w].slug) /\ Goto(w, "refresh")
    BY <1>1, <2>2 DEF CreateParameter, InsertParameter, Mints1, Pending, Mints
  <2> QED BY <1>1, <2>1, <2>2 DEF CreateParameter
<1>2. ASSUME CreateUnit(w) PROVE MintsNone(w) \/ Mints1(w, "unit")
  <2>1. CASE UNCHANGED tables /\ Answer(w, 409)
    BY <2>1 DEF MintsNone, tables
  <2>2. CASE InsertUnit(Slugify[req[w].unit], req[w].unit) /\ Goto(w, "refresh")
    BY <1>2, <2>2 DEF CreateUnit, InsertUnit, Mints1, Pending, Mints
  <2> QED BY <1>2, <2>1, <2>2 DEF CreateUnit
<1>3. ASSUME SelectParameter(w) \/ SelectUnit(w) PROVE MintsNone(w)
  BY <1>3 DEF SelectParameter, SelectUnit, MintsNone, tables
<1>4. ASSUME UpdateCatalogRow(w) \/ RefreshCatalogRow(w) PROVE MintsNone(w)
  BY <1>4 DEF UpdateCatalogRow, RefreshCatalogRow, MintsNone, tables
<1>5. ASSUME RemoveParameter(w) \/ RemoveUnit(w) PROVE MintsNone(w)
  <2>1. UNCHANGED minted
    BY <1>5 DEF RemoveParameter, RemoveUnit, DeleteParameter, DeleteUnit, tables
  <2> QED BY <1>5, <2>1 DEF RemoveParameter, RemoveUnit, MintsNone
<1> QED
  BY <1>1, <1>2, <1>3, <1>4, <1>5 DEF CatalogStep, Minting, Tables

LEMMA WorkerMinting ==
  ASSUME RInv, NEW w \in Workers, Accept(w) \/ Handle(w)
  PROVE  Minting(w)
<1> USE Moved DEF RInv, IInv, TypeOKWorkers, Through
<1>1. ASSUME Accept(w) PROVE Accepted(w)
  BY <1>1 DEF Accept, Accepted, tables
<1>2. ASSUME FindAquarium(w) \/ FindParameter(w) \/ CheckOwned(w)
      PROVE  MintsNone(w)
  BY <1>2 DEF FindAquarium, FindParameter, CheckOwned, MintsNone, tables
<1>3. ASSUME Close(w) PROVE MintsNone(w)
  BY <1>3 DEF Close, MintsNone, tables
<1> QED
  BY <1>1, <1>2, <1>3, AquariumMinting, ThresholdMinting, MeasurementMinting,
     CatalogMinting DEF Handle, Minting

LEMMA BoundTypes ==
  ASSUME NEW bound \in Minted, NEW table \in Tables
  PROVE  bound[table] \in Nat
BY DEF Minted, Tables

\* At most one create more.
LEMMA OneMorePending ==
  ASSUME NEW S \in SUBSET Workers, NEW T \in SUBSET Workers, NEW w, T \subseteq S \cup {w}
  PROVE  /\ Cardinality(T) \in Nat /\ Cardinality(S) \in Nat
         /\ Cardinality(T) <= Cardinality(S) + 1
         /\ T \subseteq S => Cardinality(T) <= Cardinality(S)
         /\ w \in S /\ T \subseteq S \ {w} => Cardinality(T) <= Cardinality(S) - 1
<1>1. IsFiniteSet(S) /\ IsFiniteSet(T)
  BY BoundsAssumption, FS_Subset
<1>2. /\ IsFiniteSet(S \cup {w}) /\ IsFiniteSet(S \ {w})
      /\ Cardinality(S \cup {w}) <= Cardinality(S) + 1
      /\ w \in S => Cardinality(S \ {w}) = Cardinality(S) - 1
      /\ Cardinality(S) \in Nat /\ Cardinality(T) \in Nat
      /\ Cardinality(S \cup {w}) \in Nat
  <2>1. Cardinality(S) \in Nat /\ Cardinality(T) \in Nat
    BY <1>1, FS_CardinalityType
  <2>2. /\ IsFiniteSet(S \cup {w})
        /\ Cardinality(S \cup {w}) =
             IF w \in S THEN Cardinality(S) ELSE Cardinality(S) + 1
    BY <1>1, FS_AddElement
  <2>3. /\ IsFiniteSet(S \ {w})
        /\ Cardinality(S \ {w}) =
             IF w \in S THEN Cardinality(S) - 1 ELSE Cardinality(S)
    BY <1>1, FS_RemoveElement
  <2> QED BY <2>1, <2>2, <2>3
<1>3. Cardinality(T) <= Cardinality(S \cup {w})
  BY <1>2, FS_Subset
<1>4. T \subseteq S => Cardinality(T) <= Cardinality(S)
  BY <1>1, FS_Subset
<1>5. T \subseteq S \ {w} => Cardinality(T) <= Cardinality(S \ {w})
  BY <1>2, FS_Subset
<1> QED BY <1>2, <1>3, <1>4, <1>5

LEMMA FitsStays ==
  ASSUME BInv, NEW w \in Workers, Step(w), Minting(w), NEW table \in Tables
  PROVE  Fits(table)'
<1>1. minted[table] \in Nat /\ MaxRows[table] \in Nat /\ minted \in Minted
  BY BoundTypes, BoundsAssumption DEF BInv, RInv, IInv, StoreInv, TypeOKStore
<1> DEFINE S == Pending(table)
           T == Pending(table)'
<1>2. /\ S \in SUBSET Workers /\ T \in SUBSET Workers /\ T \subseteq S \cup {w}
      /\ Fits(table)
  BY DEF Pending, Step, Moves, BInv
<1>3. CASE Accepted(w)
  <2>1. CASE table \in Mints(req'[w].route)
    <3> DEFINE R == {v \in Workers : table \in Mints(req[v].route)}
    <3>1. minted[table] + Cardinality(R) < MaxRows[table]
      BY <1>3, <2>1 DEF Accepted, HasRoom
    <3>2. Cardinality(R) \in Nat /\ Cardinality(T) <= Cardinality(R) + 1
      <4>1. R \in SUBSET Workers /\ T \subseteq R \cup {w}
        BY <1>2 DEF Pending
      <4> HIDE DEF R, T
      <4> QED BY <1>2, <4>1, OneMorePending DEF T
    <3>3. Cardinality(T) \in Nat
      BY <1>2, OneMorePending
    <3> QED BY <1>1, <1>3, <3>1, <3>2, <3>3 DEF Accepted, Fits
  <2>2. CASE table \notin Mints(req'[w].route)
    <3>1. T \subseteq S
      BY <1>2, <2>2 DEF Pending
    <3> QED BY <1>1, <1>2, <1>3, <3>1, OneMorePending DEF Accepted, Fits
  <2> QED BY <2>1, <2>2
<1>4. CASE MintsNone(w)
  <2>1. T \subseteq S
    BY <1>2, <1>4 DEF Pending, MintsNone
  <2> QED BY <1>1, <1>2, <1>4, <2>1, OneMorePending DEF MintsNone, Fits
<1>5. ASSUME NEW other \in Tables, Mints1(w, other) PROVE Fits(table)'
  <2>1. T \subseteq S \ {w}
    BY <1>2, <1>5 DEF Pending, Mints1
  <2>2. CASE other = table
    <3>1. minted'[table] = minted[table] + 1 /\ w \in S
      BY <1>1, <1>5, <2>2 DEF Mints1, Minted, Tables
    <3> QED BY <1>1, <1>2, <2>1, <3>1, OneMorePending DEF Fits
  <2>3. CASE other # table
    <3>1. minted'[table] = minted[table]
      BY <1>1, <1>5, <2>3 DEF Mints1, Minted, Tables
    <3> QED BY <1>1, <1>2, <2>1, <3>1, OneMorePending DEF Fits
  <2> QED BY <2>2, <2>3
<1> QED BY <1>3, <1>4, <1>5 DEF Minting

LEMMA InitBInv == Init => BInv
<1> SUFFICES ASSUME Init PROVE BInv
  OBVIOUS
<1>1. RInv
  BY InitRInv
<1>2. ASSUME NEW table \in Tables PROVE Fits(table)
  <2>1. Pending(table) = {}
    BY DEF Init, ApiInit, Pending, Through
  <2>2. Cardinality(Pending(table)) = 0
    BY <2>1, FS_EmptySet
  <2>3. minted[table] \in Nat /\ minted[table] <= MaxRows[table]
    BY BoundsAssumption, SeedAssumption
       DEF Init, ApiInit, StoreInit, Tables, Minted, SeededKeys
  <2> QED BY <2>2, <2>3 DEF Fits
<1> QED BY <1>1, <1>2 DEF BInv, Init, ApiInit

LEMMA NextBInv == BInv /\ [Next]_vars => BInv'
<1> SUFFICES ASSUME BInv, [Next]_vars PROVE BInv'
  OBVIOUS
<1>1. RInv'
  BY NextRInv DEF BInv
<1>2. ASSUME NEW w \in Workers, Accept(w) \/ Handle(w) PROVE BInv'
  <2>1. Step(w) /\ Minting(w)
    BY <1>2, WorkerStep, WorkerMinting DEF BInv, RInv
  <2>2. \A table \in Tables : Fits(table)'
    BY <2>1, FitsStays
  <2>3. ASSUME NEW v \in Workers, pc'[v] # "idle" PROVE req'[v] \in Arrivals
    <3>1. CASE v # w
      BY <2>1, <2>3, <3>1 DEF Step, Moves, BInv
    <3>2. CASE v = w /\ Accept(w)
      BY <3>2 DEF Accept, BInv, RInv, IInv, TypeOKWorkers
    <3>3. CASE v = w /\ Handle(w)
      <4>1. Close(w) \/ (req' = req /\ pc[w] # "idle")
        BY <3>3 DEF Handle, FindAquarium, FindParameter, CheckOwned,
           AquariumStep, GetAquarium, CreateAquarium, SelectAquarium,
           UpdateAquarium, RefreshAquarium, RemoveAquarium, ThresholdStep,
           ValidateOrdering, SelectThreshold, CreateThreshold,
           ReplaceThreshold, RefreshThreshold, GetThreshold, MeasurementStep,
           FindUnit, CheckAssociation, FindCanonicalUnit, CreateMeasurement,
           ReportDuplicate, RefreshMeasurement, ListMeasurements, LoadUnits,
           SelectMeasurement, RemoveMeasurement, CatalogStep, CreateParameter, CreateUnit,
           SelectParameter, SelectUnit, UpdateCatalogRow, RefreshCatalogRow,
           RemoveParameter, RemoveUnit, At
      <4>2. CASE Close(w)
        BY <2>3, <3>3, <4>2 DEF Close, BInv, RInv, IInv, TypeOKWorkers
      <4> QED BY <3>3, <4>1, <4>2 DEF BInv
    <3> QED BY <1>2, <3>1, <3>2, <3>3
  <2> QED BY <1>1, <2>2, <2>3 DEF BInv
<1>3. CASE UNCHANGED vars
  BY <1>1, <1>3 DEF vars, BInv, Fits, Pending
<1> QED BY <1>2, <1>3 DEF Next

LEMMA BoundsInvariant == Spec => []BInv
BY InitBInv, NextBInv, PTL DEF Spec

-----------------------------------------------------------------------------
(* The refinement of Tenancy                                               *)

OwnedBy == [u \in Users |-> {a.id : a \in {b \in aquariums : b.owner = u}}]
Held == [a \in 1..MaxRows.aquarium |-> RecordsOf(a)]
Retired == 1..minted.aquarium \ IdsOf(aquariums)
Serving == {req[w].user : w \in {v \in Workers : pc[v] # "idle"}}

\* Keys numbered from 1 without a repetition leave none out.
LEMMA KeysDense ==
  ASSUME NEW table, SeededKeys(table)
  PROVE  IdsOf(table) = 1..Cardinality(table)
<1> DEFINE n == Cardinality(table)
           f == [row \in table |-> row.id]
<1>1. n \in Nat /\ f \in Injection(table, 1..n)
  BY DEF SeededKeys, Injection, IsInjective
<1>2. IsFiniteSet(1..n) /\ Cardinality(1..n) = n
  BY <1>1, FS_Interval
<1>3. f \in Surjection(table, 1..n)
  BY <1>1, <1>2, FS_Injection
<1>4. \A i \in 1..n : \E row \in table : row.id = i
  BY <1>3 DEF Surjection
<1> QED BY <1>4 DEF IdsOf, SeededKeys

LEMMA TenancyInitHolds == Init => Tenants!TenancyInit
<1> SUFFICES ASSUME Init PROVE Tenants!TenancyInit
  OBVIOUS
<1>1. /\ IdsOf(aquariums) = 1..minted.aquarium
      /\ minted.aquarium \in Nat /\ MaxRows.aquarium \in Nat
      /\ minted.aquarium <= MaxRows.aquarium
  BY KeysDense, SeedAssumption, BoundsAssumption
     DEF Init, ApiInit, StoreInit, SeededKeys, Minted
<1>2. OwnedBy \in [Users -> SUBSET (1..MaxRows.aquarium)]
  BY <1>1 DEF OwnedBy, IdsOf
<1>3. Held = [a \in 1..MaxRows.aquarium |-> {}]
  BY DEF Held, RecordsOf, Init, ApiInit, StoreInit
<1>4. Retired = {} /\ Serving = {}
  BY <1>1 DEF Retired, Serving, Init, ApiInit
<1> QED
  BY <1>2, <1>3, <1>4 DEF Tenants!TenancyInit, OwnedBy, Held, Retired, Serving

\* The steps of Tenancy, in terms of what the store maps to.
Serves ==
    /\ Serving' \subseteq Users
    /\ OwnedBy' = OwnedBy /\ Held' = Held /\ Retired' = Retired
Acquires(u, a) ==
    /\ a \notin Retired /\ \A v \in Users : a \notin OwnedBy[v]
    /\ OwnedBy' = [OwnedBy EXCEPT ![u] = @ \cup {a}]
    /\ Held' = Held /\ Retired' = Retired
Disposes(u, a) ==
    /\ a \in OwnedBy[u]
    /\ OwnedBy' = [OwnedBy EXCEPT ![u] = @ \ {a}]
    /\ Held' = [Held EXCEPT ![a] = {}]
    /\ Retired' = Retired \cup {a}
Keeps(u, a, r) ==
    /\ a \in OwnedBy[u] /\ r \notin Held[a]
    /\ Held' = [Held EXCEPT ![a] = @ \cup {r}]
    /\ OwnedBy' = OwnedBy /\ Retired' = Retired
Discards(u, a, r) ==
    /\ a \in OwnedBy[u] /\ r \in Held[a]
    /\ Held' = [Held EXCEPT ![a] = @ \ {r}]
    /\ OwnedBy' = OwnedBy /\ Retired' = Retired

LEMMA ServeStep == Serves => Tenants!TenancyNext
<1>1. Serves => Tenants!Serve
  BY DEF Serves, Tenants!Serve, OwnedBy, Held, Retired, Serving
<1> QED BY <1>1 DEF Tenants!TenancyNext

LEMMA OwnerStep ==
  ASSUME NEW u \in Serving, NEW a \in 1..MaxRows.aquarium, Serving' = Serving,
         \/ Acquires(u, a)
         \/ Disposes(u, a)
         \/ \E r \in ({"threshold"} \X (1..MaxRows.parameter))
                       \cup ({"measurement"} \X (1..MaxRows.measurement)) :
              Keeps(u, a, r)
         \/ \E r \in {"measurement"} \X (1..MaxRows.measurement) :
              Discards(u, a, r)
  PROVE  Tenants!TenancyNext
<1>1. /\ Acquires(u, a) => Tenants!Acquire(u, a)
      /\ Disposes(u, a) => Tenants!Dispose(u, a)
      /\ \A r : Keeps(u, a, r) => Tenants!Keep(u, a, r)
      /\ \A r : Discards(u, a, r) => Tenants!Discard(u, a, r)
  BY DEF Acquires, Disposes, Keeps, Discards, Tenants!Acquire, Tenants!Dispose,
     Tenants!Keep, Tenants!Discard, OwnedBy, Held, Retired
<1> QED
  BY <1>1 DEF Tenants!TenancyNext, Serving

LEMMA StaysBusy ==
  ASSUME BInv, NEW w \in Workers, Handle(w), ~Close(w)
  PROVE  /\ pc[w] # "idle" /\ pc'[w] # "idle" /\ UNCHANGED req
         /\ Serving' = Serving /\ req[w].user \in Serving
<1> USE Moved DEF BInv, RInv, IInv, At
<1>1. ASSUME FindAquarium(w) \/ FindParameter(w) \/ CheckOwned(w)
      PROVE  pc[w] # "idle" /\ pc'[w] # "idle" /\ UNCHANGED req
  BY <1>1 DEF FindAquarium, FindParameter, CheckOwned, AfterParameter
<1>2. ASSUME AquariumStep(w)
      PROVE  pc[w] # "idle" /\ pc'[w] # "idle" /\ UNCHANGED req
  BY <1>2 DEF AquariumStep, GetAquarium, CreateAquarium, SelectAquarium,
     UpdateAquarium, RefreshAquarium, RemoveAquarium
<1>3. ASSUME ThresholdStep(w)
      PROVE  pc[w] # "idle" /\ pc'[w] # "idle" /\ UNCHANGED req
  BY <1>3 DEF ThresholdStep, ValidateOrdering, SelectThreshold, CreateThreshold,
     ReplaceThreshold, RefreshThreshold, GetThreshold
<1>4. ASSUME MeasurementStep(w)
      PROVE  pc[w] # "idle" /\ pc'[w] # "idle" /\ UNCHANGED req
  BY <1>4 DEF MeasurementStep, FindUnit, CheckAssociation, FindCanonicalUnit,
     CreateMeasurement, ReportDuplicate, RefreshMeasurement, ListMeasurements,
     LoadUnits, SelectMeasurement, RemoveMeasurement
<1>5. ASSUME CatalogStep(w)
      PROVE  pc[w] # "idle" /\ pc'[w] # "idle" /\ UNCHANGED req
  BY <1>5 DEF CatalogStep, CreateParameter, CreateUnit, SelectParameter,
     SelectUnit, UpdateCatalogRow, RefreshCatalogRow, RemoveParameter, RemoveUnit
<1>6. pc[w] # "idle" /\ pc'[w] # "idle" /\ UNCHANGED req
  BY <1>1, <1>2, <1>3, <1>4, <1>5 DEF Handle
<1>7. \A v \in Workers \ {w} : pc'[v] = pc[v]
  BY WorkerStep DEF Step, Moves
<1>8. Serving' = Serving /\ req[w].user \in Serving
  BY <1>6, <1>7 DEF Serving
<1> QED BY <1>6, <1>8

LEMMA ServedAreUsers ==
  ASSUME BInv'
  PROVE  Serving' \subseteq Users
<1> SUFFICES ASSUME NEW w \in Workers, pc'[w] # "idle" PROVE req'[w].user \in Users
  BY DEF Serving
<1>1. req'[w] \in Request
  BY ArrivalsAssumption DEF BInv
<1> QED BY <1>1 DEF Request

\* No record of anybody changes.
LEMMA NothingTenantSees ==
  ASSUME BInv, BInv', UNCHANGED <<aquariums, thresholds, measurements>>,
         minted'.aquarium = minted.aquarium
  PROVE  Tenants!TenancyNext
<1>1. Serves
  BY ServedAreUsers DEF Serves, OwnedBy, Held, Retired, RecordsOf, IdsOf
<1> QED BY <1>1, ServeStep

\* Types and bounds of the keys.
KeysFit ==
    /\ minted.aquarium \in Nat /\ minted.aquarium <= MaxRows.aquarium
    /\ minted.parameter \in Nat /\ minted.parameter <= MaxRows.parameter
    /\ minted.measurement \in Nat /\ minted.measurement <= MaxRows.measurement
    /\ MaxRows.aquarium \in Nat /\ MaxRows.parameter \in Nat
    /\ MaxRows.measurement \in Nat
    /\ minted \in Minted

LEMMA KeysFitNow == BInv => KeysFit
<1> SUFFICES ASSUME BInv PROVE KeysFit
  OBVIOUS
<1>1. minted \in Minted /\ MaxRows \in Minted
  BY BoundsAssumption DEF BInv, RInv, IInv, StoreInv, TypeOKStore
<1>2. ASSUME NEW table \in Tables
      PROVE  minted[table] <= MaxRows[table]
  <2>1. Fits(table) /\ Pending(table) \subseteq Workers
    BY DEF BInv, Pending
  <2>2. Cardinality(Pending(table)) \in Nat
    BY <2>1, BoundsAssumption, FS_Subset, FS_CardinalityType
  <2>3. minted[table] \in Nat /\ MaxRows[table] \in Nat
    BY <1>1, BoundTypes
  <2> QED BY <2>1, <2>2, <2>3 DEF Fits
<1>3. /\ minted["aquarium"] <= MaxRows["aquarium"]
      /\ minted["parameter"] <= MaxRows["parameter"]
      /\ minted["measurement"] <= MaxRows["measurement"]
  BY <1>2 DEF Tables
<1> QED BY <1>1, <1>3 DEF Minted, KeysFit

LEMMA KeysFitNext == BInv' => KeysFit'
BY KeysFitNow, PTL

\* Functions whose values have the same elements.
LEMMA SameFunction ==
  ASSUME NEW D, NEW f, NEW g,
         f = [x \in D |-> f[x]], g = [x \in D |-> g[x]],
         \A x \in D : \A i : i \in f[x] <=> i \in g[x]
  PROVE  f = g
<1>1. ASSUME NEW x \in D PROVE f[x] = g[x]
  OBVIOUS
<1> QED BY <1>1

LEMMA OwnedIds ==
  ASSUME NEW u \in Users
  PROVE  /\ \A i : i \in OwnedBy[u] <=> Owned(i, u)
         /\ \A i : i \in OwnedBy'[u] <=> Owned(i, u)'
BY DEF OwnedBy, Owned

LEMMA OwnedBecomes ==
  ASSUME NEW g, g = [u \in Users |-> g[u]],
         \A u \in Users : \A i : i \in g[u] <=> Owned(i, u)'
  PROVE  OwnedBy' = g
<1>1. OwnedBy' = [u \in Users |-> OwnedBy'[u]]
  BY DEF OwnedBy
<1>2. \A u \in Users : \A i : i \in OwnedBy'[u] <=> i \in g[u]
  BY OwnedIds
<1> HIDE DEF OwnedBy
<1> QED BY <1>1, <1>2, SameFunction

LEMMA AquariumInserted ==
  ASSUME BInv, BInv', NEW u \in Serving, Serving' = Serving, u \in Users,
         NEW name, InsertAquarium(u, name)
  PROVE  Tenants!TenancyNext
<1> DEFINE a == minted.aquarium + 1
           row == [id |-> a, owner |-> u, name |-> name]
<1>1. /\ aquariums' = aquariums \cup {row} /\ row.id = a /\ row.owner = u
      /\ minted'.aquarium = a /\ minted.aquarium \in Nat
      /\ UNCHANGED <<thresholds, measurements>>
  BY KeysFitNow DEF InsertAquarium, catalog, readings, KeysFit, Minted
<1>2. \A b \in aquariums : b.id <= minted.aquarium /\ b.id \in Nat
  BY DEF BInv, RInv, IInv, StoreInv, KeysMinted, TypeOKStore, Aquarium
<1>3. a \in 1..MaxRows.aquarium
  BY <1>1, KeysFitNext DEF KeysFit
<1>4. a \notin Retired /\ \A v \in Users : a \notin OwnedBy[v]
  <2>1. a \notin IdsOf(aquariums) /\ a \notin 1..minted.aquarium
    BY <1>1, <1>2 DEF IdsOf
  <2> QED BY <2>1, OwnedIds DEF Retired, Owned, IdsOf
<1>5. OwnedBy' = [OwnedBy EXCEPT ![u] = @ \cup {a}]
  <2> DEFINE g == [OwnedBy EXCEPT ![u] = @ \cup {a}]
  <2>1. g = [v \in Users |-> g[v]] /\ g[u] = OwnedBy[u] \cup {a}
        /\ \A v \in Users : v # u => g[v] = OwnedBy[v]
    BY DEF OwnedBy
  <2> HIDE DEF g
  <2> HIDE DEF a, row
  <2>2. \A v, i : Owned(i, v)' <=> Owned(i, v) \/ (v = u /\ i = a)
    BY <1>1 DEF Owned
  <2>3. \A v \in Users : \A i : i \in g[v] <=> Owned(i, v)'
    BY <2>1, <2>2, OwnedIds
  <2>4. OwnedBy' = g
    BY <2>1, <2>3, OwnedBecomes
  <2> QED BY <2>4 DEF g
<1>6. Held' = Held
  BY <1>1 DEF Held, RecordsOf
<1>7. Retired' = Retired
  <2> HIDE DEF row
  <2>1. \A i : i \in IdsOf(aquariums)' <=> i \in IdsOf(aquariums) \/ i = a
    BY <1>1 DEF IdsOf
  <2>2. \A i : /\ i \in 1..minted'.aquarium <=> i \in 1..minted.aquarium \/ i = a
               /\ i = a => i \notin 1..minted.aquarium
    BY <1>1
  <2>3. \A i : i \in Retired' <=> i \in Retired
    BY <2>1, <2>2 DEF Retired
  <2> QED BY <2>3 DEF Retired
<1> QED BY <1>3, <1>4, <1>5, <1>6, <1>7, OwnerStep DEF Acquires

LEMMA AquariumRenamed ==
  ASSUME BInv, BInv', NEW id, NEW name, RenameAquarium(id, name)
  PROVE  Tenants!TenancyNext
<1>1. /\ \A a \in aquariums' : \E b \in aquariums : b.id = a.id /\ b.owner = a.owner
      /\ \A b \in aquariums : \E a \in aquariums' : b.id = a.id /\ b.owner = a.owner
  BY RenameUnique DEF BInv, RInv, IInv
<1>2. UNCHANGED <<thresholds, measurements, minted>>
  BY DEF RenameAquarium, readings
<1>3. OwnedBy' = OwnedBy
  <2>1. OwnedBy = [u \in Users |-> OwnedBy[u]]
    BY DEF OwnedBy
  <2>2. \A u, i : Owned(i, u)' <=> Owned(i, u)
    BY <1>1 DEF Owned
  <2> QED BY <2>1, <2>2, OwnedIds, OwnedBecomes
<1>4. Held' = Held /\ Retired' = Retired
  <2>1. IdsOf(aquariums)' = IdsOf(aquariums)
    BY <1>1 DEF IdsOf
  <2> QED BY <1>2, <2>1 DEF Held, RecordsOf, Retired
<1> QED BY <1>3, <1>4, ServedAreUsers, ServeStep DEF Serves

\* RecordsOf, element by element.
Recorded(a, r) ==
    \/ \E t \in thresholds : t.aquarium = a /\ r = <<"threshold", t.parameter>>
    \/ \E m \in measurements : m.aquarium = a /\ r = <<"measurement", m.id>>

LEMMA HeldRecords ==
  ASSUME NEW a \in 1..MaxRows.aquarium
  PROVE  /\ \A r : r \in Held[a] <=> Recorded(a, r)
         /\ \A r : r \in Held'[a] <=> Recorded(a, r)'
BY DEF Held, RecordsOf, Recorded

LEMMA HeldBecomes ==
  ASSUME NEW g, g = [a \in 1..MaxRows.aquarium |-> g[a]],
         \A a \in 1..MaxRows.aquarium : \A r : r \in g[a] <=> Recorded(a, r)'
  PROVE  Held' = g
<1>1. Held' = [a \in 1..MaxRows.aquarium |-> Held'[a]]
  BY DEF Held
<1>2. \A a \in 1..MaxRows.aquarium : \A r : r \in Held'[a] <=> r \in g[a]
  BY HeldRecords
<1> HIDE DEF Held
<1> QED BY <1>1, <1>2, SameFunction

\* One value of Held replaced.
LEMMA HeldExcept ==
  ASSUME NEW a \in 1..MaxRows.aquarium, NEW S
  PROVE  LET g == [Held EXCEPT ![a] = S]
         IN  /\ g = [b \in 1..MaxRows.aquarium |-> g[b]]
             /\ g[a] = S
             /\ \A b \in 1..MaxRows.aquarium : b # a => g[b] = Held[b]
BY DEF Held

LEMMA AquariumDeleted ==
  ASSUME BInv, BInv', NEW u \in Serving, Serving' = Serving, u \in Users,
         NEW id, AquariumIs(id, u), DeleteAquarium(id)
  PROVE  Tenants!TenancyNext
<1>1. /\ aquariums' = {a \in aquariums : a.id # id}
      /\ thresholds' = {t \in thresholds : t.aquarium # id}
      /\ measurements' = {m \in measurements : m.aquarium # id}
      /\ minted' = minted
  BY DEF DeleteAquarium
<1>2. StoreInv /\ minted.aquarium \in Nat
  BY KeysFitNow DEF BInv, RInv, IInv, KeysFit
<1>3. CASE id \notin IdsOf(aquariums)
  <2>1. UNCHANGED <<aquariums, thresholds, measurements>>
    BY <1>1, <1>2, <1>3 DEF StoreInv, ReferencesResolve, IdsOf
  <2> QED BY <1>1, <2>1, NothingTenantSees
<1>4. CASE id \in IdsOf(aquariums)
  <2>1. id \in 1..minted.aquarium /\ id \in 1..MaxRows.aquarium
    BY <1>2, <1>4, KeysFitNow DEF KeysFit, StoreInv, KeysMinted, TypeOKStore,
       Aquarium, IdsOf
  <2>2. \A a \in aquariums : a.id = id => a.owner = u
    BY DEF AquariumIs
  <2>3. OwnedBy' = [OwnedBy EXCEPT ![u] = @ \ {id}] /\ id \in OwnedBy[u]
    <3> DEFINE g == [OwnedBy EXCEPT ![u] = @ \ {id}]
    <3>1. g = [v \in Users |-> g[v]] /\ g[u] = OwnedBy[u] \ {id}
          /\ \A v \in Users : v # u => g[v] = OwnedBy[v]
      BY DEF OwnedBy
    <3> HIDE DEF g
    <3>2. \A v, i : Owned(i, v)' <=> Owned(i, v) /\ ~(v = u /\ i = id)
      BY <1>1, <2>2 DEF Owned
    <3>3. \A v \in Users : \A i : i \in g[v] <=> Owned(i, v)'
      BY <3>1, <3>2, OwnedIds
    <3>4. OwnedBy' = g
      BY <3>1, <3>3, OwnedBecomes
    <3>5. id \in OwnedBy[u]
      BY <1>4, <2>2, OwnedIds DEF IdsOf, Owned
    <3> QED BY <3>4, <3>5 DEF g
  <2>4. Held' = [Held EXCEPT ![id] = {}]
    <3> DEFINE g == [Held EXCEPT ![id] = {}]
    <3>1. /\ g = [a \in 1..MaxRows.aquarium |-> g[a]] /\ g[id] = {}
          /\ \A a \in 1..MaxRows.aquarium : a # id => g[a] = Held[a]
      BY <2>1, HeldExcept
    <3> HIDE DEF g
    <3>2. Held' = g
      <4>1. \A a, r : Recorded(a, r)' <=> Recorded(a, r) /\ a # id
        BY <1>1 DEF Recorded
      <4>2. \A a \in 1..MaxRows.aquarium : \A r : r \in g[a] <=> Recorded(a, r)'
        BY <3>1, <4>1, HeldRecords
      <4> QED BY <3>1, <4>2, HeldBecomes
    <3> QED BY <3>2 DEF g
  <2>5. Retired' = Retired \cup {id}
    BY <1>1, <2>1 DEF Retired, IdsOf
  <2> QED BY <2>1, <2>3, <2>4, <2>5, OwnerStep DEF Disposes
<1> QED BY <1>3, <1>4

\* A row of an aquarium that is there, written for its owner.
LEMMA OwnsIt ==
  ASSUME BInv, NEW u \in Users, NEW a, AquariumIs(a, u), a \in IdsOf(aquariums)
  PROVE  a \in OwnedBy[u] /\ a \in 1..MaxRows.aquarium
BY KeysFitNow, OwnedIds DEF Owned, AquariumIs, IdsOf, KeysFit, BInv, RInv, IInv, StoreInv,
   KeysMinted, TypeOKStore, Aquarium

LEMMA ThresholdInserted ==
  ASSUME BInv, BInv', NEW u \in Serving, Serving' = Serving, u \in Users,
         NEW row, AquariumIs(row.aquarium, u), InsertThreshold(row)
  PROVE  Tenants!TenancyNext
<1> DEFINE a == row.aquarium
           r == <<"threshold", row.parameter>>
<1>1. /\ thresholds' = thresholds \cup {row}
      /\ UNCHANGED <<aquariums, measurements, minted>>
      /\ a \in IdsOf(aquariums) /\ row.parameter \in IdsOf(parameters)
      /\ \A t \in thresholds : ~(t.aquarium = a /\ t.parameter = row.parameter)
  BY DEF InsertThreshold, ThresholdRefused, ThresholdExists
<1>2. a \in OwnedBy[u] /\ a \in 1..MaxRows.aquarium
  BY <1>1, OwnsIt
<1>3. row.parameter \in 1..MaxRows.parameter
  BY <1>1, KeysFitNow DEF KeysFit, IdsOf, BInv, RInv, IInv, StoreInv, KeysMinted,
     TypeOKStore, Parameter
<1>4. r \notin Held[a]
  BY <1>1, <1>2, HeldRecords DEF Recorded
<1>5. Held' = [Held EXCEPT ![a] = @ \cup {r}]
  <2> DEFINE g == [Held EXCEPT ![a] = Held[a] \cup {r}]
  <2>1. /\ g = [b \in 1..MaxRows.aquarium |-> g[b]] /\ g[a] = Held[a] \cup {r}
        /\ \A b \in 1..MaxRows.aquarium : b # a => g[b] = Held[b]
    BY <1>2, HeldExcept
  <2> HIDE DEF g
  <2>2. \A b, x : Recorded(b, x)' <=> Recorded(b, x) \/ (b = a /\ x = r)
    BY <1>1 DEF Recorded
  <2>3. \A b \in 1..MaxRows.aquarium : \A x : x \in g[b] <=> Recorded(b, x)'
    BY <2>1, <2>2, HeldRecords
  <2>4. Held' = g
    BY <2>1, <2>3, HeldBecomes
  <2> QED BY <2>4 DEF g
<1>6. OwnedBy' = OwnedBy /\ Retired' = Retired
  BY <1>1 DEF OwnedBy, Retired, IdsOf
<1>7. Keeps(u, a, r)
  BY <1>2, <1>4, <1>5, <1>6 DEF Keeps
<1> QED BY <1>2, <1>3, <1>7, OwnerStep

LEMMA ThresholdUpdated ==
  ASSUME BInv, BInv', NEW loaded, NEW new, UpdateThreshold(loaded, new), Bounds(new)
  PROVE  Tenants!TenancyNext
<1> DEFINE New(t) == IF t.aquarium = new.aquarium /\ t.parameter = new.parameter
                       THEN Overlay(t, loaded, new) ELSE t
<1>1. thresholds' = {New(t) : t \in thresholds}
  BY DEF UpdateThreshold
<1>2. \A t \in thresholds : New(t).aquarium = t.aquarium /\ New(t).parameter = t.parameter
  BY OverlayType DEF BInv, RInv, IInv, StoreInv, TypeOKStore
<1>3. UNCHANGED <<aquariums, measurements, minted>>
  BY DEF UpdateThreshold
<1> HIDE DEF New
<1>4. \A a, r : Recorded(a, r)' <=> Recorded(a, r)
  BY <1>1, <1>2, <1>3 DEF Recorded
<1>5. Held' = Held
  <2>1. Held = [a \in 1..MaxRows.aquarium |-> Held[a]]
    BY DEF Held
  <2> QED BY <1>4, <2>1, HeldRecords, HeldBecomes
<1>6. OwnedBy' = OwnedBy /\ Retired' = Retired
  BY <1>3 DEF OwnedBy, Retired, IdsOf
<1> QED BY <1>5, <1>6, ServedAreUsers, ServeStep DEF Serves

LEMMA MeasurementInserted ==
  ASSUME BInv, BInv', NEW u \in Serving, Serving' = Serving, u \in Users,
         NEW row, row.id = minted.measurement + 1, AquariumIs(row.aquarium, u),
         InsertMeasurement(row)
  PROVE  Tenants!TenancyNext
<1> DEFINE a == row.aquarium
           r == <<"measurement", row.id>>
<1>1. /\ measurements' = measurements \cup {row}
      /\ UNCHANGED <<aquariums, thresholds>>
      /\ a \in IdsOf(aquariums)
      /\ minted' = [minted EXCEPT !.measurement = @ + 1]
  BY DEF InsertMeasurement, MeasurementRefused, MeasurementOrphan
<1>2. a \in OwnedBy[u] /\ a \in 1..MaxRows.aquarium
  BY <1>1, OwnsIt
<1>3. row.id \in 1..MaxRows.measurement /\ minted'.aquarium = minted.aquarium
  BY <1>1, KeysFitNow, KeysFitNext DEF KeysFit, Minted
<1>4. \A m \in measurements : m.id # row.id
  BY KeysFitNow DEF KeysFit, BInv, RInv, IInv, StoreInv, KeysMinted, TypeOKStore,
     Measurement
<1>5. r \notin Held[a]
  BY <1>2, <1>4, HeldRecords DEF Recorded
<1>6. Held' = [Held EXCEPT ![a] = @ \cup {r}]
  <2> DEFINE g == [Held EXCEPT ![a] = Held[a] \cup {r}]
  <2>1. /\ g = [b \in 1..MaxRows.aquarium |-> g[b]] /\ g[a] = Held[a] \cup {r}
        /\ \A b \in 1..MaxRows.aquarium : b # a => g[b] = Held[b]
    BY <1>2, HeldExcept
  <2> HIDE DEF g
  <2>2. \A b, x : Recorded(b, x)' <=> Recorded(b, x) \/ (b = a /\ x = r)
    BY <1>1 DEF Recorded
  <2>3. \A b \in 1..MaxRows.aquarium : \A x : x \in g[b] <=> Recorded(b, x)'
    <3> HIDE DEF a, r
    <3> SUFFICES ASSUME NEW b \in 1..MaxRows.aquarium, NEW x
                 PROVE  x \in g[b] <=> Recorded(b, x)'
      OBVIOUS
    <3>1. x \in Held[b] <=> Recorded(b, x)
      BY HeldRecords
    <3> QED BY <2>1, <2>2, <3>1
  <2>4. Held' = g
    BY <2>1, <2>3, HeldBecomes
  <2> QED BY <2>4 DEF g
<1>7. OwnedBy' = OwnedBy /\ Retired' = Retired
  BY <1>1, <1>3 DEF OwnedBy, Retired, IdsOf
<1>8. Keeps(u, a, r)
  BY <1>2, <1>5, <1>6, <1>7 DEF Keeps
<1> QED BY <1>2, <1>3, <1>8, OwnerStep

LEMMA MeasurementDeleted ==
  ASSUME BInv, BInv', NEW u \in Serving, Serving' = Serving, u \in Users,
         NEW a, AquariumIs(a, u), NEW id, MeasurementIs(id, a), DeleteMeasurement(id)
  PROVE  Tenants!TenancyNext
<1> DEFINE r == <<"measurement", id>>
<1>1. /\ measurements' = {m \in measurements : m.id # id}
      /\ UNCHANGED <<aquariums, thresholds, minted>>
  BY DEF DeleteMeasurement
<1>2. CASE \A m \in measurements : m.id # id
  <2>1. UNCHANGED measurements
    BY <1>1, <1>2
  <2> QED BY <1>1, <2>1, NothingTenantSees
<1>3. ASSUME NEW m \in measurements, m.id = id PROVE Tenants!TenancyNext
  <2>1. m.aquarium = a /\ a \in IdsOf(aquariums)
    BY <1>3 DEF MeasurementIs, BInv, RInv, IInv, StoreInv, ReferencesResolve
  <2>2. a \in OwnedBy[u] /\ a \in 1..MaxRows.aquarium
    BY <2>1, OwnsIt
  <2>3. id \in 1..MaxRows.measurement
    BY <1>3, KeysFitNow DEF KeysFit, BInv, RInv, IInv, StoreInv, KeysMinted,
       TypeOKStore, Measurement
  <2>4. r \in Held[a]
    BY <1>3, <2>1, <2>2, HeldRecords DEF Recorded
  <2>5. Held' = [Held EXCEPT ![a] = @ \ {r}]
    <3> DEFINE g == [Held EXCEPT ![a] = Held[a] \ {r}]
    <3>1. /\ g = [b \in 1..MaxRows.aquarium |-> g[b]] /\ g[a] = Held[a] \ {r}
          /\ \A b \in 1..MaxRows.aquarium : b # a => g[b] = Held[b]
      BY <2>2, HeldExcept
    <3> HIDE DEF g
    <3>2. \A n \in measurements : n.id = id => n.aquarium = a
      BY DEF MeasurementIs
    <3>3. \A b, x : Recorded(b, x)' <=> Recorded(b, x) /\ ~(b = a /\ x = r)
      BY <1>1, <3>2 DEF Recorded
    <3>4. \A b \in 1..MaxRows.aquarium : \A x : x \in g[b] <=> Recorded(b, x)'
      BY <3>1, <3>3, HeldRecords
    <3>5. Held' = g
      BY <3>1, <3>4, HeldBecomes
    <3> QED BY <3>5 DEF g
  <2>6. OwnedBy' = OwnedBy /\ Retired' = Retired
    BY <1>1 DEF OwnedBy, Retired, IdsOf
  <2>7. Discards(u, a, r)
    BY <2>2, <2>4, <2>5, <2>6 DEF Discards
  <2> QED BY <2>2, <2>3, <2>7, OwnerStep
<1> QED BY <1>2, <1>3

-----------------------------------------------------------------------------

\* Every statement of a handler is a step of Tenancy, or none of its business.
LEMMA TenancyStep ==
  ASSUME BInv, BInv', NEW w \in Workers, Accept(w) \/ Handle(w)
  PROVE  Tenants!TenancyNext
<1>1. CASE UNCHANGED tables
  BY <1>1, NothingTenantSees DEF tables
<1> DEFINE u == req[w].user
<1>2. ASSUME ~Close(w), Handle(w)
      PROVE  u \in Serving /\ Serving' = Serving /\ u \in Users /\ Relies(w)
  <2>1. pc[w] # "idle"
    BY <1>2, StaysBusy
  <2>2. req[w] \in Request
    BY <2>1, ArrivalsAssumption DEF BInv
  <2> QED BY <1>2, <2>2, StaysBusy DEF Request, BInv, RInv
<1>3. CASE AquariumStep(w)
  <2>1. Handle(w) /\ ~Close(w)
    BY <1>3 DEF Handle, AquariumStep, GetAquarium, CreateAquarium, SelectAquarium,
       UpdateAquarium, RefreshAquarium, RemoveAquarium, At, Close
  <2>2. CASE InsertAquarium(u, req[w].name)
    BY <1>2, <2>1, <2>2, AquariumInserted
  <2>3. CASE \E id, name : RenameAquarium(id, name)
    BY <2>3, AquariumRenamed
  <2>4. CASE RemoveAquarium(w)
    <3>1. AquariumIs(loc[w].row, u) /\ DeleteAquarium(loc[w].row)
      BY <1>2, <2>1, <2>4 DEF RemoveAquarium, At, Relies, ReliesOnRow
    <3> QED BY <1>2, <2>1, <3>1, AquariumDeleted
  <2> QED
    BY <1>1, <1>3, <2>2, <2>3, <2>4 DEF AquariumStep, GetAquarium, CreateAquarium,
       SelectAquarium, UpdateAquarium, RefreshAquarium
<1>4. CASE ThresholdStep(w)
  <2>1. Handle(w) /\ ~Close(w)
    BY <1>4 DEF Handle, ThresholdStep, ValidateOrdering, SelectThreshold,
       CreateThreshold, ReplaceThreshold, RefreshThreshold, GetThreshold, At, Close
  <2>2. CASE At(w, "set_threshold", "commit") /\ InsertThreshold(Body(w))
    <3>1. AquariumIs(Body(w).aquarium, u)
      BY <2>2, PutFacts DEF Body, BInv
    <3> QED BY <1>2, <2>1, <2>2, <3>1, ThresholdInserted
  <2>3. CASE At(w, "set_threshold", "commit") /\ UpdateThreshold(loc[w].threshold, Body(w))
    <3>1. Bounds(Body(w))
      BY <2>3, RequestFields DEF Bounds, Body, At, BInv, RInv, IInv
    <3> QED BY <2>3, <3>1, ThresholdUpdated
  <2> QED
    BY <1>1, <1>4, <2>2, <2>3 DEF ThresholdStep, ValidateOrdering, SelectThreshold,
       CreateThreshold, ReplaceThreshold, RefreshThreshold, GetThreshold
<1>5. CASE MeasurementStep(w)
  <2>1. Handle(w) /\ ~Close(w)
    BY <1>5 DEF Handle, MeasurementStep, FindUnit, CheckAssociation,
       FindCanonicalUnit, CreateMeasurement, ReportDuplicate, RefreshMeasurement,
       ListMeasurements, LoadUnits, SelectMeasurement, RemoveMeasurement, At, Close
  <2>2. pc[w] = "commit" /\ req[w].route \in MeasurementRoutes
          => AquariumIs(req[w].aquarium, u)
    BY <1>2, <2>1 DEF Relies, ReliesOnAquarium, PastAquarium, ScopedRoutes
  <2>3. CASE At(w, "create_measurement", "commit") /\ InsertMeasurement(Reading(w))
    <3>1. AquariumIs(Reading(w).aquarium, u) /\ Reading(w).id = minted.measurement + 1
      BY <2>2, <2>3 DEF Reading, At, MeasurementRoutes
    <3> QED BY <1>2, <2>1, <2>3, <3>1, MeasurementInserted
  <2>4. CASE RemoveMeasurement(w)
    <3>1. /\ AquariumIs(req[w].aquarium, u)
          /\ MeasurementIs(req[w].measurement, req[w].aquarium)
          /\ DeleteMeasurement(req[w].measurement)
      BY <1>2, <2>1, <2>2, <2>4 DEF RemoveMeasurement, At, MeasurementRoutes, Relies,
         ReliesOnMeasurement
    <3> QED BY <1>2, <2>1, <3>1, MeasurementDeleted
  <2> QED
    BY <1>1, <1>5, <2>3, <2>4 DEF MeasurementStep, FindUnit, CheckAssociation,
       FindCanonicalUnit, CreateMeasurement, ReportDuplicate, RefreshMeasurement,
       ListMeasurements, LoadUnits, SelectMeasurement
<1>6. CASE CatalogStep(w)
  <2>1. CASE UNCHANGED <<aquariums, thresholds, measurements>>
             /\ minted'.aquarium = minted.aquarium
    BY <2>1, NothingTenantSees
  <2>2. CASE \/ \E slug : InsertParameter(slug)
             \/ \E id : DeleteParameter(id)
             \/ \E slug, notation : InsertUnit(slug, notation)
             \/ \E id : DeleteUnit(id)
    BY <2>1, <2>2, KeysFitNow DEF InsertParameter, DeleteParameter, InsertUnit,
       DeleteUnit, readings, KeysFit, Minted
  <2> QED
    BY <1>1, <1>6, <2>2 DEF CatalogStep, CreateParameter, CreateUnit, SelectParameter,
       SelectUnit, UpdateCatalogRow, RefreshCatalogRow, RemoveParameter, RemoveUnit
<1> QED
  BY <1>1, <1>3, <1>4, <1>5, <1>6 DEF Handle, Accept, Close, FindAquarium,
     FindParameter, CheckOwned

LEMMA TenancyNextHolds ==
  BInv /\ BInv' /\ [Next]_vars => [Tenants!TenancyNext]_(Tenants!tenancyVars)
<1> SUFFICES ASSUME BInv, BInv', [Next]_vars
             PROVE  Tenants!TenancyNext \/ UNCHANGED Tenants!tenancyVars
  OBVIOUS
<1>1. ASSUME NEW w \in Workers, Accept(w) \/ Handle(w) PROVE Tenants!TenancyNext
  BY <1>1, TenancyStep
<1>2. CASE UNCHANGED vars
  BY <1>2, NothingTenantSees DEF vars
<1> QED BY <1>1, <1>2 DEF Next

\* The backend, for any number of workers, implements what Tenancy promises: an
\* aquarium and its records change only while its owner is being served, an
\* aquarium that was deleted never comes back, and no administration of the
\* catalog costs anybody a record.
THEOREM BackendImplementsTenancy == Spec => ImplementsTenancy
BY BoundsInvariant, TenancyInitHolds, TenancyNextHolds, PTL
   DEF Spec, ImplementsTenancy, Tenants!TenancySpec
=============================================================================
