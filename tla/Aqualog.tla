------------------------------- MODULE Aqualog -------------------------------
(***************************************************************************)
(* The backend: workers serving every route over one store.                *)
(***************************************************************************)
EXTENDS AquariumApi, ThresholdApi, MeasurementApi, CatalogApi

\* One statement of the handler w is in.
Handle(w) ==
    \/ FindAquarium(w)
    \/ FindParameter(w)
    \/ CheckOwned(w)
    \/ AquariumStep(w)
    \/ ThresholdStep(w)
    \/ MeasurementStep(w)
    \/ CatalogStep(w)
    \/ Close(w)

\* Rules and catalog agree on a parameter that has units at all: a lookup by
\* the notation of its rule finds at most the unit marked canonical, and one of
\* its units occupies the slug a second unit of that notation would have.  The
\* seeds of db.py agree, and so does what the migrations leave of them.
Agree(ps, us, pus) ==
    \A p \in ps :
        /\ p.slug \in DOMAIN Rules
        /\ \E pu \in pus : pu.parameter = p.id
        => LET notation == Rules[p.slug].canonical IN
           /\ \E pu \in pus, u \in us :
                pu.parameter = p.id /\ pu.unit = u.id /\ u.slug = Slugify[notation]
           /\ \A u \in us : Lower[u.unit] = Lower[notation] =>
                \E pu \in pus : pu.parameter = p.id /\ pu.unit = u.id /\ pu.canonical

ASSUME CatalogAssumption == Agree(InitParameters, InitUnits, InitParameterUnits)

Init == ApiInit

Next == \E w \in Workers : Accept(w) \/ Handle(w)

Spec == Init /\ [][Next]_vars

\* A handler that has started runs on: it awaits nothing, holds the only thread
\* of its loop, and takes no lock that outlives a statement.  Clients need not
\* send anything.
FairSpec == Spec /\ \A w \in Workers : WF_vars(Handle(w))

-----------------------------------------------------------------------------
(* Types *)

TypeOK == TypeOKStore /\ TypeOKWorkers

-----------------------------------------------------------------------------
(* Safety *)

\* A stored measurement was taken in a unit its parameter allows.  The check
\* (is_unit_valid_for_parameter) and the INSERT are four statements apart, the
\* catalog may change in between, and no constraint relates a measurement to
\* parameter_units.
RawUnitAssociated ==
    \A m \in measurements : Associated(m.parameter, m.rawUnit)

\* A measurement is stored in the unit the catalog marks canonical for its
\* parameter, although the code finds that unit by a notation of its own.
StoredUnitCanonical ==
    \A m \in measurements : \E pu \in parameterUnits :
        pu.parameter = m.parameter /\ pu.unit = m.unit /\ pu.canonical

\* A lookup by notation finds one unit at most, although units.unit is not
\* UNIQUE, unless it finds one whose notation a migration rewrote and whose slug
\* it left: only the slug POST /units derives from a notation keeps a second unit
\* out, and it does so whoever creates units.  (get_by_unit, one_or_none.)
SlugLeft(u) == u \in InitUnits /\ u.slug # Slugify[u.unit]
NotationUnambiguous ==
    \A u, v \in units :
        Lower[u.unit] = Lower[v.unit] => u = v \/ SlugLeft(u) \/ SlugLeft(v)

\* The unit a rule names is in the catalog for good: if the catalog of the start
\* had it, then the lookup of create_measurement finds it, and nothing else, for
\* every parameter that still has units, whatever administrators delete and
\* create.  (The RuntimeError of aquarium_measurements.py:94 and the
\* MultipleResultsFound of unit_repository.py:32 are both answered 500.)
FoundOnlyIn(us, notation, u) ==
    {v \in us : Lower[v.unit] = Lower[notation]} = {u}
RuleUnitFound ==
    \A p \in parameters :
        LET notation == Rules[p.slug].canonical IN
        /\ p.slug \in DOMAIN Rules
        /\ \E pu \in parameterUnits : pu.parameter = p.id
        => \A u \in InitUnits :
             FoundOnlyIn(InitUnits, notation, u) => FoundOnlyIn(units, notation, u)

\* A stored threshold is ordered, min <= target <= max.  Each PUT is validated,
\* but the UPDATE writes the changed columns over whatever the row holds.
ThresholdOrdered == \A t \in thresholds : Ordered(t)

\* Every stored threshold value lies in the range of its parameter's rule.
ThresholdWithinRange ==
    \A t \in thresholds, p \in parameters :
        t.parameter = p.id =>
          \A v \in {t.target, t.min, t.max} : InRange(p.slug, v)

\* A request of one user changes nothing that hangs off an aquarium of another:
\* the owner is checked in an earlier statement than the one that writes.
BelongsTo(user, aquarium) == Owned(aquarium, user) \/ Owned(aquarium, user)'
Changed(old, new) == (old \ new) \cup (new \ old)
OwnerOnly(w) ==
    /\ \A a \in Changed(aquariums, aquariums') : a.owner = req[w].user
    /\ \A t \in Changed(thresholds, thresholds') :
         BelongsTo(req[w].user, t.aquarium)
    /\ \A m \in Changed(measurements, measurements') :
         BelongsTo(req[w].user, m.aquarium)
TenantIsolation == [][\A w \in Workers : pc'[w] # pc[w] => OwnerOnly(w)]_vars

\* A PUT answered 200 has replaced the threshold: exactly the submitted values
\* are stored, nulls included, although the UPDATE writes single columns.
\* (thresholds spec, line 55.)
PutReplaces ==
    [][\A w \in Workers :
         At(w, "set_threshold", "refresh") /\ ans'[w] = 200
           => StoredThresholds(w) = {Body(w)}]_vars

\* The 409 of a reading or a name means what its message says, a duplicate,
\* unless the request is a PATCH with an explicit null for name or type.  The
\* code draws that conclusion from any IntegrityError: a foreign key's and, in
\* the exception, that of a NOT NULL column are answered alike.
\* (routers/aquarium_measurements.py:113, aquariums.py:46.)
OtherHasName(r) ==
    \E a \in aquariums : a.owner = r.user /\ a.name = r.name /\ a.id # r.aquarium
ConflictIsDuplicate ==
    [][\A w \in Workers :
         pc[w] \in {"commit", "refused"} /\ ans'[w] = 409 =>
           LET r == req[w] IN
           CASE r.route = "create_measurement" ->
                  ReadingTaken(r.aquarium, loc[w].parameter, r.at)
             [] r.route = "create_aquarium" -> NameTaken(r.user, r.name)
             [] r.route = "update_aquarium" -> NullsColumn(r) \/ OtherHasName(r)
             [] OTHER -> TRUE]_vars

-----------------------------------------------------------------------------
(* What a document, a comment or a message says, and the code does not     *)
(* keep: the subject of runs that TLC finds violated.                      *)

\* A plausible value in the canonical unit of a parameter that is in the catalog
\* and has a rule is not turned away.  (measurements spec, lines 27-29 and 878.)
CanonicalUnitAccepted ==
    \A w \in Workers :
        LET r == req[w] IN
        /\ r.route = "create_measurement" /\ ans[w] \in {422, 500}
        /\ r.slug \in DOMAIN Rules /\ SlugTaken(r.slug)
        => ~(r.plausible /\ r.unit = Lower[Rules[r.slug].canonical])

-----------------------------------------------------------------------------
(* Liveness *)

\* Every request that reaches a handler is answered and its session closed.
Answered == \A w \in Workers : (pc[w] # "idle") ~> (pc[w] = "idle")

-----------------------------------------------------------------------------
(* What the service promises a tenant *)

RecordsOf(a) ==
    {<<"threshold", t.parameter>> : t \in {s \in thresholds : s.aquarium = a}}
      \cup {<<"measurement", m.id>> :
              m \in {n \in measurements : n.aquarium = a}}

Tenants == INSTANCE Tenancy WITH
    Aquariums <- 1..MaxRows.aquarium,
    Thresholds <- {"threshold"} \X (1..MaxRows.parameter),
    Measurements <- {"measurement"} \X (1..MaxRows.measurement),
    owned <- [u \in Users |-> {a.id : a \in {b \in aquariums : b.owner = u}}],
    records <- [a \in 1..MaxRows.aquarium |-> RecordsOf(a)],
    retired <- 1..minted.aquarium \ IdsOf(aquariums),
    serving <- {req[w].user : w \in {v \in Workers : pc[v] # "idle"}}

ImplementsTenancy == Tenants!TenancySpec
=============================================================================
