---------------------------- MODULE AqualogProofs -----------------------------
(***************************************************************************)
(* Safety of the backend for any number of workers, any catalog, any set   *)
(* of requests and any bound on the keys.                                  *)
(*                                                                         *)
(* The first half is about the store: every statement preserves the types  *)
(* of the tables, the foreign keys and the freshness of keys, whoever      *)
(* executes it and whenever.  The second half has one lemma per handler.   *)
(*                                                                         *)
(* The inductive invariant IInv adds to types, foreign keys and freshness  *)
(* of keys what a handler may still rely on between its association check  *)
(* and its INSERT: the parameter it found has either gone for good, and    *)
(* the INSERT will be refused, or is still associated with the unit.       *)
(***************************************************************************)
EXTENDS Aqualog, TLAPS

StoreInv == TypeOKStore /\ ReferencesResolve /\ KeysMinted

LEMMA StoreInitInv == StoreInit => StoreInv
<1> SUFFICES ASSUME StoreInit PROVE StoreInv
  OBVIOUS
<1>1. TypeOKStore
  BY SeedAssumption DEF StoreInit, TypeOKStore, SeededKeys, Minted
<1>2. ReferencesResolve
  BY SeedAssumption DEF StoreInit, ReferencesResolve
<1>3. KeysMinted
  BY SeedAssumption DEF StoreInit, KeysMinted, SeededKeys
<1> QED
  BY <1>1, <1>2, <1>3 DEF StoreInv

\* A statement that touches no table preserves everything.
LEMMA StoreStutterInv ==
  ASSUME StoreInv, UNCHANGED tables
  PROVE  StoreInv'
BY DEF StoreInv, TypeOKStore, ReferencesResolve, KeysMinted, IdsOf, tables

LEMMA InsertAquariumInv ==
  ASSUME StoreInv, NEW owner \in Users, NEW name \in Names,
         InsertAquarium(owner, name)
  PROVE  StoreInv'
<1>1. TypeOKStore'
  BY DEF StoreInv, TypeOKStore, InsertAquarium, Aquarium, Minted, catalog, readings
<1>2. ReferencesResolve'
  BY DEF StoreInv, ReferencesResolve, InsertAquarium, IdsOf, catalog, readings
<1>3. KeysMinted'
  BY DEF StoreInv, TypeOKStore, KeysMinted, InsertAquarium, Aquarium, Minted,
         catalog, readings
<1> QED
  BY <1>1, <1>2, <1>3 DEF StoreInv

LEMMA RenameAquariumInv ==
  ASSUME StoreInv, NEW id, NEW name \in Names, RenameAquarium(id, name)
  PROVE  StoreInv'
<1>1. TypeOKStore'
  BY DEF StoreInv, TypeOKStore, RenameAquarium, Aquarium, catalog, readings
<1>2. IdsOf(aquariums') = IdsOf(aquariums)
  <2> DEFINE Renamed(a) == IF a.id = id THEN [a EXCEPT !.name = name] ELSE a
  <2>1. \A a \in aquariums : Renamed(a).id = a.id
    BY DEF StoreInv, TypeOKStore, Aquarium
  <2>2. aquariums' = {Renamed(a) : a \in aquariums}
    BY DEF RenameAquarium
  <2> HIDE DEF Renamed
  <2> QED
    BY <2>1, <2>2 DEF IdsOf
<1>3. ReferencesResolve'
  BY <1>2 DEF StoreInv, ReferencesResolve, RenameAquarium, catalog, readings
<1>4. KeysMinted'
  BY DEF StoreInv, TypeOKStore, KeysMinted, RenameAquarium, Aquarium, catalog,
         readings
<1> QED
  BY <1>1, <1>3, <1>4 DEF StoreInv

\* The cascade: a threshold or a measurement of the aquarium goes with it.
LEMMA DeleteAquariumInv ==
  ASSUME StoreInv, NEW id, DeleteAquarium(id)
  PROVE  StoreInv'
<1>1. TypeOKStore'
  BY DEF StoreInv, TypeOKStore, DeleteAquarium, catalog
<1>2. ReferencesResolve'
  BY DEF StoreInv, ReferencesResolve, DeleteAquarium, IdsOf, catalog
<1>3. KeysMinted'
  BY DEF StoreInv, KeysMinted, DeleteAquarium, catalog
<1> QED
  BY <1>1, <1>2, <1>3 DEF StoreInv

\* What a body may set the bounds of a threshold to.
Bounds(row) ==
    {row.target, row.min, row.max} \subseteq Optional(Values)

LEMMA InsertThresholdInv ==
  ASSUME StoreInv, NEW row, InsertThreshold(row),
         Bounds(row),
         row = [aquarium |-> row.aquarium, parameter |-> row.parameter,
                target |-> row.target, min |-> row.min, max |-> row.max]
  PROVE  StoreInv'
<1>1. row.aquarium \in IdsOf(aquariums) /\ row.parameter \in IdsOf(parameters)
  BY DEF InsertThreshold, ThresholdRefused
<1>2. row \in Threshold
  BY <1>1 DEF StoreInv, TypeOKStore, Threshold, Aquarium, Parameter, IdsOf, Bounds
<1>3. TypeOKStore'
  BY <1>2 DEF StoreInv, TypeOKStore, InsertThreshold, catalog
<1>4. ReferencesResolve'
  BY <1>1 DEF StoreInv, ReferencesResolve, InsertThreshold, IdsOf, catalog
<1>5. KeysMinted'
  BY DEF StoreInv, KeysMinted, InsertThreshold, catalog
<1> QED
  BY <1>3, <1>4, <1>5 DEF StoreInv

LEMMA OverlayType ==
  ASSUME NEW row \in Threshold, NEW loaded, NEW new,
         Bounds(new)
  PROVE  /\ Overlay(row, loaded, new) \in Threshold
         /\ Overlay(row, loaded, new).aquarium = row.aquarium
         /\ Overlay(row, loaded, new).parameter = row.parameter
BY DEF Overlay, Threshold, Bounds

LEMMA UpdateThresholdInv ==
  ASSUME StoreInv, NEW loaded, NEW new, UpdateThreshold(loaded, new),
         Bounds(new)
  PROVE  StoreInv'
<1>1. \A t \in thresholds : t \in Threshold
  BY DEF StoreInv, TypeOKStore
<1>2. \A s \in thresholds' :
        s \in Threshold /\ \E t \in thresholds : s.aquarium = t.aquarium
                                              /\ s.parameter = t.parameter
  BY <1>1, OverlayType DEF UpdateThreshold
<1>3. TypeOKStore'
  BY <1>2 DEF StoreInv, TypeOKStore, UpdateThreshold, catalog
<1>4. ReferencesResolve'
  BY <1>2 DEF StoreInv, ReferencesResolve, UpdateThreshold, IdsOf, catalog
<1>5. KeysMinted'
  BY DEF StoreInv, KeysMinted, UpdateThreshold, catalog
<1> QED
  BY <1>3, <1>4, <1>5 DEF StoreInv

LEMMA InsertMeasurementInv ==
  ASSUME StoreInv, NEW row, InsertMeasurement(row), row.at \in Instants,
         row.finite \in BOOLEAN,
         row = [id |-> minted.measurement + 1, aquarium |-> row.aquarium,
                parameter |-> row.parameter, at |-> row.at, unit |-> row.unit,
                rawUnit |-> row.rawUnit, finite |-> row.finite]
  PROVE  StoreInv'
<1>1. /\ row.aquarium \in IdsOf(aquariums) /\ row.parameter \in IdsOf(parameters)
      /\ row.unit \in IdsOf(units) /\ row.rawUnit \in IdsOf(units)
  BY DEF InsertMeasurement, MeasurementRefused, MeasurementOrphan
<1>2. minted.measurement \in Nat
  BY DEF StoreInv, TypeOKStore, Minted
<1>3. row \in Measurement /\ row.id = minted.measurement + 1
  BY <1>1, <1>2 DEF StoreInv, TypeOKStore, Measurement, Aquarium, Parameter,
                    Unit, IdsOf
<1>4. TypeOKStore'
  BY <1>3 DEF StoreInv, TypeOKStore, InsertMeasurement, Minted, catalog
<1>5. ReferencesResolve'
  BY <1>1 DEF StoreInv, ReferencesResolve, InsertMeasurement, IdsOf, catalog
<1>6. KeysMinted'
  BY <1>3 DEF StoreInv, TypeOKStore, KeysMinted, InsertMeasurement, Minted,
              Measurement, catalog
<1> QED
  BY <1>4, <1>5, <1>6 DEF StoreInv

LEMMA DeleteMeasurementInv ==
  ASSUME StoreInv, NEW id, DeleteMeasurement(id)
  PROVE  StoreInv'
BY DEF StoreInv, TypeOKStore, ReferencesResolve, KeysMinted, DeleteMeasurement,
       IdsOf, catalog

LEMMA InsertParameterInv ==
  ASSUME StoreInv, NEW slug \in Slugs, InsertParameter(slug)
  PROVE  StoreInv'
<1>1. TypeOKStore'
  BY DEF StoreInv, TypeOKStore, InsertParameter, Parameter, Minted, readings
<1>2. ReferencesResolve'
  BY DEF StoreInv, ReferencesResolve, InsertParameter, IdsOf, readings
<1>3. KeysMinted'
  BY DEF StoreInv, TypeOKStore, KeysMinted, InsertParameter, Parameter, Minted,
         readings
<1> QED
  BY <1>1, <1>2, <1>3 DEF StoreInv

\* The restriction keeps thresholds and measurements, the cascade takes the
\* associations.
LEMMA DeleteParameterInv ==
  ASSUME StoreInv, NEW id, DeleteParameter(id)
  PROVE  StoreInv'
<1>1. TypeOKStore'
  BY DEF StoreInv, TypeOKStore, DeleteParameter, readings
<1>2. ReferencesResolve'
  BY DEF StoreInv, ReferencesResolve, DeleteParameter, ParameterInUse, IdsOf,
         readings
<1>3. KeysMinted'
  BY DEF StoreInv, KeysMinted, DeleteParameter, readings
<1> QED
  BY <1>1, <1>2, <1>3 DEF StoreInv

LEMMA InsertUnitInv ==
  ASSUME StoreInv, NEW slug \in UnitSlugs, NEW notation \in Notations,
         InsertUnit(slug, notation)
  PROVE  StoreInv'
<1>1. TypeOKStore'
  BY DEF StoreInv, TypeOKStore, InsertUnit, Unit, Minted, readings
<1>2. ReferencesResolve'
  BY DEF StoreInv, ReferencesResolve, InsertUnit, IdsOf, readings
<1>3. KeysMinted'
  BY DEF StoreInv, TypeOKStore, KeysMinted, InsertUnit, Unit, Minted, readings
<1> QED
  BY <1>1, <1>2, <1>3 DEF StoreInv

LEMMA DeleteUnitInv ==
  ASSUME StoreInv, NEW id, DeleteUnit(id)
  PROVE  StoreInv'
<1>1. TypeOKStore'
  BY DEF StoreInv, TypeOKStore, DeleteUnit, readings
<1>2. ReferencesResolve'
  BY DEF StoreInv, ReferencesResolve, DeleteUnit, UnitInUse, IdsOf, readings
<1>3. KeysMinted'
  BY DEF StoreInv, KeysMinted, DeleteUnit, readings
<1> QED
  BY <1>1, <1>2, <1>3 DEF StoreInv

-----------------------------------------------------------------------------
(* Any statement, by whichever handler.                                    *)

Statement ==
    \/ UNCHANGED tables
    \/ \E owner \in Users, name \in Names : InsertAquarium(owner, name)
    \/ \E id \in Nat, name \in Names : RenameAquarium(id, name)
    \/ \E id \in Nat : DeleteAquarium(id)
    \/ \E a, p, x, y, z :
         LET row == [aquarium |-> a, parameter |-> p, target |-> x, min |-> y,
                     max |-> z]
         IN InsertThreshold(row) /\ Bounds(row)
    \/ \E loaded, new : UpdateThreshold(loaded, new) /\ Bounds(new)
    \/ \E a, p, at, u, raw, f :
         LET row == [id |-> minted.measurement + 1, aquarium |-> a,
                     parameter |-> p, at |-> at, unit |-> u, rawUnit |-> raw,
                     finite |-> f]
         IN InsertMeasurement(row) /\ at \in Instants /\ f \in BOOLEAN
    \/ \E id \in Nat : DeleteMeasurement(id)
    \/ \E slug \in Slugs : InsertParameter(slug)
    \/ \E id \in Nat : DeleteParameter(id)
    \/ \E slug \in UnitSlugs, notation \in Notations : InsertUnit(slug, notation)
    \/ \E id \in Nat : DeleteUnit(id)

LEMMA StatementInv ==
  ASSUME StoreInv, Statement
  PROVE  StoreInv'
<1>1. CASE UNCHANGED tables
  BY <1>1, StoreStutterInv
<1>2. CASE \E owner \in Users, name \in Names : InsertAquarium(owner, name)
  BY <1>2, InsertAquariumInv
<1>3. CASE \E id \in Nat, name \in Names : RenameAquarium(id, name)
  BY <1>3, RenameAquariumInv
<1>4. CASE \E id \in Nat : DeleteAquarium(id)
  BY <1>4, DeleteAquariumInv
<1>5. CASE \E a, p, x, y, z :
             LET row == [aquarium |-> a, parameter |-> p, target |-> x,
                         min |-> y, max |-> z]
             IN InsertThreshold(row) /\ Bounds(row)
  BY <1>5, InsertThresholdInv
<1>6. CASE \E loaded, new : UpdateThreshold(loaded, new) /\ Bounds(new)
  BY <1>6, UpdateThresholdInv
<1>7. CASE \E a, p, at, u, raw, f :
             LET row == [id |-> minted.measurement + 1, aquarium |-> a,
                         parameter |-> p, at |-> at, unit |-> u, rawUnit |-> raw,
                         finite |-> f]
             IN InsertMeasurement(row) /\ at \in Instants /\ f \in BOOLEAN
  BY <1>7, InsertMeasurementInv
<1>8. CASE \E id \in Nat : DeleteMeasurement(id)
  BY <1>8, DeleteMeasurementInv
<1>9. CASE \E slug \in Slugs : InsertParameter(slug)
  BY <1>9, InsertParameterInv
<1>10. CASE \E id \in Nat : DeleteParameter(id)
  BY <1>10, DeleteParameterInv
<1>11. CASE \E slug \in UnitSlugs, notation \in Notations :
              InsertUnit(slug, notation)
  BY <1>11, InsertUnitInv
<1>12. CASE \E id \in Nat : DeleteUnit(id)
  BY <1>12, DeleteUnitInv
<1> QED
  BY <1>1, <1>2, <1>3, <1>4, <1>5, <1>6, <1>7, <1>8, <1>9, <1>10, <1>11, <1>12
     DEF Statement

\* Keys are only ever added to those minted.
LEMMA StatementMints ==
  ASSUME StoreInv, Statement
  PROVE  /\ minted'.parameter >= minted.parameter
         /\ minted'.unit >= minted.unit
         /\ minted'.aquarium >= minted.aquarium
<1>1. CASE UNCHANGED minted
  BY <1>1 DEF StoreInv, TypeOKStore, Minted
<1>2. CASE \E owner \in Users, name \in Names : InsertAquarium(owner, name)
  BY <1>2 DEF StoreInv, TypeOKStore, Minted, InsertAquarium
<1>3. CASE \E row : InsertMeasurement(row)
  BY <1>3 DEF StoreInv, TypeOKStore, Minted, InsertMeasurement
<1>4. CASE \E slug \in Slugs : InsertParameter(slug)
  BY <1>4 DEF StoreInv, TypeOKStore, Minted, InsertParameter
<1>5. CASE \E slug \in UnitSlugs, notation \in Notations :
             InsertUnit(slug, notation)
  BY <1>5 DEF StoreInv, TypeOKStore, Minted, InsertUnit
<1> QED
  BY <1>1, <1>2, <1>3, <1>4, <1>5 DEF Statement, tables, RenameAquarium,
     DeleteAquarium, InsertThreshold, UpdateThreshold, DeleteMeasurement,
     DeleteParameter, DeleteUnit

\* A parameter that has gone stays gone, and until it goes its associations
\* stay: no statement takes an association from a parameter that is there.
LEMMA StatementAssociations ==
  ASSUME StoreInv, Statement, NEW p \in 0..minted.parameter, NEW u,
         p \in IdsOf(parameters)'
  PROVE  /\ p \in IdsOf(parameters)
         /\ Associated(p, u) => Associated(p, u)'
<1>1. CASE \E slug \in Slugs : InsertParameter(slug)
  BY <1>1 DEF StoreInv, TypeOKStore, Minted, InsertParameter, IdsOf, Associated
<1>2. CASE \E id \in Nat : DeleteParameter(id)
  BY <1>2 DEF DeleteParameter, IdsOf, Associated
<1>3. CASE UNCHANGED <<parameters, parameterUnits>>
  BY <1>3 DEF IdsOf, Associated
<1> QED
  BY <1>1, <1>2, <1>3 DEF Statement, tables, catalog, readings, InsertAquarium,
     RenameAquarium, DeleteAquarium, InsertThreshold, UpdateThreshold,
     InsertMeasurement, DeleteMeasurement, InsertUnit, DeleteUnit

-----------------------------------------------------------------------------
(* Keys: no two rows share one, and a row keeps what identifies it.        *)

\* The primary keys, the unique slugs and the unique pair of a threshold.
KeysUnique ==
    /\ \A a, b \in aquariums : a.id = b.id => a = b
    /\ \A p, q \in parameters : p.id = q.id \/ p.slug = q.slug => p = q
    /\ \A u, v \in units : u.id = v.id \/ u.slug = v.slug => u = v
    /\ \A m, n \in measurements : m.id = n.id => m = n
    /\ \A s, t \in thresholds :
         s.aquarium = t.aquarium /\ s.parameter = t.parameter => s = t

LEMMA StoreInitUnique == StoreInit => KeysUnique
BY SeedAssumption DEF StoreInit, SeededKeys, KeysUnique

LEMMA RenameUnique ==
  ASSUME StoreInv, KeysUnique, NEW id, NEW name, RenameAquarium(id, name)
  PROVE  /\ KeysUnique'
         /\ \A a \in aquariums' : \E b \in aquariums :
              b.id = a.id /\ b.owner = a.owner
         /\ \A b \in aquariums : \E a \in aquariums' :
              b.id = a.id /\ b.owner = a.owner
<1> DEFINE New(a) == IF a.id = id THEN [a EXCEPT !.name = name] ELSE a
<1>1. \A a \in aquariums : New(a).id = a.id /\ New(a).owner = a.owner
  BY DEF StoreInv, TypeOKStore, Aquarium
<1>2. aquariums' = {New(a) : a \in aquariums}
  BY DEF RenameAquarium
<1> HIDE DEF New
<1>3. \A a, b \in aquariums' : a.id = b.id => a = b
  BY <1>1, <1>2 DEF KeysUnique
<1>4. UNCHANGED <<parameters, units, measurements, thresholds>>
  BY DEF RenameAquarium, catalog, readings
<1> QED
  BY <1>1, <1>2, <1>3, <1>4 DEF KeysUnique

LEMMA UpdateUnique ==
  ASSUME StoreInv, KeysUnique, NEW loaded, NEW new, UpdateThreshold(loaded, new),
         Bounds(new)
  PROVE  KeysUnique'
<1> DEFINE New(t) == IF t.aquarium = new.aquarium /\ t.parameter = new.parameter
                       THEN Overlay(t, loaded, new) ELSE t
<1>1. \A t \in thresholds : /\ New(t).aquarium = t.aquarium
                            /\ New(t).parameter = t.parameter
  BY OverlayType DEF StoreInv, TypeOKStore
<1>2. thresholds' = {New(t) : t \in thresholds}
  BY DEF UpdateThreshold
<1> HIDE DEF New
<1>3. \A s, t \in thresholds' :
        s.aquarium = t.aquarium /\ s.parameter = t.parameter => s = t
  BY <1>1, <1>2 DEF KeysUnique
<1>4. UNCHANGED <<aquariums, parameters, units, measurements>>
  BY DEF UpdateThreshold, catalog
<1> QED
  BY <1>3, <1>4 DEF KeysUnique

\* The kinds of statement, with what matters of the rows they insert.
LEMMA StatementKinds ==
  ASSUME Statement
  PROVE  \/ UNCHANGED tables
         \/ \E owner, name : InsertAquarium(owner, name)
         \/ \E id, name : RenameAquarium(id, name)
         \/ \E id : DeleteAquarium(id)
         \/ \E row : InsertThreshold(row)
         \/ \E loaded, new : UpdateThreshold(loaded, new) /\ Bounds(new)
         \/ \E row : InsertMeasurement(row) /\ row.id = minted.measurement + 1
         \/ \E id : DeleteMeasurement(id)
         \/ \E slug : InsertParameter(slug)
         \/ \E id : DeleteParameter(id)
         \/ \E slug, notation : InsertUnit(slug, notation)
         \/ \E id : DeleteUnit(id)
<1>1. ASSUME \E a, p, at, u, raw, f :
         LET row == [id |-> minted.measurement + 1, aquarium |-> a,
                     parameter |-> p, at |-> at, unit |-> u, rawUnit |-> raw,
                     finite |-> f]
         IN InsertMeasurement(row) /\ at \in Instants /\ f \in BOOLEAN
      PROVE \E row : InsertMeasurement(row) /\ row.id = minted.measurement + 1
  <2> PICK a, p, at, u, raw, f :
         InsertMeasurement([id |-> minted.measurement + 1, aquarium |-> a,
                     parameter |-> p, at |-> at, unit |-> u, rawUnit |-> raw,
                     finite |-> f])
    BY <1>1
  <2> DEFINE row == [id |-> minted.measurement + 1, aquarium |-> a,
                     parameter |-> p, at |-> at, unit |-> u, rawUnit |-> raw,
                     finite |-> f]
  <2>1. row.id = minted.measurement + 1 /\ InsertMeasurement(row)
    OBVIOUS
  <2> QED BY <2>1
<1> QED
  BY <1>1 DEF Statement

LEMMA StatementUnique ==
  ASSUME StoreInv, KeysUnique, Statement
  PROVE  KeysUnique'
<1> USE DEF StoreInv, TypeOKStore, KeysMinted, Minted, tables, catalog, readings
<1>1. CASE UNCHANGED tables
  BY <1>1 DEF KeysUnique
<1>2. CASE \E owner, name : InsertAquarium(owner, name)
  BY <1>2 DEF KeysUnique, InsertAquarium, Aquarium
<1>3. CASE \E id, name : RenameAquarium(id, name)
  BY <1>3, RenameUnique
<1>4. CASE \E id : DeleteAquarium(id)
  BY <1>4 DEF KeysUnique, DeleteAquarium
<1>5. CASE \E row : InsertThreshold(row)
  BY <1>5 DEF KeysUnique, InsertThreshold, ThresholdRefused, ThresholdExists
<1>6. CASE \E loaded, new : UpdateThreshold(loaded, new) /\ Bounds(new)
  BY <1>6, UpdateUnique
<1>7. CASE \E row : InsertMeasurement(row) /\ row.id = minted.measurement + 1
  BY <1>7 DEF KeysUnique, InsertMeasurement, Measurement
<1>8. CASE \E id : DeleteMeasurement(id)
  BY <1>8 DEF KeysUnique, DeleteMeasurement
<1>9. CASE \E slug : InsertParameter(slug)
  BY <1>9 DEF KeysUnique, InsertParameter, SlugTaken, Parameter
<1>10. CASE \E id : DeleteParameter(id)
  BY <1>10 DEF KeysUnique, DeleteParameter
<1>11. CASE \E slug, notation : InsertUnit(slug, notation)
  BY <1>11 DEF KeysUnique, InsertUnit, UnitSlugTaken, Unit
<1>12. CASE \E id : DeleteUnit(id)
  BY <1>12 DEF KeysUnique, DeleteUnit
<1> QED
  BY <1>1, <1>2, <1>3, <1>4, <1>5, <1>6, <1>7, <1>8, <1>9, <1>10, <1>11, <1>12,
     StatementKinds

\* A key that has been minted is that of the row it was, or of none: whoever
\* has seen a row may rely on what no statement changes of it.
LEMMA StatementKeeps ==
  ASSUME StoreInv, KeysUnique, Statement
  PROVE  /\ \A a \in aquariums' : a.id <= minted.aquarium =>
              \E b \in aquariums : b.id = a.id /\ b.owner = a.owner
         /\ \A p \in parameters' : p.id <= minted.parameter => p \in parameters
         /\ \A u \in units' : u.id <= minted.unit => u \in units
         /\ \A m \in measurements' :
              m.id <= minted.measurement => m \in measurements
         /\ minted'.measurement >= minted.measurement
<1> USE DEF StoreInv, TypeOKStore, Minted, tables, catalog, readings
<1>1. CASE UNCHANGED tables
  BY <1>1
<1>2. CASE \E owner, name : InsertAquarium(owner, name)
  BY <1>2 DEF InsertAquarium
<1>3. CASE \E id, name : RenameAquarium(id, name)
  <2>1. \A a \in aquariums' : \E b \in aquariums :
          b.id = a.id /\ b.owner = a.owner
    BY <1>3, RenameUnique
  <2>2. UNCHANGED <<parameters, units, measurements, minted>>
    BY <1>3 DEF RenameAquarium
  <2> QED
    BY <2>1, <2>2
<1>4. CASE \E id : DeleteAquarium(id)
  BY <1>4 DEF DeleteAquarium
<1>5. CASE \E row : InsertThreshold(row)
  BY <1>5 DEF InsertThreshold
<1>6. CASE \E loaded, new : UpdateThreshold(loaded, new) /\ Bounds(new)
  BY <1>6 DEF UpdateThreshold
<1>7. CASE \E row : InsertMeasurement(row) /\ row.id = minted.measurement + 1
  BY <1>7 DEF InsertMeasurement
<1>8. CASE \E id : DeleteMeasurement(id)
  BY <1>8 DEF DeleteMeasurement
<1>9. CASE \E slug : InsertParameter(slug)
  BY <1>9 DEF InsertParameter
<1>10. CASE \E id : DeleteParameter(id)
  BY <1>10 DEF DeleteParameter
<1>11. CASE \E slug, notation : InsertUnit(slug, notation)
  BY <1>11 DEF InsertUnit
<1>12. CASE \E id : DeleteUnit(id)
  BY <1>12 DEF DeleteUnit
<1> QED
  BY <1>1, <1>2, <1>3, <1>4, <1>5, <1>6, <1>7, <1>8, <1>9, <1>10, <1>11, <1>12,
     StatementKinds

\* A parameter's associations are neither added to nor taken from while it is
\* there, and a unit in one of them stays.
LEMMA StatementKeepsAssociations ==
  ASSUME StoreInv, Statement, NEW pu \in ParameterUnit,
         pu.parameter \in 0..minted.parameter,
         pu.parameter \in IdsOf(parameters)'
  PROVE  pu \in parameterUnits' <=> pu \in parameterUnits
<1>1. CASE \E id : DeleteParameter(id)
  BY <1>1 DEF DeleteParameter, IdsOf
<1>2. CASE UNCHANGED parameterUnits
  BY <1>2
<1> QED
  BY <1>1, <1>2 DEF Statement, tables, catalog, readings, InsertAquarium,
     RenameAquarium, DeleteAquarium, InsertThreshold, UpdateThreshold,
     InsertMeasurement, DeleteMeasurement, InsertParameter, InsertUnit, DeleteUnit

-----------------------------------------------------------------------------
(* Workers: what a handler relies on, and the inductive invariant.         *)

\* Past the association check, up to and including the INSERT.
Validated(w) ==
    /\ req[w].route = "create_measurement"
    /\ pc[w] \in {"canonical", "owned", "commit"}

ValidatedAssociated ==
    \A w \in Workers :
        Validated(w) /\ loc[w].parameter \in IdsOf(parameters)
          => Associated(loc[w].parameter, loc[w].unit)

IInv ==
    /\ StoreInv
    /\ TypeOKWorkers
    /\ RawUnitAssociated
    /\ ValidatedAssociated

\* What a worker may do to its own slots, and to nobody else's.
Moves(w) ==
    /\ pc' \in [Workers -> Labels]
    /\ req' \in [Workers -> Arrivals \cup {NoRequest}]
    /\ loc' \in [Workers -> Locals]
    /\ ans' \in [Workers -> Statuses \cup {0}]
    /\ \A v \in Workers \ {w} :
         pc'[v] = pc[v] /\ req'[v] = req[v] /\ loc'[v] = loc[v] /\ ans'[v] = ans[v]
    /\ ans'[w] = 0 <=> pc'[w] # "answered"
    /\ loc'[w].parameter \in 0..minted.parameter
    /\ loc'[w].unit \in 0..minted.unit
    /\ loc'[w].canonical \in 0..minted.unit

\* A worker enters the validated region by a check, or was in it already.
StaysValidated(w) ==
    Validated(w)' =>
        \/ /\ Validated(w)
           /\ loc'[w].parameter = loc[w].parameter /\ loc'[w].unit = loc[w].unit
        \/ Associated(loc'[w].parameter, loc'[w].unit)

\* A row that is new to measurements was validated.
InsertsValidated ==
    \A m \in measurements' \ measurements :
        m.parameter \in IdsOf(parameters) /\ Associated(m.parameter, m.rawUnit)

Step(w) ==
    /\ Statement
    /\ Moves(w)
    /\ StaysValidated(w)
    /\ InsertsValidated

-----------------------------------------------------------------------------
(* The initial states *)

LEMMA InitInv == Init => IInv
<1> SUFFICES ASSUME Init PROVE IInv
  OBVIOUS
<1>1. StoreInv
  BY StoreInitInv DEF Init, ApiInit
<1>2. minted \in Minted
  BY <1>1 DEF StoreInv, TypeOKStore
<1>3. TypeOKWorkers
  BY <1>2 DEF Init, ApiInit, TypeOKWorkers, Labels, Statuses, Locals, NoLocals,
              Minted, Optional
<1>4. RawUnitAssociated
  BY DEF Init, ApiInit, StoreInit, RawUnitAssociated
<1>5. ValidatedAssociated
  BY DEF Init, ApiInit, ValidatedAssociated, Validated
<1> QED
  BY <1>1, <1>3, <1>4, <1>5 DEF IInv

-----------------------------------------------------------------------------
(* A step of one worker, seen by the store and by every worker             *)

LEMMA StepInv ==
  ASSUME IInv, NEW w \in Workers, Step(w)
  PROVE  IInv'
<1>1. StoreInv'
  BY StatementInv DEF IInv, Step
<1>2. /\ minted'.parameter >= minted.parameter /\ minted'.unit >= minted.unit
      /\ minted \in Minted /\ minted' \in Minted
  BY <1>1, StatementMints DEF IInv, Step, StoreInv, TypeOKStore
<1>3. TypeOKWorkers'
  <2> SUFFICES ASSUME NEW v \in Workers
               PROVE  /\ loc'[v].parameter \in 0..minted'.parameter
                      /\ loc'[v].unit \in 0..minted'.unit
                      /\ loc'[v].canonical \in 0..minted'.unit
                      /\ ans'[v] = 0 <=> pc'[v] # "answered"
    BY DEF Step, Moves, TypeOKWorkers
  <2>1. /\ loc'[v].parameter \in 0..minted.parameter
        /\ loc'[v].unit \in 0..minted.unit
        /\ loc'[v].canonical \in 0..minted.unit
        /\ ans'[v] = 0 <=> pc'[v] # "answered"
    BY DEF IInv, TypeOKWorkers, Step, Moves
  <2> QED
    BY <1>2, <2>1 DEF Minted
<1>4. RawUnitAssociated'
  <2> SUFFICES ASSUME NEW m \in measurements'
               PROVE  Associated(m.parameter, m.rawUnit)'
    BY DEF RawUnitAssociated
  <2>1. m.parameter \in IdsOf(parameters) /\ Associated(m.parameter, m.rawUnit)
    BY DEF IInv, StoreInv, ReferencesResolve, RawUnitAssociated, Step,
           InsertsValidated
  <2>2. m.parameter \in 0..minted.parameter
    BY <2>1, <1>2 DEF IInv, StoreInv, KeysMinted, TypeOKStore, Parameter, IdsOf,
                      Minted
  <2>3. m.parameter \in IdsOf(parameters)'
    BY <1>1 DEF StoreInv, ReferencesResolve
  <2> QED
    BY <2>1, <2>2, <2>3, StatementAssociations DEF IInv, Step
<1>5. ValidatedAssociated'
  <2> SUFFICES ASSUME NEW v \in Workers, Validated(v)',
                      loc'[v].parameter \in IdsOf(parameters)'
               PROVE  Associated(loc[v].parameter, loc[v].unit)'
    BY DEF ValidatedAssociated, Validated
  <2>1. loc'[v].parameter \in 0..minted.parameter
    BY DEF IInv, TypeOKWorkers, Step, Moves
  <2>2. loc'[v].parameter \in IdsOf(parameters)
    BY <2>1, StatementAssociations DEF IInv, Step
  <2>3. Associated(loc'[v].parameter, loc'[v].unit)
    <3>1. CASE v = w
      BY <3>1, <2>2 DEF IInv, Step, StaysValidated, ValidatedAssociated
    <3>2. CASE v # w
      BY <3>2, <2>2 DEF IInv, Step, Moves, Validated, ValidatedAssociated,
                        TypeOKWorkers
    <3> QED
      BY <3>1, <3>2
  <2>4. ASSUME NEW p \in 0..minted.parameter, NEW u,
               p \in IdsOf(parameters)', Associated(p, u)
        PROVE  \E pu \in parameterUnits' : pu.parameter = p /\ pu.unit = u
    <3>1. Associated(p, u)'
      BY <2>4, StatementAssociations DEF IInv, Step
    <3> QED
      BY <3>1 DEF Associated
  <2> QED
    BY <2>1, <2>3, <2>4 DEF Associated
<1> QED
  BY <1>1, <1>3, <1>4, <1>5 DEF IInv

-----------------------------------------------------------------------------
(* What a handler's step has to be, for it to be a Step                    *)

\* The handler goes on, or answers.
Control(w) ==
    \/ \E label \in Labels \ {"answered"} : Goto(w, label)
    \/ \E status \in Statuses : Answer(w, status)

LocalsMove(w) ==
    /\ loc' \in [Workers -> Locals]
    /\ \A v \in Workers \ {w} : loc'[v] = loc[v]
    /\ loc'[w].parameter \in 0..minted.parameter
    /\ loc'[w].unit \in 0..minted.unit
    /\ loc'[w].canonical \in 0..minted.unit

LEMMA ControlMoves ==
  ASSUME TypeOKWorkers, NEW w \in Workers, pc[w] # "answered", Control(w)
  PROVE  /\ pc' \in [Workers -> Labels]
         /\ ans' \in [Workers -> Statuses \cup {0}]
         /\ \A v \in Workers \ {w} : pc'[v] = pc[v] /\ ans'[v] = ans[v]
         /\ ans'[w] = 0 <=> pc'[w] # "answered"
<1>1. CASE \E label \in Labels \ {"answered"} : Goto(w, label)
  BY <1>1 DEF TypeOKWorkers, Goto
<1>2. CASE \E status \in Statuses : Answer(w, status)
  BY <1>2 DEF TypeOKWorkers, Answer, Statuses, Labels
<1> QED
  BY <1>1, <1>2 DEF Control

LEMMA SameLocalsMove ==
  ASSUME TypeOKWorkers, NEW w \in Workers, UNCHANGED loc
  PROVE  LocalsMove(w)
BY DEF TypeOKWorkers, LocalsMove

\* The id of the row, the name, the threshold and the rows a handler read are
\* of no account here.
LEMMA OtherLocalsMove ==
  ASSUME TypeOKWorkers, NEW w \in Workers, NEW l \in Locals,
         loc' = [loc EXCEPT ![w] = l],
         l.parameter = loc[w].parameter, l.unit = loc[w].unit,
         l.canonical = loc[w].canonical
  PROVE  LocalsMove(w)
BY DEF TypeOKWorkers, LocalsMove

LEMMA RowMove ==
  ASSUME TypeOKWorkers, NEW w \in Workers, NEW n \in Nat,
         loc' = [loc EXCEPT ![w].row = n]
  PROVE  LocalsMove(w)
BY DEF TypeOKWorkers, Locals, LocalsMove

LEMMA HandlerStep ==
  ASSUME IInv, NEW w \in Workers, pc[w] # "answered", UNCHANGED req,
         Control(w), LocalsMove(w), Statement, StaysValidated(w),
         InsertsValidated
  PROVE  Step(w)
BY ControlMoves DEF IInv, Step, Moves, LocalsMove, TypeOKWorkers

LEMMA ReadingStep ==
  ASSUME IInv, NEW w \in Workers, pc[w] # "answered", UNCHANGED <<tables, req>>,
         Control(w), LocalsMove(w), StaysValidated(w)
  PROVE  Step(w)
BY HandlerStep DEF Statement, InsertsValidated, tables

\* Routes that take no measurement have nothing to stay associated.
LEMMA OtherRoute ==
  ASSUME NEW w \in Workers, req[w].route # "create_measurement", UNCHANGED req
  PROVE  StaysValidated(w)
BY DEF StaysValidated, Validated

-----------------------------------------------------------------------------
(* The bodies                                                              *)

LEMMA RequestFields ==
  ASSUME TypeOKWorkers, NEW w \in Workers
  PROVE  /\ req[w].route = "create_aquarium"
              => req[w].user \in Users /\ req[w].name \in Names
         /\ req[w].route = "update_aquarium"
              => req[w].name \in Optional(Names) \cup {Unset}
         /\ req[w].route = "set_threshold" => Bounds(req[w])
         /\ req[w].route = "create_measurement"
              => req[w].at \in Instants /\ req[w].finite \in BOOLEAN
         /\ req[w].route = "create_parameter" => req[w].slug \in Slugs
         /\ req[w].route = "create_unit" => req[w].unit \in Notations
         /\ req[w].route = "delete_measurement" => req[w].measurement \in Nat
<1>1. req[w] \in Request \cup {NoRequest}
  BY ArrivalsAssumption DEF TypeOKWorkers
<1> QED
  BY <1>1 DEF Request, NoRequest, Bounds

-----------------------------------------------------------------------------
(* Steps that all routes share                                             *)

LEMMA AcceptStep ==
  ASSUME IInv, NEW w \in Workers, Accept(w)
  PROVE  Step(w)
<1> PICK r \in Arrivals : /\ req' = [req EXCEPT ![w] = r]
                          /\ pc' = [pc EXCEPT ![w] = Entry(r.route)]
  BY DEF Accept
<1>1. /\ Entry(r.route) \in {"body", "aquarium", "commit", "select"}
      /\ r.route = "create_measurement" => Entry(r.route) = "aquarium"
  BY DEF Entry, ScopedRoutes, ThresholdRoutes, MeasurementRoutes
<1>2. Moves(w)
  BY <1>1 DEF Accept, IInv, TypeOKWorkers, Moves, Labels
<1>3. StaysValidated(w)
  BY <1>1 DEF IInv, TypeOKWorkers, StaysValidated, Validated
<1>4. Statement /\ InsertsValidated
  BY DEF Accept, Statement, InsertsValidated, tables
<1> QED
  BY <1>2, <1>3, <1>4 DEF Step

LEMMA CloseStep ==
  ASSUME IInv, NEW w \in Workers, Close(w)
  PROVE  Step(w)
<1>1. minted \in Minted
  BY DEF IInv, StoreInv, TypeOKStore
<1>2. NoLocals \in Locals
  BY DEF NoLocals, Locals, Optional
<1>3. Moves(w)
  BY <1>1, <1>2 DEF Close, IInv, TypeOKWorkers, Moves, Labels, Statuses, Minted,
                    NoLocals
<1>4. StaysValidated(w)
  BY DEF Close, IInv, TypeOKWorkers, StaysValidated, Validated
<1>5. Statement /\ InsertsValidated
  BY DEF Close, Statement, InsertsValidated, tables
<1> QED
  BY <1>3, <1>4, <1>5 DEF Step

LEMMA FindAquariumStep ==
  ASSUME IInv, NEW w \in Workers, FindAquarium(w)
  PROVE  Step(w)
<1>1. Control(w)
  BY DEF FindAquarium, Control, Labels, Statuses
<1>2. LocalsMove(w)
  BY SameLocalsMove DEF IInv, FindAquarium
<1>3. StaysValidated(w)
  BY DEF FindAquarium, IInv, TypeOKWorkers, Goto, Answer, StaysValidated, Validated
<1> QED
  BY <1>1, <1>2, <1>3, ReadingStep DEF FindAquarium

LEMMA FindParameterStep ==
  ASSUME IInv, NEW w \in Workers, FindParameter(w)
  PROVE  Step(w)
<1>1. /\ AfterParameter(req[w].route) \in {"unit", "select", "owned"}
      /\ req[w].route = "create_measurement"
           => AfterParameter(req[w].route) = "unit"
  BY DEF AfterParameter
<1>2. Control(w)
  BY <1>1 DEF FindParameter, Control, Labels, Statuses
<1>3. LocalsMove(w)
  <2>1. CASE UNCHANGED loc
    BY <2>1, SameLocalsMove DEF IInv
  <2>2. CASE \E p \in parameters : loc' = [loc EXCEPT ![w].parameter = p.id]
    <3> PICK p \in parameters : loc' = [loc EXCEPT ![w].parameter = p.id]
      BY <2>2
    <3>1. p.id \in Nat /\ p.id \in 0..minted.parameter
      BY DEF IInv, StoreInv, TypeOKStore, KeysMinted, Parameter, Minted
    <3> QED
      BY <3>1 DEF IInv, TypeOKWorkers, Locals, LocalsMove
  <2> QED
    BY <2>1, <2>2 DEF FindParameter, ParametersBySlug
<1>4. StaysValidated(w)
  BY <1>1 DEF FindParameter, IInv, TypeOKWorkers, Goto, Answer, StaysValidated,
              Validated
<1> QED
  BY <1>2, <1>3, <1>4, ReadingStep DEF FindParameter

LEMMA CheckOwnedStep ==
  ASSUME IInv, NEW w \in Workers, CheckOwned(w)
  PROVE  Step(w)
<1>1. Control(w)
  BY DEF CheckOwned, Control, Labels, Statuses
<1>2. LocalsMove(w)
  BY SameLocalsMove DEF IInv, CheckOwned
<1>3. StaysValidated(w)
  BY DEF CheckOwned, IInv, TypeOKWorkers, Goto, Answer, StaysValidated, Validated
<1> QED
  BY <1>1, <1>2, <1>3, ReadingStep DEF CheckOwned

-----------------------------------------------------------------------------
(* /aquariums                                                              *)

LEMMA GetAquariumStep ==
  ASSUME IInv, NEW w \in Workers, GetAquarium(w)
  PROVE  Step(w)
<1>1. Control(w)
  BY DEF GetAquarium, Control, Statuses
<1> QED
  BY <1>1, SameLocalsMove, OtherRoute, ReadingStep DEF IInv, GetAquarium, At

LEMMA CreateAquariumStep ==
  ASSUME IInv, NEW w \in Workers, CreateAquarium(w)
  PROVE  Step(w)
<1>1. Control(w)
  BY DEF CreateAquarium, Control, Labels, Statuses
<1>2. LocalsMove(w)
  <2>1. minted.aquarium + 1 \in Nat
    BY DEF IInv, StoreInv, TypeOKStore, Minted
  <2>2. \/ UNCHANGED loc
        \/ loc' = [loc EXCEPT ![w].row = minted.aquarium + 1]
    BY DEF CreateAquarium
  <2> QED
    BY <2>1, <2>2, SameLocalsMove, RowMove DEF IInv
<1>3. Statement
  BY RequestFields DEF CreateAquarium, At, IInv, Statement
<1>4. InsertsValidated
  BY DEF CreateAquarium, InsertAquarium, InsertsValidated, tables, readings
<1> QED
  BY <1>1, <1>2, <1>3, <1>4, OtherRoute, HandlerStep DEF CreateAquarium, At

LEMMA SelectAquariumStep ==
  ASSUME IInv, NEW w \in Workers, SelectAquarium(w)
  PROVE  Step(w)
<1>1. Control(w)
  <2>1. Answer(w, 404) \/ Goto(w, "commit")
    BY DEF SelectAquarium
  <2> QED
    BY <2>1 DEF Control, Labels, Statuses
<1>2. LocalsMove(w)
  <2>1. CASE UNCHANGED loc
    BY <2>1, SameLocalsMove DEF IInv
  <2>2. CASE \E a \in aquariums :
               loc' = [loc EXCEPT ![w].row = a.id, ![w].name = a.name]
    <3> PICK a \in aquariums :
               loc' = [loc EXCEPT ![w].row = a.id, ![w].name = a.name]
      BY <2>2
    <3> DEFINE l == [loc[w] EXCEPT !.row = a.id, !.name = a.name]
    <3>1. a.id \in Nat /\ a.name \in Optional(Names)
      BY DEF IInv, StoreInv, TypeOKStore, Aquarium, Optional
    <3>2. loc[w] \in Locals /\ loc \in [Workers -> Locals]
      BY DEF IInv, TypeOKWorkers
    <3>3. /\ l \in Locals /\ l.parameter = loc[w].parameter
          /\ l.unit = loc[w].unit /\ l.canonical = loc[w].canonical
      BY <3>1, <3>2 DEF Locals
    <3>4. loc' = [loc EXCEPT ![w] = l]
      BY <3>2
    <3> HIDE DEF l
    <3> QED
      BY <3>3, <3>4, OtherLocalsMove DEF IInv
  <2> QED
    BY <2>1, <2>2 DEF SelectAquarium
<1> QED
  BY <1>1, <1>2, OtherRoute, ReadingStep DEF SelectAquarium

LEMMA UpdateAquariumStep ==
  ASSUME IInv, NEW w \in Workers, UpdateAquarium(w)
  PROVE  Step(w)
<1>1. Control(w)
  <2>1. Answer(w, 500) \/ Answer(w, 409) \/ Goto(w, "refresh")
    BY DEF UpdateAquarium
  <2> QED
    BY <2>1 DEF Control, Labels, Statuses
<1>2. Statement
  <2>1. CASE UNCHANGED tables
    BY <2>1 DEF Statement
  <2>2. CASE /\ Renames(w) /\ ~NullsColumn(req[w])
             /\ RenameAquarium(loc[w].row, req[w].name)
    <3>1. req[w].name \in Names
      BY <2>2, RequestFields DEF UpdateAquarium, Renames, NullsColumn, At, IInv,
                                 Optional
    <3>2. loc[w].row \in Nat
      BY DEF IInv, TypeOKWorkers, Locals
    <3> QED
      BY <2>2, <3>1, <3>2 DEF Statement
  <2> QED
    BY <2>1, <2>2 DEF UpdateAquarium, NullsColumn
<1>3. InsertsValidated
  BY DEF UpdateAquarium, RenameAquarium, InsertsValidated, tables, readings
<1> QED
  BY <1>1, <1>2, <1>3, SameLocalsMove, OtherRoute, HandlerStep
     DEF IInv, UpdateAquarium, At

LEMMA RefreshAquariumStep ==
  ASSUME IInv, NEW w \in Workers, RefreshAquarium(w)
  PROVE  Step(w)
<1>1. Control(w)
  BY DEF RefreshAquarium, Control, Statuses
<1> QED
  BY <1>1, SameLocalsMove, OtherRoute, ReadingStep DEF IInv, RefreshAquarium

LEMMA RemoveAquariumStep ==
  ASSUME IInv, NEW w \in Workers, RemoveAquarium(w)
  PROVE  Step(w)
<1>1. Control(w)
  BY DEF RemoveAquarium, Control, Statuses
<1>2. Statement
  BY DEF RemoveAquarium, IInv, TypeOKWorkers, Locals, Statement
<1>3. InsertsValidated
  BY DEF RemoveAquarium, DeleteAquarium, InsertsValidated
<1> QED
  BY <1>1, <1>2, <1>3, SameLocalsMove, OtherRoute, HandlerStep
     DEF IInv, RemoveAquarium, At

LEMMA AquariumApiStep ==
  ASSUME IInv, NEW w \in Workers, AquariumStep(w)
  PROVE  Step(w)
BY GetAquariumStep, CreateAquariumStep, SelectAquariumStep, UpdateAquariumStep,
   RefreshAquariumStep, RemoveAquariumStep DEF AquariumStep

-----------------------------------------------------------------------------
(* /aquariums/{aquarium_id}/thresholds/{parameter}                         *)

LEMMA ValidateOrderingStep ==
  ASSUME IInv, NEW w \in Workers, ValidateOrdering(w)
  PROVE  Step(w)
<1>1. Control(w)
  BY DEF ValidateOrdering, Control, Labels, Statuses
<1> QED
  BY <1>1, SameLocalsMove, OtherRoute, ReadingStep DEF IInv, ValidateOrdering, At

LEMMA SelectThresholdStep ==
  ASSUME IInv, NEW w \in Workers, SelectThreshold(w)
  PROVE  Step(w)
<1>1. Control(w)
  BY DEF SelectThreshold, Control, Labels
<1>2. LocalsMove(w)
  <2>1. CASE UNCHANGED loc
    BY <2>1, SameLocalsMove DEF IInv
  <2>2. CASE \E t \in StoredThresholds(w) :
               loc' = [loc EXCEPT ![w].threshold = t]
    <3> PICK t \in StoredThresholds(w) :
               loc' = [loc EXCEPT ![w].threshold = t]
      BY <2>2
    <3>1. t \in Optional(Threshold)
      BY DEF StoredThresholds, IInv, StoreInv, TypeOKStore, Optional
    <3> QED
      BY <3>1 DEF IInv, TypeOKWorkers, Locals, LocalsMove
  <2> QED
    BY <2>1, <2>2 DEF SelectThreshold
<1> QED
  BY <1>1, <1>2, OtherRoute, ReadingStep DEF SelectThreshold, At

LEMMA CreateThresholdStep ==
  ASSUME IInv, NEW w \in Workers, CreateThreshold(w)
  PROVE  Step(w)
<1>1. Control(w)
  BY DEF CreateThreshold, Control, Labels, Statuses
<1>2. Statement
  <2>1. CASE UNCHANGED tables
    BY <2>1 DEF Statement
  <2>2. CASE InsertThreshold(Body(w))
    <3>1. Bounds(Body(w))
      BY RequestFields DEF CreateThreshold, At, IInv, Bounds, Body
    <3> QED
      BY <2>2, <3>1 DEF Statement, Body
  <2> QED
    BY <2>1, <2>2 DEF CreateThreshold
<1>3. InsertsValidated
  BY DEF CreateThreshold, InsertThreshold, InsertsValidated, tables
<1> QED
  BY <1>1, <1>2, <1>3, SameLocalsMove, OtherRoute, HandlerStep
     DEF IInv, CreateThreshold, At

LEMMA ReplaceThresholdStep ==
  ASSUME IInv, NEW w \in Workers, ReplaceThreshold(w)
  PROVE  Step(w)
<1>1. Control(w)
  BY DEF ReplaceThreshold, Control, Labels, Statuses
<1>2. Statement
  <2>1. Bounds(Body(w))
    BY RequestFields DEF ReplaceThreshold, At, IInv, Bounds, Body
  <2> QED
    BY <2>1 DEF ReplaceThreshold, Statement
<1>3. InsertsValidated
  BY DEF ReplaceThreshold, UpdateThreshold, InsertsValidated, tables
<1> QED
  BY <1>1, <1>2, <1>3, SameLocalsMove, OtherRoute, HandlerStep
     DEF IInv, ReplaceThreshold, At

LEMMA RefreshThresholdStep ==
  ASSUME IInv, NEW w \in Workers, RefreshThreshold(w)
  PROVE  Step(w)
<1>1. Control(w)
  BY DEF RefreshThreshold, Control, Statuses
<1> QED
  BY <1>1, SameLocalsMove, OtherRoute, ReadingStep DEF IInv, RefreshThreshold, At

LEMMA GetThresholdStep ==
  ASSUME IInv, NEW w \in Workers, GetThreshold(w)
  PROVE  Step(w)
<1>1. Control(w)
  BY DEF GetThreshold, Control, Statuses
<1> QED
  BY <1>1, SameLocalsMove, OtherRoute, ReadingStep DEF IInv, GetThreshold, At

LEMMA ThresholdApiStep ==
  ASSUME IInv, NEW w \in Workers, ThresholdStep(w)
  PROVE  Step(w)
BY ValidateOrderingStep, SelectThresholdStep, CreateThresholdStep,
   ReplaceThresholdStep, RefreshThresholdStep, GetThresholdStep DEF ThresholdStep

-----------------------------------------------------------------------------
(* /aquariums/{aquarium_id}/measurements/{parameter}                       *)

\* A unit a lookup by notation found.
LEMMA UnitFound ==
  ASSUME IInv, NEW notation, NEW u \in UnitsByNotation(notation)
  PROVE  u.id \in Nat /\ u.id \in 0..minted.unit
BY DEF UnitsByNotation, IInv, StoreInv, TypeOKStore, KeysMinted, Unit, Minted

LEMMA FindUnitStep ==
  ASSUME IInv, NEW w \in Workers, FindUnit(w)
  PROVE  Step(w)
<1>1. Control(w)
  <2>1. Answer(w, 422) \/ Answer(w, 500) \/ Goto(w, "association")
    BY DEF FindUnit
  <2> QED
    BY <2>1 DEF Control, Labels, Statuses
<1>2. LocalsMove(w)
  <2>1. CASE UNCHANGED loc
    BY <2>1, SameLocalsMove DEF IInv
  <2>2. CASE \E u \in UnitsByNotation(req[w].unit) :
               loc' = [loc EXCEPT ![w].unit = u.id]
    <3> PICK u \in UnitsByNotation(req[w].unit) :
               loc' = [loc EXCEPT ![w].unit = u.id]
      BY <2>2
    <3>1. u.id \in Nat /\ u.id \in 0..minted.unit
      BY UnitFound
    <3> QED
      BY <3>1 DEF IInv, TypeOKWorkers, Locals, LocalsMove
  <2> QED
    BY <2>1, <2>2 DEF FindUnit
<1>3. StaysValidated(w)
  BY DEF FindUnit, At, IInv, TypeOKWorkers, Goto, Answer, StaysValidated, Validated
<1> QED
  BY <1>1, <1>2, <1>3, ReadingStep DEF FindUnit, At

\* The step that makes a handler a validated one.
LEMMA CheckAssociationStep ==
  ASSUME IInv, NEW w \in Workers, CheckAssociation(w)
  PROVE  Step(w)
<1>1. Control(w)
  BY DEF CheckAssociation, Control, Labels, Statuses
<1>2. StaysValidated(w)
  BY DEF CheckAssociation, At, IInv, TypeOKWorkers, Goto, Answer, StaysValidated, Validated
<1> QED
  BY <1>1, <1>2, SameLocalsMove, ReadingStep DEF IInv, CheckAssociation, At

LEMMA FindCanonicalUnitStep ==
  ASSUME IInv, NEW w \in Workers, FindCanonicalUnit(w)
  PROVE  Step(w)
<1>1. Control(w)
  <2>1. Answer(w, 500) \/ Goto(w, "owned")
    BY DEF FindCanonicalUnit
  <2> QED
    BY <2>1 DEF Control, Labels, Statuses
<1>2. /\ LocalsMove(w)
      /\ loc'[w].parameter = loc[w].parameter /\ loc'[w].unit = loc[w].unit
  <2>1. CASE UNCHANGED loc
    BY <2>1, SameLocalsMove DEF IInv
  <2>2. CASE \E u \in UnitsByNotation(Rules[req[w].slug].canonical) :
               loc' = [loc EXCEPT ![w].canonical = u.id]
    <3> PICK u \in UnitsByNotation(Rules[req[w].slug].canonical) :
               loc' = [loc EXCEPT ![w].canonical = u.id]
      BY <2>2
    <3>1. u.id \in Nat /\ u.id \in 0..minted.unit
      BY UnitFound
    <3>2. /\ loc' \in [Workers -> Locals]
          /\ \A v \in Workers \ {w} : loc'[v] = loc[v]
      BY <3>1 DEF IInv, TypeOKWorkers, Locals
    <3>3. /\ loc'[w].canonical = u.id
          /\ loc'[w].parameter = loc[w].parameter
          /\ loc'[w].unit = loc[w].unit
      BY DEF IInv, TypeOKWorkers, Locals
    <3> QED
      BY <3>1, <3>2, <3>3 DEF IInv, TypeOKWorkers, LocalsMove
  <2> QED
    BY <2>1, <2>2 DEF FindCanonicalUnit
<1>3. StaysValidated(w)
  BY <1>2 DEF FindCanonicalUnit, At, StaysValidated, Validated
<1> QED
  BY <1>1, <1>2, <1>3, ReadingStep DEF FindCanonicalUnit, At

LEMMA CreateMeasurementStep ==
  ASSUME IInv, NEW w \in Workers, CreateMeasurement(w)
  PROVE  Step(w)
<1>1. Control(w)
  BY DEF CreateMeasurement, Control, Labels, Statuses
<1>2. LocalsMove(w)
  <2>1. minted.measurement + 1 \in Nat
    BY DEF IInv, StoreInv, TypeOKStore, Minted
  <2>2. \/ UNCHANGED loc
        \/ loc' = [loc EXCEPT ![w].row = minted.measurement + 1]
    BY DEF CreateMeasurement
  <2> QED
    BY <2>1, <2>2, SameLocalsMove, RowMove DEF IInv
<1>3. StaysValidated(w)
  BY DEF CreateMeasurement, At, IInv, TypeOKWorkers, Goto, Answer,
         StaysValidated, Validated
<1>4. Statement
  <2>1. CASE UNCHANGED tables
    BY <2>1 DEF Statement
  <2>2. CASE InsertMeasurement(Reading(w))
    BY <2>2, RequestFields DEF CreateMeasurement, At, IInv, Reading, Statement
  <2> QED
    BY <2>1, <2>2 DEF CreateMeasurement
<1>5. InsertsValidated
  <2>1. CASE UNCHANGED tables
    BY <2>1 DEF InsertsValidated, tables
  <2>2. CASE InsertMeasurement(Reading(w))
    <3>1. Reading(w).parameter \in IdsOf(parameters)
      BY <2>2 DEF InsertMeasurement, MeasurementRefused, MeasurementOrphan
    <3>2. Validated(w)
      BY DEF CreateMeasurement, At, Validated
    <3>3. Associated(Reading(w).parameter, Reading(w).rawUnit)
      BY <3>1, <3>2 DEF IInv, ValidatedAssociated, Reading
    <3> QED
      BY <2>2, <3>1, <3>3 DEF InsertMeasurement, InsertsValidated
  <2> QED
    BY <2>1, <2>2 DEF CreateMeasurement
<1> QED
  BY <1>1, <1>2, <1>3, <1>4, <1>5, HandlerStep DEF CreateMeasurement, At

LEMMA ReportDuplicateStep ==
  ASSUME IInv, NEW w \in Workers, ReportDuplicate(w)
  PROVE  Step(w)
<1>1. Control(w)
  BY DEF ReportDuplicate, Control, Statuses
<1>2. StaysValidated(w)
  BY DEF ReportDuplicate, At, IInv, TypeOKWorkers, Answer, StaysValidated, Validated
<1> QED
  BY <1>1, <1>2, SameLocalsMove, ReadingStep DEF IInv, ReportDuplicate, At

LEMMA RefreshMeasurementStep ==
  ASSUME IInv, NEW w \in Workers, RefreshMeasurement(w)
  PROVE  Step(w)
<1>1. Control(w)
  BY DEF RefreshMeasurement, Control, Labels, Statuses
<1>2. StaysValidated(w)
  BY DEF RefreshMeasurement, At, IInv, TypeOKWorkers, Goto, Answer, StaysValidated, Validated
<1> QED
  BY <1>1, <1>2, SameLocalsMove, ReadingStep DEF IInv, RefreshMeasurement, At

LEMMA ListMeasurementsStep ==
  ASSUME IInv, NEW w \in Workers, ListMeasurements(w)
  PROVE  Step(w)
<1>1. Control(w)
  BY DEF ListMeasurements, Control, Labels
<1>2. LocalsMove(w)
  <2> DEFINE rows == {m \in measurements : /\ m.aquarium = req[w].aquarium
                                           /\ m.parameter = loc[w].parameter}
  <2>1. rows \in SUBSET Measurement
    BY DEF IInv, StoreInv, TypeOKStore
  <2>2. loc' = [loc EXCEPT ![w].rows = rows]
    BY DEF ListMeasurements
  <2> HIDE DEF rows
  <2> QED
    BY <2>1, <2>2 DEF IInv, TypeOKWorkers, Locals, LocalsMove
<1> QED
  BY <1>1, <1>2, OtherRoute, ReadingStep DEF ListMeasurements, At

LEMMA LoadUnitsStep ==
  ASSUME IInv, NEW w \in Workers, LoadUnits(w)
  PROVE  Step(w)
<1>1. Control(w)
  BY DEF LoadUnits, Control, Statuses
<1> QED
  BY <1>1, SameLocalsMove, OtherRoute, ReadingStep DEF IInv, LoadUnits, At

LEMMA SelectMeasurementStep ==
  ASSUME IInv, NEW w \in Workers, SelectMeasurement(w)
  PROVE  Step(w)
<1>1. Control(w)
  BY DEF SelectMeasurement, Control, Labels, Statuses
<1> QED
  BY <1>1, SameLocalsMove, OtherRoute, ReadingStep DEF IInv, SelectMeasurement, At

LEMMA RemoveMeasurementStep ==
  ASSUME IInv, NEW w \in Workers, RemoveMeasurement(w)
  PROVE  Step(w)
<1>1. Control(w)
  BY DEF RemoveMeasurement, Control, Statuses
<1>2. Statement
  BY RequestFields DEF RemoveMeasurement, At, IInv, Statement
<1>3. InsertsValidated
  BY DEF RemoveMeasurement, DeleteMeasurement, InsertsValidated
<1> QED
  BY <1>1, <1>2, <1>3, SameLocalsMove, OtherRoute, HandlerStep
     DEF IInv, RemoveMeasurement, At

LEMMA MeasurementApiStep ==
  ASSUME IInv, NEW w \in Workers, MeasurementStep(w)
  PROVE  Step(w)
BY FindUnitStep, CheckAssociationStep, FindCanonicalUnitStep,
   CreateMeasurementStep, ReportDuplicateStep, RefreshMeasurementStep,
   ListMeasurementsStep, LoadUnitsStep, SelectMeasurementStep, RemoveMeasurementStep
   DEF MeasurementStep

-----------------------------------------------------------------------------
(* /parameters and /units                                                  *)

LEMMA CreateParameterStep ==
  ASSUME IInv, NEW w \in Workers, CreateParameter(w)
  PROVE  Step(w)
<1>1. Control(w)
  BY DEF CreateParameter, Control, Labels, Statuses
<1>2. LocalsMove(w)
  <2>1. minted.parameter + 1 \in Nat
    BY DEF IInv, StoreInv, TypeOKStore, Minted
  <2>2. \/ UNCHANGED loc
        \/ loc' = [loc EXCEPT ![w].row = minted.parameter + 1]
    BY DEF CreateParameter
  <2> QED
    BY <2>1, <2>2, SameLocalsMove, RowMove DEF IInv
<1>3. Statement
  BY RequestFields DEF CreateParameter, At, IInv, Statement
<1>4. InsertsValidated
  BY DEF CreateParameter, InsertParameter, InsertsValidated, tables, readings
<1> QED
  BY <1>1, <1>2, <1>3, <1>4, OtherRoute, HandlerStep DEF CreateParameter, At

LEMMA CreateUnitStep ==
  ASSUME IInv, NEW w \in Workers, CreateUnit(w)
  PROVE  Step(w)
<1>1. Control(w)
  BY DEF CreateUnit, Control, Labels, Statuses
<1>2. LocalsMove(w)
  <2>1. minted.unit + 1 \in Nat
    BY DEF IInv, StoreInv, TypeOKStore, Minted
  <2>2. \/ UNCHANGED loc
        \/ loc' = [loc EXCEPT ![w].row = minted.unit + 1]
    BY DEF CreateUnit
  <2> QED
    BY <2>1, <2>2, SameLocalsMove, RowMove DEF IInv
<1>3. Statement
  BY RequestFields, SlugifyAssumption DEF CreateUnit, At, IInv, Statement
<1>4. InsertsValidated
  BY DEF CreateUnit, InsertUnit, InsertsValidated, tables, readings
<1> QED
  BY <1>1, <1>2, <1>3, <1>4, OtherRoute, HandlerStep DEF CreateUnit, At

LEMMA SelectParameterStep ==
  ASSUME IInv, NEW w \in Workers, SelectParameter(w)
  PROVE  Step(w)
<1>1. Control(w)
  <2>1. Answer(w, 404) \/ Goto(w, "commit")
    BY DEF SelectParameter
  <2> QED
    BY <2>1 DEF Control, Labels, Statuses
<1>2. LocalsMove(w)
  <2>1. CASE UNCHANGED loc
    BY <2>1, SameLocalsMove DEF IInv
  <2>2. CASE \E r \in parameters : loc' = [loc EXCEPT ![w].row = r.id]
    <3> PICK r \in parameters : loc' = [loc EXCEPT ![w].row = r.id]
      BY <2>2
    <3>1. r.id \in Nat
      BY DEF IInv, StoreInv, TypeOKStore, Parameter
    <3> QED
      BY <3>1, RowMove DEF IInv
  <2> QED
    BY <2>1, <2>2 DEF SelectParameter, ParametersBySlug
<1> QED
  BY <1>1, <1>2, OtherRoute, ReadingStep DEF SelectParameter

LEMMA SelectUnitStep ==
  ASSUME IInv, NEW w \in Workers, SelectUnit(w)
  PROVE  Step(w)
<1>1. Control(w)
  <2>1. Answer(w, 404) \/ Goto(w, "commit")
    BY DEF SelectUnit
  <2> QED
    BY <2>1 DEF Control, Labels, Statuses
<1>2. LocalsMove(w)
  <2>1. CASE UNCHANGED loc
    BY <2>1, SameLocalsMove DEF IInv
  <2>2. CASE \E r \in units : loc' = [loc EXCEPT ![w].row = r.id]
    <3> PICK r \in units : loc' = [loc EXCEPT ![w].row = r.id]
      BY <2>2
    <3>1. r.id \in Nat
      BY DEF IInv, StoreInv, TypeOKStore, Unit
    <3> QED
      BY <3>1, RowMove DEF IInv
  <2> QED
    BY <2>1, <2>2 DEF SelectUnit
<1> QED
  BY <1>1, <1>2, OtherRoute, ReadingStep DEF SelectUnit

LEMMA UpdateCatalogRowStep ==
  ASSUME IInv, NEW w \in Workers, UpdateCatalogRow(w)
  PROVE  Step(w)
<1>1. Control(w)
  BY DEF UpdateCatalogRow, Control, Labels, Statuses
<1> QED
  BY <1>1, SameLocalsMove, OtherRoute, ReadingStep DEF IInv, UpdateCatalogRow, CatalogRoutes

LEMMA RefreshCatalogRowStep ==
  ASSUME IInv, NEW w \in Workers, RefreshCatalogRow(w)
  PROVE  Step(w)
<1>1. Control(w)
  BY DEF RefreshCatalogRow, Control, Statuses
<1> QED
  BY <1>1, SameLocalsMove, OtherRoute, ReadingStep DEF IInv, RefreshCatalogRow, CatalogRoutes

LEMMA RemoveParameterStep ==
  ASSUME IInv, NEW w \in Workers, RemoveParameter(w)
  PROVE  Step(w)
<1>1. Control(w)
  BY DEF RemoveParameter, Control, Statuses
<1>2. Statement
  BY DEF RemoveParameter, IInv, TypeOKWorkers, Locals, Statement
<1>3. InsertsValidated
  BY DEF RemoveParameter, DeleteParameter, InsertsValidated, tables, readings
<1> QED
  BY <1>1, <1>2, <1>3, SameLocalsMove, OtherRoute, HandlerStep
     DEF IInv, RemoveParameter, At

LEMMA RemoveUnitStep ==
  ASSUME IInv, NEW w \in Workers, RemoveUnit(w)
  PROVE  Step(w)
<1>1. Control(w)
  BY DEF RemoveUnit, Control, Statuses
<1>2. Statement
  BY DEF RemoveUnit, IInv, TypeOKWorkers, Locals, Statement
<1>3. InsertsValidated
  BY DEF RemoveUnit, DeleteUnit, InsertsValidated, tables, readings
<1> QED
  BY <1>1, <1>2, <1>3, SameLocalsMove, OtherRoute, HandlerStep
     DEF IInv, RemoveUnit, At

LEMMA CatalogApiStep ==
  ASSUME IInv, NEW w \in Workers, CatalogStep(w)
  PROVE  Step(w)
BY CreateParameterStep, CreateUnitStep, SelectParameterStep, SelectUnitStep,
   UpdateCatalogRowStep, RefreshCatalogRowStep, RemoveParameterStep,
   RemoveUnitStep DEF CatalogStep

-----------------------------------------------------------------------------
(* The theorems                                                            *)

LEMMA WorkerStep ==
  ASSUME IInv, NEW w \in Workers, Accept(w) \/ Handle(w)
  PROVE  Step(w)
BY AcceptStep, FindAquariumStep, FindParameterStep, CheckOwnedStep,
   AquariumApiStep, ThresholdApiStep, MeasurementApiStep, CatalogApiStep,
   CloseStep DEF Handle

LEMMA NextInv == IInv /\ [Next]_vars => IInv'
<1> SUFFICES ASSUME IInv, [Next]_vars PROVE IInv'
  OBVIOUS
<1>1. ASSUME NEW w \in Workers, Accept(w) \/ Handle(w) PROVE IInv'
  BY <1>1, WorkerStep, StepInv
<1>2. CASE UNCHANGED vars
  <2>1. UNCHANGED <<tables, pc, req, loc, ans, minted, measurements, parameters,
                    parameterUnits>>
    BY <1>2 DEF vars, tables
  <2>2. StoreInv'
    BY <2>1, StoreStutterInv DEF IInv
  <2> QED
    BY <2>1, <2>2 DEF IInv, TypeOKWorkers, RawUnitAssociated,
       ValidatedAssociated, Validated, Associated, IdsOf
<1> QED
  BY <1>1, <1>2 DEF Next

LEMMA Invariance == Spec => []IInv
<1> QED
  BY InitInv, NextInv, PTL DEF Spec

\* Tables, requests, what handlers have read and answers keep their types, and
\* no id a handler holds is one the store has yet to mint.
THEOREM TypesHold == Spec => []TypeOK
<1>1. IInv => TypeOK
  BY DEF IInv, StoreInv, TypeOK
<1> QED
  BY <1>1, Invariance, PTL

\* However deletions race the handlers that insert child rows, no row refers to
\* one that is gone.
THEOREM NoDanglingReference == Spec => []ReferencesResolve
<1>1. IInv => ReferencesResolve
  BY DEF IInv, StoreInv
<1> QED
  BY <1>1, Invariance, PTL

\* A measurement is in a unit associated with its parameter, although the check
\* precedes the INSERT by three statements and no constraint relates the two.
THEOREM MeasurementsInAllowedUnits == Spec => []RawUnitAssociated
<1>1. IInv => RawUnitAssociated
  BY DEF IInv
<1> QED
  BY <1>1, Invariance, PTL
=============================================================================
