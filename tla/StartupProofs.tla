---------------------------- MODULE StartupProofs ---------------------------
(***************************************************************************)
(* What Startup.tla promises, for every list of databases, settings,       *)
(* parameters and units. A database is well formed at every revision, in   *)
(* the open transaction too (SInv), and its rows say what they said        *)
(* (Kept); upgrades find what they join unless the units were dropped      *)
(* (LInv); the catalogs are complete unless one was edited (CInv).         *)
(*                                                                         *)
(* One lemma for each revision says which columns it changes, one more     *)
(* what that does to the meaning of rows; the invariants' proofs then have *)
(* one step for each action of Startup.                                    *)
(***************************************************************************)
EXTENDS Startup, FiniteSetTheorems, TLAPS

-----------------------------------------------------------------------------
(* The seeds.                                                              *)

\* The places of used seeds are positive and distinct.
LEMMA PlacesDiffer ==
    ASSUME NEW seeds, NEW used, NEW i \in Nat, NEW k \in Nat,
           seeds[i] \in used, seeds[k] \in used, i # 0, k # 0
    PROVE  /\ Place(seeds, used, i) \in Nat \ {0}
           /\ Place(seeds, used, i) = Place(seeds, used, k) => i = k
<1> DEFINE Upto(n) == {j \in 1..n : seeds[j] \in used}
<1>1. ASSUME NEW n \in Nat PROVE IsFiniteSet(Upto(n)) /\ Cardinality(Upto(n)) \in Nat
  <2>1. IsFiniteSet(1..n)
    BY FS_Interval
  <2>2. IsFiniteSet(Upto(n))
    BY <2>1, FS_Subset
  <2> QED  BY <2>2, FS_CardinalityType
<1>2. i \in Upto(i) /\ k \in Upto(k)
  OBVIOUS
<1>3. Place(seeds, used, i) \in Nat \ {0}
  BY <1>1, <1>2, FS_EmptySet DEF Place
<1>4. ASSUME NEW m \in Nat, NEW n \in Nat, m < n, n \in Upto(n)
      PROVE  Cardinality(Upto(m)) # Cardinality(Upto(n))
  <2>1. Upto(m) \in SUBSET Upto(n) /\ n \notin Upto(m)
    BY <1>4
  <2> QED  BY <2>1, <1>1, <1>4, FS_Subset
<1>5. i < k \/ k < i \/ i = k
  OBVIOUS
<1> QED  BY <1>2, <1>3, <1>4, <1>5 DEF Place

\* The seeded notations, in their order.
LEMMA UnitsInOrder ==
    /\ SeedUnits[1] = "ppt" /\ SeedUnits[2] = "sg" /\ SeedUnits[3] = "celsius"
    /\ SeedUnits[4] = "fahrenheit" /\ SeedUnits[5] = "ppm" /\ SeedUnits[6] = "mg/L"
    /\ SeedUnits[7] = "pH" /\ SeedUnits[8] = "dKH" /\ SeedUnits[9] = "L"
    /\ SeedUnits[10] = "gal_us"
BY DEF SeedUnits

\* All notations: the seeded ones, and what the code and the migrations make
\* of them.
LEMMA Notations ==
    /\ DOMAIN SeedUnits = 1..10
    /\ AllNotations =
         {"ppt", "sg", "celsius", "fahrenheit", "ppm", "mg/L", "pH", "dKH", "L",
          "gal_us", "US Gal", "SG", "degC", "degF", "mg/l", "mg_l", "ph", "dkh",
          "l", "us gal", "degc", "degf", "PPT"}
<1> DEFINE Names == {"ppt", "sg", "celsius", "fahrenheit", "ppm", "mg/L", "pH",
                     "dKH", "L", "gal_us"}
<1>1. DOMAIN SeedUnits = 1..10
  BY DEF SeedUnits
<1>2. {SeedUnits[i] : i \in 1..10} = Names
  <2>1. ASSUME NEW i \in 1..10 PROVE SeedUnits[i] \in Names
    BY DEF SeedUnits
  <2> QED  BY <2>1, UnitsInOrder
<1> QED  BY <1>1, <1>2 DEF AllNotations

\* What lower case makes of the notations (src/src/units.py).
LEMMA Lowered ==
    /\ LowerCase["ppt"] = "ppt" /\ LowerCase["sg"] = "sg"
    /\ LowerCase["celsius"] = "celsius" /\ LowerCase["fahrenheit"] = "fahrenheit"
    /\ LowerCase["ppm"] = "ppm" /\ LowerCase["mg/L"] = "mg/l"
    /\ LowerCase["pH"] = "ph" /\ LowerCase["dKH"] = "dkh"
    /\ LowerCase["L"] = "l" /\ LowerCase["gal_us"] = "gal_us"
    /\ LowerCase["US Gal"] = "us gal" /\ LowerCase["SG"] = "sg"
    /\ LowerCase["degC"] = "degc" /\ LowerCase["degF"] = "degf"
BY Notations DEF LowerCase

\* No parameter is seeded twice, and no two seeded units have one key: not even
\* when case is ignored, as the unique index on lower(slug) does.
LEMMA SeedsDiffer ==
    /\ DOMAIN SeedParameters = 1..10
    /\ \A i, j \in 1..10 : SeedParameters[i] = SeedParameters[j] => i = j
    /\ \A i, j \in 1..10 : LowerCase[SeedUnits[i]] = LowerCase[SeedUnits[j]] => i = j
    /\ \A i, j \in 1..10 :
         SlugifyUnit[SeedUnits[i]] = SlugifyUnit[SeedUnits[j]] => i = j
<1>1. DOMAIN SeedParameters = 1..10
  BY DEF SeedParameters
<1>2. \A i, j \in 1..10 : SeedParameters[i] = SeedParameters[j] => i = j
  BY DEF SeedParameters
<1> DEFINE Low == <<"ppt", "sg", "celsius", "fahrenheit", "ppm", "mg/l", "ph",
                    "dkh", "l", "gal_us">>
<1>3. ASSUME NEW i \in 1..10 PROVE LowerCase[SeedUnits[i]] = Low[i]
  <2>1. /\ Low[1] = "ppt" /\ Low[2] = "sg" /\ Low[3] = "celsius"
        /\ Low[4] = "fahrenheit" /\ Low[5] = "ppm" /\ Low[6] = "mg/l"
        /\ Low[7] = "ph" /\ Low[8] = "dkh" /\ Low[9] = "l" /\ Low[10] = "gal_us"
    OBVIOUS
  <2>2. \/ i = 1 \/ i = 2 \/ i = 3 \/ i = 4 \/ i = 5
        \/ i = 6 \/ i = 7 \/ i = 8 \/ i = 9 \/ i = 10
    OBVIOUS
  <2> HIDE DEF Low
  <2>3. /\ LowerCase[SeedUnits[1]] = Low[1] /\ LowerCase[SeedUnits[2]] = Low[2]
        /\ LowerCase[SeedUnits[3]] = Low[3] /\ LowerCase[SeedUnits[4]] = Low[4]
        /\ LowerCase[SeedUnits[5]] = Low[5] /\ LowerCase[SeedUnits[6]] = Low[6]
        /\ LowerCase[SeedUnits[7]] = Low[7] /\ LowerCase[SeedUnits[8]] = Low[8]
        /\ LowerCase[SeedUnits[9]] = Low[9] /\ LowerCase[SeedUnits[10]] = Low[10]
    BY <2>1, Lowered, UnitsInOrder
  <2> QED  BY <2>2, <2>3
<1>4. \A i, j \in 1..10 : LowerCase[SeedUnits[i]] = LowerCase[SeedUnits[j]] => i = j
  <2>1. \A i, j \in 1..10 : Low[i] = Low[j] => i = j
    OBVIOUS
  <2> HIDE DEF Low
  <2> QED  BY <1>3, <2>1
<1>5. \A i \in 1..10 : SlugifyUnit[SeedUnits[i]] =
        IF LowerCase[SeedUnits[i]] = "mg/l" THEN "mg_l" ELSE LowerCase[SeedUnits[i]]
  BY Notations DEF AllNotations, SlugifyUnit
<1>6. \A i \in 1..10 : LowerCase[SeedUnits[i]] # "mg_l"
  <2>1. \A i \in 1..10 : Low[i] # "mg_l"
    OBVIOUS
  <2> HIDE DEF Low
  <2> QED  BY <1>3, <2>1
<1> QED  BY <1>1, <1>2, <1>4, <1>5, <1>6

\* The rows that the seeds make of the parameters: no two share an id or a slug.
LEMMA SeededParameterRows ==
    /\ \A p \in SeededParameters(Slugs) :
         /\ p \in [id : Nat \ {0}, slug : ParameterKey(0)] /\ p.slug \in Slugs
    /\ \A p, q \in SeededParameters(Slugs) :
         p.id = q.id \/ p.slug = q.slug => p = q
<1> DEFINE used == {j \in DOMAIN SeedParameters : SeedParameters[j] \in Slugs}
           Row(i) == [id |-> Place(SeedParameters, Slugs, i),
                      slug |-> SeedParameters[i]]
<1>1. \A p \in SeededParameters(Slugs) : \E i \in used : p = Row(i)
  BY DEF SeededParameters
<1>2. used \subseteq 1..10
  BY SeedsDiffer
<1>3. \A i \in used : SeedParameters[i] \in Slugs
  BY <1>2
<1>4. \A i, k \in used :
        /\ Place(SeedParameters, Slugs, i) \in Nat \ {0}
        /\ Place(SeedParameters, Slugs, i) = Place(SeedParameters, Slugs, k) => i = k
  BY <1>2, PlacesDiffer
<1>5. \A i, k \in used : SeedParameters[i] = SeedParameters[k] => i = k
  BY <1>2, SeedsDiffer
<1>6. \A i \in used : SeedParameters[i] \in ParameterKey(0)
  BY DEF ParameterKey
<1> HIDE DEF used
<1> QED  BY <1>1, <1>3, <1>4, <1>5, <1>6

\* The rows that the seeds make of the units: finitely many, each with the slug
\* of its notation, and no two share an id, a slug or a notation but for case.
LEMMA SeededUnitRows ==
    /\ IsFiniteSet(SeededUnits(Slugs))
    /\ \A u \in SeededUnits(Slugs) :
         /\ u \in [id : Nat \ {0}, slug : AllNotations, unit : AllNotations]
         /\ u.slug = SlugifyUnit[u.unit]
         /\ u.unit \in UsedUnits(Slugs)
    /\ \A u, v \in SeededUnits(Slugs) :
         \/ u.id = v.id \/ u.slug = v.slug \/ LowerCase[u.unit] = LowerCase[v.unit]
         => u = v
<1> DEFINE slugs == UsedUnits(Slugs)
           used == {j \in DOMAIN SeedUnits : SeedUnits[j] \in slugs}
           Row(i) == [id |-> Place(SeedUnits, slugs, i),
                      slug |-> SlugifyUnit[SeedUnits[i]], unit |-> SeedUnits[i]]
<1>1. SeededUnits(Slugs) = {Row(i) : i \in used}
  BY DEF SeededUnits
<1>2. used \subseteq 1..10
  BY Notations
<1>3. \A i \in used : SeedUnits[i] \in AllNotations /\ SeedUnits[i] \in slugs
  BY <1>2 DEF AllNotations
<1>4. \A n \in AllNotations : SlugifyUnit[n] \in AllNotations
  BY Notations DEF SlugifyUnit, LowerCase
<1>5. \A i, k \in used :
        /\ Place(SeedUnits, slugs, i) \in Nat \ {0}
        /\ Place(SeedUnits, slugs, i) = Place(SeedUnits, slugs, k) => i = k
  BY <1>2, PlacesDiffer
<1>6. \A i, k \in used :
        \/ LowerCase[SeedUnits[i]] = LowerCase[SeedUnits[k]]
        \/ SlugifyUnit[SeedUnits[i]] = SlugifyUnit[SeedUnits[k]]
        => i = k
  BY <1>2, SeedsDiffer
<1>7. IsFiniteSet(used)
  <2>1. \A n \in Nat : IsFiniteSet(1..n)
    BY FS_Interval
  <2> QED  BY <2>1, <1>2, FS_Subset
<1> HIDE DEF used, slugs
<1>8. IsFiniteSet(SeededUnits(Slugs))
  <2> DEFINE f == [i \in used |-> Row(i)]
  <2>1. f \in Surjection(used, {Row(i) : i \in used})
    BY DEF Surjection
  <2> QED  BY <2>1, <1>1, <1>7, FS_Surjection
<1>9. \A u \in SeededUnits(Slugs) : \E i \in used : u = Row(i)
  BY <1>1
<1>10. \A u \in SeededUnits(Slugs) :
         /\ u \in [id : Nat \ {0}, slug : AllNotations, unit : AllNotations]
         /\ u.slug = SlugifyUnit[u.unit]
         /\ u.unit \in slugs
  BY <1>9, <1>3, <1>4, <1>5
<1>11. \A u, v \in SeededUnits(Slugs) :
         \/ u.id = v.id \/ u.slug = v.slug \/ LowerCase[u.unit] = LowerCase[v.unit]
         => u = v
  BY <1>9, <1>5, <1>6
<1> QED  BY <1>8, <1>10, <1>11 DEF slugs

\* What the seeds of associations are: a parameter, the notation of a seeded
\* unit, and whether it is the canonical one.
LEMMA SeedsListed ==
    \A a \in SeedParameterUnits :
      /\ a = <<a[1], a[2], a[3]>> /\ a[3] \in BOOLEAN
      /\ \E i \in DOMAIN SeedUnits : SeedUnits[i] = a[2]
<1> TAKE a \in SeedParameterUnits
<1> DEFINE Five == {"phosphate", "calcium", "nitrite", "nitrate", "magnesium"}
           One == {<<"salinity", "ppt", TRUE>>, <<"salinity", "sg", FALSE>>,
                   <<"temperature", "celsius", TRUE>>,
                   <<"temperature", "fahrenheit", FALSE>>,
                   <<"ammonia", "mg/L", TRUE>>, <<"ph", "pH", TRUE>>,
                   <<"alkalinity", "dKH", TRUE>>}
           Names == {"ppt", "sg", "celsius", "fahrenheit", "mg/L", "pH", "dKH", "ppm"}
           flagged == a[3] \in BOOLEAN
           listed == a = <<a[1], a[2], a[3]>> /\ a[2] \in Names
<1>1. a \in One \/ a \in Five \X {"ppm"} \X {TRUE}
  BY Zenon DEF SeedParameterUnits
<1>2. ASSUME a \in Five \X {"ppm"} \X {TRUE} PROVE listed /\ flagged
  <2> HIDE DEF Five, One
  <2>1. a = <<a[1], a[2], a[3]>>
    BY <1>2
  <2>2. a[2] = "ppm" /\ a[3] = TRUE
    BY <1>2
  <2> QED  BY <2>1, <2>2
<1>3. ASSUME NEW x, NEW y \in Names, NEW z, a = <<x, y, z>> PROVE listed
  BY <1>3
<1>4. ASSUME NEW x, NEW y, a = <<x, y, TRUE>> PROVE flagged
  BY <1>4
<1>5. ASSUME NEW x, NEW y, a = <<x, y, FALSE>> PROVE flagged
  BY <1>5
<1>6. /\ "ppt" \in Names /\ "sg" \in Names /\ "celsius" \in Names
      /\ "fahrenheit" \in Names /\ "mg/L" \in Names /\ "pH" \in Names /\ "dKH" \in Names
  OBVIOUS
<1>7. ASSUME a \in One PROVE listed /\ flagged
  <2> HIDE DEF listed, flagged, Names
  <2>1. listed
    BY <1>3, <1>6, <1>7, Zenon
  <2>2. flagged
    BY <1>4, <1>5, <1>7, Zenon
  <2> QED  BY <2>1, <2>2
<1>8. \A n \in Names : \E i \in DOMAIN SeedUnits : SeedUnits[i] = n
  <2>1. \A i \in 1..10 : i \in DOMAIN SeedUnits
    BY Notations, Zenon
  <2> QED  BY <2>1, UnitsInOrder
<1> HIDE DEF One, Five
<1>9. listed /\ flagged
  BY <1>1, <1>2, <1>7
<1> QED  BY <1>8, <1>9

\* Every unit that is used is seeded.
LEMMA UsedAreSeeded ==
    \A n \in UsedUnits(Slugs) : \E u \in SeededUnits(Slugs) : u.unit = n
<1> TAKE n \in UsedUnits(Slugs)
<1>1. PICK a \in SeedParameterUnits : n = a[2]
  BY Zenon DEF UsedUnits
<1>2. PICK i \in DOMAIN SeedUnits : SeedUnits[i] = n
  BY <1>1, SeedsListed
<1> DEFINE used == UsedUnits(Slugs)
           u == [id |-> Place(SeedUnits, used, i), slug |-> SlugifyUnit[SeedUnits[i]],
                 unit |-> SeedUnits[i]]
<1>3. u \in SeededUnits(Slugs)
  BY <1>2 DEF SeededUnits
<1> QED  BY <1>2, <1>3

\* Every parameter that is modelled is seeded, and no other.
LEMMA SeededParametersAll ==
    {p.slug : p \in SeededParameters(Slugs)} = Slugs
<1>1. \A p \in SeededParameters(Slugs) : p.slug \in Slugs
  BY SeededParameterRows
<1>2. ASSUME NEW s \in Slugs PROVE \E p \in SeededParameters(Slugs) : p.slug = s
  <2>1. PICK i \in DOMAIN SeedParameters : SeedParameters[i] = s
    BY StartupAssumption DEF ParameterKey
  <2> DEFINE p == [id |-> Place(SeedParameters, Slugs, i), slug |-> SeedParameters[i]]
  <2>2. p \in SeededParameters(Slugs)
    BY <2>1 DEF SeededParameters
  <2> QED  BY <2>1, <2>2
<1> QED  BY <1>1, <1>2

-----------------------------------------------------------------------------
(* The columns of a database, and what each revision changes of them.      *)

\* A database is a record of these columns.
Columns == {"rev", "tables", "uuids", "parameters", "units", "parameterUnits",
            "readings", "thresholds"}
\* d has these columns.
Fields(d) == d = [f \in Columns |-> d[f]]
\* e differs from d at most in the columns F.
Only(F, d, e) == Fields(e) /\ \A f \in Columns \ F : e[f] = d[f]
\* The columns of a database of revision n: Database(n), one by one.
Typed(n, d) ==
    /\ d.rev = n /\ d.tables \subseteq Tables
    /\ d.uuids = IF n >= 7 THEN IdColumns ELSE {}
    /\ d.parameters \subseteq SeededParameters(Slugs)
    /\ d.units \subseteq UnitRows(n)
    /\ d.parameterUnits \subseteq AssociationRows
    /\ d.readings \subseteq ReadingRows(n)
    /\ d.thresholds \subseteq ThresholdRows(n)

\* A database of revision n has these columns and no others.
LEMMA DatabaseFields ==
    ASSUME NEW n, NEW d
    PROVE  d \in Database(n) <=> Fields(d) /\ Typed(n, d)
<1>1. ASSUME d \in Database(n) PROVE Fields(d) /\ Typed(n, d)
  BY <1>1 DEF Typed, Database, Fields, Columns
<1>2. ASSUME Fields(d), Typed(n, d) PROVE d \in Database(n)
  BY <1>2 DEF Fields, Database, Typed, Columns
<1> QED  BY <1>1, <1>2

\* What the upgrade to revision 7 changes.
LEMMA UpgradeUuidsColumns ==
    ASSUME NEW d, Fields(d), d.rev = 6
    PROVE  LET e == Upgraded(d) IN
           /\ Only({"rev", "uuids"}, d, e) /\ e.rev = 7
           /\ e.uuids = IdColumns
<1> DEFINE A == IdColumns
           e == [[d EXCEPT !.uuids = A] EXCEPT !.rev = @ + 1]
<1>1. Upgraded(d) = [ConvertIdsToUuid(d) EXCEPT !.rev = @ + 1]
  BY d.rev = 6 DEF Upgraded
<1>2. ConvertIdsToUuid(d) = [d EXCEPT !.uuids = A]
  BY DEF ConvertIdsToUuid
<1> HIDE DEF A
<1>3. /\ Only({"rev", "uuids"}, d, e) /\ e.rev = d.rev + 1
      /\ e.uuids = A
  BY DEF Only, Fields, Columns
<1>4. Upgraded(d) = e
  BY <1>1, <1>2, Zenon
<1> HIDE DEF e
<1>5. e.rev = 7
  BY <1>3, d.rev = 6
<1> QED  BY <1>3, <1>4, <1>5, Zenon DEF A

\* What the upgrade to revision 8 changes.
LEMMA UpgradeParameterFkColumns ==
    ASSUME NEW d, Fields(d), d.rev = 7
    PROVE  LET e == Upgraded(d) IN
           /\ Only({"rev", "readings", "thresholds"}, d, e) /\ e.rev = 8
           /\ e.readings =
              {[m EXCEPT !.parameter = ParameterId(d, @)] : m \in d.readings}
           /\ e.thresholds =
              {[t EXCEPT !.parameter = ParameterId(d, @)] : t \in d.thresholds}
<1> DEFINE A == {[m EXCEPT !.parameter = ParameterId(d, @)] : m \in d.readings}
           B == {[t EXCEPT !.parameter = ParameterId(d, @)] : t \in d.thresholds}
           e == [[d EXCEPT !.readings = A, !.thresholds = B] EXCEPT !.rev = @ + 1]
<1>1. Upgraded(d) = [ParameterFkToId(d) EXCEPT !.rev = @ + 1]
  BY d.rev = 7 DEF Upgraded
<1>2. ParameterFkToId(d) = [d EXCEPT !.readings = A, !.thresholds = B]
  BY DEF ParameterFkToId
<1> HIDE DEF A, B
<1>3. /\ Only({"rev", "readings", "thresholds"}, d, e) /\ e.rev = d.rev + 1
      /\ e.readings = A /\ e.thresholds = B
  BY DEF Only, Fields, Columns
<1>4. Upgraded(d) = e
  BY <1>1, <1>2, Zenon
<1> HIDE DEF e
<1>5. e.rev = 8
  BY <1>3, d.rev = 7
<1> QED  BY <1>3, <1>4, <1>5, Zenon DEF A, B

\* What the upgrade to revision 10 changes.
LEMMA UpgradeMeasurementFkColumns ==
    ASSUME NEW d, Fields(d), d.rev = 9
    PROVE  LET e == Upgraded(d) IN
           /\ Only({"rev", "readings"}, d, e) /\ e.rev = 10
           /\ e.readings =
              {[m EXCEPT !.unit = UnitId(d, @), !.raw = UnitId(d, @)] :
                 m \in d.readings}
<1> DEFINE A == {[m EXCEPT !.unit = UnitId(d, @), !.raw = UnitId(d, @)] :
                   m \in d.readings}
           e == [[d EXCEPT !.readings = A] EXCEPT !.rev = @ + 1]
<1>1. Upgraded(d) = [MeasurementUnitFk(d) EXCEPT !.rev = @ + 1]
  BY d.rev = 9 DEF Upgraded
<1>2. MeasurementUnitFk(d) = [d EXCEPT !.readings = A]
  BY DEF MeasurementUnitFk
<1> HIDE DEF A
<1>3. /\ Only({"rev", "readings"}, d, e) /\ e.rev = d.rev + 1
      /\ e.readings = A
  BY DEF Only, Fields, Columns
<1>4. Upgraded(d) = e
  BY <1>1, <1>2, Zenon
<1> HIDE DEF e
<1>5. e.rev = 10
  BY <1>3, d.rev = 9
<1> QED  BY <1>3, <1>4, <1>5, Zenon DEF A

\* What the upgrade to revision 11 changes.
LEMMA UpgradeSlugsColumns ==
    ASSUME NEW d, Fields(d), d.rev = 10
    PROVE  LET e == Upgraded(d) IN
           /\ Only({"rev", "units"}, d, e) /\ e.rev = 11
           /\ e.units = {[u EXCEPT !.unit = Renamed(u.slug), !.slug = SlugifyUnit[@]] :
                          u \in d.units}
<1> DEFINE A == {[u EXCEPT !.unit = Renamed(u.slug), !.slug = SlugifyUnit[@]] :
                   u \in d.units}
           e == [[d EXCEPT !.units = A] EXCEPT !.rev = @ + 1]
<1>1. Upgraded(d) = [NormalizeSlug(d) EXCEPT !.rev = @ + 1]
  BY d.rev = 10 DEF Upgraded
<1>2. NormalizeSlug(d) = [d EXCEPT !.units = A]
  BY DEF NormalizeSlug
<1> HIDE DEF A
<1>3. /\ Only({"rev", "units"}, d, e) /\ e.rev = d.rev + 1
      /\ e.units = A
  BY DEF Only, Fields, Columns
<1>4. Upgraded(d) = e
  BY <1>1, <1>2, Zenon
<1> HIDE DEF e
<1>5. e.rev = 11
  BY <1>3, d.rev = 10
<1> QED  BY <1>3, <1>4, <1>5, Zenon DEF A

\* What the downgrade from revision 7 changes.
LEMMA DowngradeUuidsColumns ==
    ASSUME NEW d, Fields(d), d.rev = 7
    PROVE  LET e == Downgraded(d) IN
           /\ Only({"rev", "uuids"}, d, e) /\ e.rev = 6
           /\ e.uuids = {}
<1> DEFINE A == {}
           e == [[d EXCEPT !.uuids = A] EXCEPT !.rev = @ - 1]
<1>1. Downgraded(d) = [ConvertIdsToText(d) EXCEPT !.rev = @ - 1]
  BY d.rev = 7 DEF Downgraded
<1>2. ConvertIdsToText(d) = [d EXCEPT !.uuids = A]
  BY DEF ConvertIdsToText
<1> HIDE DEF A
<1>3. /\ Only({"rev", "uuids"}, d, e) /\ e.rev = d.rev - 1
      /\ e.uuids = A
  BY DEF Only, Fields, Columns
<1>4. Downgraded(d) = e
  BY <1>1, <1>2, Zenon
<1> HIDE DEF e
<1>5. e.rev = 6
  BY <1>3, d.rev = 7
<1> QED  BY <1>3, <1>4, <1>5, Zenon DEF A

\* What the downgrade from revision 8 changes.
LEMMA DowngradeParameterFkColumns ==
    ASSUME NEW d, Fields(d), d.rev = 8
    PROVE  LET e == Downgraded(d) IN
           /\ Only({"rev", "readings", "thresholds"}, d, e) /\ e.rev = 7
           /\ e.readings =
              {[m EXCEPT !.parameter = ParameterSlug(d, @)] : m \in d.readings}
           /\ e.thresholds =
              {[t EXCEPT !.parameter = ParameterSlug(d, @)] : t \in d.thresholds}
<1> DEFINE A == {[m EXCEPT !.parameter = ParameterSlug(d, @)] : m \in d.readings}
           B == {[t EXCEPT !.parameter = ParameterSlug(d, @)] : t \in d.thresholds}
           e == [[d EXCEPT !.readings = A, !.thresholds = B] EXCEPT !.rev = @ - 1]
<1>1. Downgraded(d) = [ParameterFkToSlug(d) EXCEPT !.rev = @ - 1]
  BY d.rev = 8 DEF Downgraded
<1>2. ParameterFkToSlug(d) = [d EXCEPT !.readings = A, !.thresholds = B]
  BY DEF ParameterFkToSlug
<1> HIDE DEF A, B
<1>3. /\ Only({"rev", "readings", "thresholds"}, d, e) /\ e.rev = d.rev - 1
      /\ e.readings = A /\ e.thresholds = B
  BY DEF Only, Fields, Columns
<1>4. Downgraded(d) = e
  BY <1>1, <1>2, Zenon
<1> HIDE DEF e
<1>5. e.rev = 7
  BY <1>3, d.rev = 8
<1> QED  BY <1>3, <1>4, <1>5, Zenon DEF A, B

\* What the downgrade from revision 10 changes.
LEMMA DowngradeMeasurementFkColumns ==
    ASSUME NEW d, Fields(d), d.rev = 10
    PROVE  LET e == Downgraded(d) IN
           /\ Only({"rev", "readings"}, d, e) /\ e.rev = 9
           /\ e.readings =
              {[m EXCEPT !.unit = UnitSlug(d, @), !.raw = UnitSlug(d, @)] :
                 m \in d.readings}
<1> DEFINE A == {[m EXCEPT !.unit = UnitSlug(d, @), !.raw = UnitSlug(d, @)] :
                   m \in d.readings}
           e == [[d EXCEPT !.readings = A] EXCEPT !.rev = @ - 1]
<1>1. Downgraded(d) = [MeasurementUnitNotation(d) EXCEPT !.rev = @ - 1]
  BY d.rev = 10 DEF Downgraded
<1>2. MeasurementUnitNotation(d) = [d EXCEPT !.readings = A]
  BY DEF MeasurementUnitNotation
<1> HIDE DEF A
<1>3. /\ Only({"rev", "readings"}, d, e) /\ e.rev = d.rev - 1
      /\ e.readings = A
  BY DEF Only, Fields, Columns
<1>4. Downgraded(d) = e
  BY <1>1, <1>2, Zenon
<1> HIDE DEF e
<1>5. e.rev = 9
  BY <1>3, d.rev = 10
<1> QED  BY <1>3, <1>4, <1>5, Zenon DEF A

\* What the downgrade from revision 11 changes.
LEMMA DowngradeSlugsColumns ==
    ASSUME NEW d, Fields(d), d.rev = 11
    PROVE  LET e == Downgraded(d) IN
           /\ Only({"rev", "units"}, d, e) /\ e.rev = 10
           /\ e.units = {[u EXCEPT !.slug = u.unit, !.unit = NoName] : u \in d.units}
<1> DEFINE A == {[u EXCEPT !.slug = u.unit, !.unit = NoName] : u \in d.units}
           e == [[d EXCEPT !.units = A] EXCEPT !.rev = @ - 1]
<1>1. Downgraded(d) = [NotationToSlug(d) EXCEPT !.rev = @ - 1]
  BY d.rev = 11 DEF Downgraded
<1>2. NotationToSlug(d) = [d EXCEPT !.units = A]
  BY DEF NotationToSlug
<1> HIDE DEF A
<1>3. /\ Only({"rev", "units"}, d, e) /\ e.rev = d.rev - 1
      /\ e.units = A
  BY DEF Only, Fields, Columns
<1>4. Downgraded(d) = e
  BY <1>1, <1>2, Zenon
<1> HIDE DEF e
<1>5. e.rev = 10
  BY <1>3, d.rev = 11
<1> QED  BY <1>3, <1>4, <1>5, Zenon DEF A

\* What the upgrade to revision 6 changes.
LEMMA UpgradeCatalogColumns ==
    ASSUME NEW d, Fields(d), d.rev = 5
    PROVE  LET e == Upgraded(d) IN
           /\ Only({"rev", "tables", "parameters"}, d, e) /\ e.rev = 6
           /\ e.tables = d.tables \cup {"parameters"}
           /\ e.parameters = SeededParameters(Slugs)
<1> DEFINE A == d.tables \cup {"parameters"}
           B == SeededParameters(Slugs)
           e == [[d EXCEPT !.tables = A, !.parameters = B] EXCEPT !.rev = @ + 1]
<1>1. Upgraded(d) = [AddParameterCatalog(d) EXCEPT !.rev = @ + 1]
  BY d.rev = 5 DEF Upgraded
<1>2. AddParameterCatalog(d) = [d EXCEPT !.tables = A, !.parameters = B]
  BY DEF AddParameterCatalog, WithTables
<1> HIDE DEF A, B
<1>3. /\ Only({"rev", "tables", "parameters"}, d, e) /\ e.rev = d.rev + 1
      /\ e.tables = A /\ e.parameters = B
  BY DEF Only, Fields, Columns
<1>4. Upgraded(d) = e
  BY <1>1, <1>2, Zenon
<1> HIDE DEF e
<1>5. e.rev = 6
  BY <1>3, d.rev = 5
<1> QED  BY <1>3, <1>4, <1>5, Zenon DEF A, B

\* What the upgrade to revision 9 changes.
LEMMA UpgradeUnitCatalogColumns ==
    ASSUME NEW d, Fields(d), d.rev = 8
    PROVE  LET e == Upgraded(d) IN
           /\ Only({"rev", "tables", "units", "parameterUnits"}, d, e) /\ e.rev = 9
           /\ e.tables = d.tables \cup {"units", "parameter_units"}
           /\ e.units = {[id |-> u.id, slug |-> u.unit, unit |-> NoName] :
                          u \in SeededUnits(Slugs)}
           /\ e.parameterUnits = Associations(d.parameters, SeededUnits(Slugs))
<1> DEFINE A == d.tables \cup {"units", "parameter_units"}
           B == {[id |-> u.id, slug |-> u.unit, unit |-> NoName] :
                   u \in SeededUnits(Slugs)}
           C == Associations(d.parameters, SeededUnits(Slugs))
           e == [[d EXCEPT !.tables = A, !.units = B, !.parameterUnits = C]
                   EXCEPT !.rev = @ + 1]
<1>1. Upgraded(d) = [AddUnitCatalog(d) EXCEPT !.rev = @ + 1]
  BY d.rev = 8 DEF Upgraded
<1>2. AddUnitCatalog(d) = [d EXCEPT !.tables = A, !.units = B, !.parameterUnits = C]
  BY DEF AddUnitCatalog, WithTables
<1> HIDE DEF A, B, C
<1>3. /\ Only({"rev", "tables", "units", "parameterUnits"}, d, e) /\ e.rev = d.rev + 1
      /\ e.tables = A /\ e.units = B /\ e.parameterUnits = C
  BY DEF Only, Fields, Columns
<1>4. Upgraded(d) = e
  BY <1>1, <1>2, Zenon
<1> HIDE DEF e
<1>5. e.rev = 9
  BY <1>3, d.rev = 8
<1> QED  BY <1>3, <1>4, <1>5, Zenon DEF A, B, C

\* What the downgrade from revision 3 changes.
LEMMA DowngradeMeasurementsColumns ==
    ASSUME NEW d, Fields(d), d.rev = 3
    PROVE  LET e == Downgraded(d) IN
           /\ Only({"rev", "tables", "readings"}, d, e) /\ e.rev = 2
           /\ e.tables = d.tables \ {"aquarium_measurements"}
           /\ e.readings = {}
<1> DEFINE A == d.tables \ {"aquarium_measurements"}
           B == {}
           e == [[d EXCEPT !.tables = A, !.readings = B] EXCEPT !.rev = @ - 1]
<1>1. Downgraded(d) = [DropMeasurements(d) EXCEPT !.rev = @ - 1]
  BY d.rev = 3 DEF Downgraded
<1>2. DropMeasurements(d) = [d EXCEPT !.tables = A, !.readings = B]
  BY DEF DropMeasurements, WithoutTables
<1> HIDE DEF A, B
<1>3. /\ Only({"rev", "tables", "readings"}, d, e) /\ e.rev = d.rev - 1
      /\ e.tables = A /\ e.readings = B
  BY DEF Only, Fields, Columns
<1>4. Downgraded(d) = e
  BY <1>1, <1>2, Zenon
<1> HIDE DEF e
<1>5. e.rev = 2
  BY <1>3, d.rev = 3
<1> QED  BY <1>3, <1>4, <1>5, Zenon DEF A, B

\* What the downgrade from revision 5 changes.
LEMMA DowngradeThresholdsColumns ==
    ASSUME NEW d, Fields(d), d.rev = 5
    PROVE  LET e == Downgraded(d) IN
           /\ Only({"rev", "tables", "thresholds"}, d, e) /\ e.rev = 4
           /\ e.tables = d.tables \ {"aquarium_parameter_thresholds"}
           /\ e.thresholds = {}
<1> DEFINE A == d.tables \ {"aquarium_parameter_thresholds"}
           B == {}
           e == [[d EXCEPT !.tables = A, !.thresholds = B] EXCEPT !.rev = @ - 1]
<1>1. Downgraded(d) = [DropThresholds(d) EXCEPT !.rev = @ - 1]
  BY d.rev = 5 DEF Downgraded
<1>2. DropThresholds(d) = [d EXCEPT !.tables = A, !.thresholds = B]
  BY DEF DropThresholds, WithoutTables
<1> HIDE DEF A, B
<1>3. /\ Only({"rev", "tables", "thresholds"}, d, e) /\ e.rev = d.rev - 1
      /\ e.tables = A /\ e.thresholds = B
  BY DEF Only, Fields, Columns
<1>4. Downgraded(d) = e
  BY <1>1, <1>2, Zenon
<1> HIDE DEF e
<1>5. e.rev = 4
  BY <1>3, d.rev = 5
<1> QED  BY <1>3, <1>4, <1>5, Zenon DEF A, B

\* What the downgrade from revision 6 changes.
LEMMA DowngradeCatalogColumns ==
    ASSUME NEW d, Fields(d), d.rev = 6
    PROVE  LET e == Downgraded(d) IN
           /\ Only({"rev", "tables", "parameters"}, d, e) /\ e.rev = 5
           /\ e.tables = d.tables \ {"parameters"}
           /\ e.parameters = {}
<1> DEFINE A == d.tables \ {"parameters"}
           B == {}
           e == [[d EXCEPT !.tables = A, !.parameters = B] EXCEPT !.rev = @ - 1]
<1>1. Downgraded(d) = [DropParameterCatalog(d) EXCEPT !.rev = @ - 1]
  BY d.rev = 6 DEF Downgraded
<1>2. DropParameterCatalog(d) = [d EXCEPT !.tables = A, !.parameters = B]
  BY DEF DropParameterCatalog, WithoutTables
<1> HIDE DEF A, B
<1>3. /\ Only({"rev", "tables", "parameters"}, d, e) /\ e.rev = d.rev - 1
      /\ e.tables = A /\ e.parameters = B
  BY DEF Only, Fields, Columns
<1>4. Downgraded(d) = e
  BY <1>1, <1>2, Zenon
<1> HIDE DEF e
<1>5. e.rev = 5
  BY <1>3, d.rev = 6
<1> QED  BY <1>3, <1>4, <1>5, Zenon DEF A, B

\* What the downgrade from revision 9 changes.
LEMMA DowngradeUnitCatalogColumns ==
    ASSUME NEW d, Fields(d), d.rev = 9
    PROVE  LET e == Downgraded(d) IN
           /\ Only({"rev", "tables", "units", "parameterUnits"}, d, e) /\ e.rev = 8
           /\ e.tables = d.tables \ {"units", "parameter_units"}
           /\ e.units = {}
           /\ e.parameterUnits = {}
<1> DEFINE A == d.tables \ {"units", "parameter_units"}
           B == {}
           C == {}
           e == [[d EXCEPT !.tables = A, !.units = B, !.parameterUnits = C]
                   EXCEPT !.rev = @ - 1]
<1>1. Downgraded(d) = [DropUnitCatalog(d) EXCEPT !.rev = @ - 1]
  BY d.rev = 9 DEF Downgraded
<1>2. DropUnitCatalog(d) = [d EXCEPT !.tables = A, !.units = B, !.parameterUnits = C]
  BY DEF DropUnitCatalog, WithoutTables
<1> HIDE DEF A, B, C
<1>3. /\ Only({"rev", "tables", "units", "parameterUnits"}, d, e) /\ e.rev = d.rev - 1
      /\ e.tables = A /\ e.units = B /\ e.parameterUnits = C
  BY DEF Only, Fields, Columns
<1>4. Downgraded(d) = e
  BY <1>1, <1>2, Zenon
<1> HIDE DEF e
<1>5. e.rev = 8
  BY <1>3, d.rev = 9
<1> QED  BY <1>3, <1>4, <1>5, Zenon DEF A, B, C

\* What the upgrades to revisions 1 to 5 change: each adds a table or a column.
LEMMA UpgradeTablesColumns ==
    ASSUME NEW d, Fields(d), d.rev \in 0..4
    PROVE  LET e == Upgraded(d) IN
           /\ Only({"rev", "tables"}, d, e) /\ e.rev = d.rev + 1
           /\ \E name \in Tables : e.tables = d.tables \cup {name}
           /\ d.rev = 0 => "users" \in e.tables
<1>1. PICK name \in Tables :
        /\ Upgraded(d) = [WithTables(d, {name}) EXCEPT !.rev = @ + 1]
        /\ d.rev = 0 => name = "users"
  <2>1. CASE d.rev = 0
    <3>1. Upgraded(d) = [CreateUsers(d) EXCEPT !.rev = @ + 1]
      BY <2>1 DEF Upgraded
    <3> QED  BY <3>1 DEF CreateUsers, Tables
  <2>2. CASE d.rev = 1
    <3>1. Upgraded(d) = [CreateAquariums(d) EXCEPT !.rev = @ + 1]
      BY <2>2 DEF Upgraded
    <3> QED  BY <3>1, <2>2 DEF CreateAquariums, Tables
  <2>3. CASE d.rev = 2
    <3>1. Upgraded(d) = [CreateMeasurements(d) EXCEPT !.rev = @ + 1]
      BY <2>3 DEF Upgraded
    <3> QED  BY <3>1, <2>3 DEF CreateMeasurements, Tables
  <2>4. CASE d.rev = 3
    <3>1. Upgraded(d) = [AddUsername(d) EXCEPT !.rev = @ + 1]
      BY <2>4 DEF Upgraded
    <3> QED  BY <3>1, <2>4 DEF AddUsername, Tables
  <2>5. CASE d.rev = 4
    <3>1. Upgraded(d) = [AddThresholds(d) EXCEPT !.rev = @ + 1]
      BY <2>5 DEF Upgraded
    <3> QED  BY <3>1, <2>5 DEF AddThresholds, Tables
  <2>6. d.rev = 0 \/ d.rev = 1 \/ d.rev = 2 \/ d.rev = 3 \/ d.rev = 4
    OBVIOUS
  <2> QED  BY <2>1, <2>2, <2>3, <2>4, <2>5, <2>6, Zenon
<1> DEFINE A == d.tables \cup {name}
           e == [[d EXCEPT !.tables = A] EXCEPT !.rev = @ + 1]
<1>2. WithTables(d, {name}) = [d EXCEPT !.tables = A]
  BY DEF WithTables
<1> HIDE DEF A
<1>3. Only({"rev", "tables"}, d, e) /\ e.rev = d.rev + 1 /\ e.tables = A
  BY DEF Only, Fields, Columns
<1>4. Upgraded(d) = e
  BY <1>1, <1>2, Zenon
<1> HIDE DEF e
<1>5. d.rev = 0 => "users" \in A
  BY <1>1 DEF A
<1> QED  BY <1>3, <1>4, <1>5, Zenon DEF A

\* What the downgrades from revisions 1, 2 and 4 change.
LEMMA DowngradeTablesColumns ==
    ASSUME NEW d, Fields(d), d.rev \in {1, 2, 4}
    PROVE  LET e == Downgraded(d) IN
           /\ Only({"rev", "tables"}, d, e) /\ e.rev = d.rev - 1
           /\ e.tables \subseteq d.tables
           /\ d.rev # 1 /\ "users" \in d.tables => "users" \in e.tables
<1>1. PICK name \in Tables :
        /\ Downgraded(d) = [WithoutTables(d, {name}) EXCEPT !.rev = @ - 1]
        /\ d.rev # 1 => name # "users"
  <2>1. CASE d.rev = 1
    <3>1. Downgraded(d) = [DropUsers(d) EXCEPT !.rev = @ - 1]
      BY <2>1 DEF Downgraded
    <3> QED  BY <3>1, <2>1 DEF DropUsers, Tables
  <2>2. CASE d.rev = 2
    <3>1. Downgraded(d) = [DropAquariums(d) EXCEPT !.rev = @ - 1]
      BY <2>2 DEF Downgraded
    <3> QED  BY <3>1, <2>2 DEF DropAquariums, Tables
  <2>3. CASE d.rev = 4
    <3>1. Downgraded(d) = [DropUsername(d) EXCEPT !.rev = @ - 1]
      BY <2>3 DEF Downgraded
    <3> QED  BY <3>1, <2>3 DEF DropUsername, Tables
  <2>4. d.rev = 1 \/ d.rev = 2 \/ d.rev = 4
    OBVIOUS
  <2> QED  BY <2>1, <2>2, <2>3, <2>4, Zenon
<1> DEFINE A == d.tables \ {name}
           e == [[d EXCEPT !.tables = A] EXCEPT !.rev = @ - 1]
<1>2. WithoutTables(d, {name}) = [d EXCEPT !.tables = A]
  BY DEF WithoutTables
<1> HIDE DEF A
<1>3. Only({"rev", "tables"}, d, e) /\ e.rev = d.rev - 1 /\ e.tables = A
  BY DEF Only, Fields, Columns
<1>4. Downgraded(d) = e
  BY <1>1, <1>2, Zenon
<1> HIDE DEF e
<1>5. /\ A \subseteq d.tables
      /\ d.rev # 1 /\ "users" \in d.tables => "users" \in A
  BY <1>1 DEF A
<1> QED  BY <1>3, <1>4, <1>5, Zenon

-----------------------------------------------------------------------------
(* What readings and thresholds say.                                       *)

\* Readings rewritten one by one, each to say what it said, say what they said.
LEMMA ReadingsKeepMeaning ==
    ASSUME NEW d, NEW e, NEW f, e.readings = {f[m] : m \in d.readings},
           \A m \in d.readings :
             /\ f[m].id = m.id
             /\ ParameterMeant(e, f[m].parameter) = ParameterMeant(d, m.parameter)
             /\ UnitMeant(e, f[m].unit) = UnitMeant(d, m.unit)
             /\ UnitMeant(e, f[m].raw) = UnitMeant(d, m.raw)
    PROVE  ReadingsMeant(e) = ReadingsMeant(d)
<1> DEFINE Said(c, m) == [id |-> m.id, parameter |-> ParameterMeant(c, m.parameter),
             unit |-> UnitMeant(c, m.unit), raw |-> UnitMeant(c, m.raw)]
<1>1. /\ ReadingsMeant(e) = {Said(e, m) : m \in e.readings}
      /\ ReadingsMeant(d) = {Said(d, m) : m \in d.readings}
  BY DEF ReadingsMeant
<1>2. \A m \in d.readings : Said(e, f[m]) = Said(d, m)
  OBVIOUS
<1> HIDE DEF Said
<1> QED  BY <1>1, <1>2

\* The same of the thresholds.
LEMMA ThresholdsKeepMeaning ==
    ASSUME NEW d, NEW e, NEW f, e.thresholds = {f[t] : t \in d.thresholds},
           \A t \in d.thresholds :
             /\ f[t].id = t.id
             /\ ParameterMeant(e, f[t].parameter) = ParameterMeant(d, t.parameter)
    PROVE  ThresholdsMeant(e) = ThresholdsMeant(d)
<1> DEFINE Said(c, t) == [id |-> t.id, parameter |-> ParameterMeant(c, t.parameter)]
<1>1. /\ ThresholdsMeant(e) = {Said(e, t) : t \in e.thresholds}
      /\ ThresholdsMeant(d) = {Said(d, t) : t \in d.thresholds}
  BY DEF ThresholdsMeant
<1>2. \A t \in d.thresholds : Said(e, f[t]) = Said(d, t)
  OBVIOUS
<1> HIDE DEF Said
<1> QED  BY <1>1, <1>2

\* Rows that stay as they are, and catalogs that answer for them as before.
LEMMA SameRowsKeepMeaning ==
    ASSUME NEW d, NEW e, e.readings = d.readings, e.thresholds = d.thresholds,
           \A m \in d.readings :
             /\ ParameterMeant(e, m.parameter) = ParameterMeant(d, m.parameter)
             /\ UnitMeant(e, m.unit) = UnitMeant(d, m.unit)
             /\ UnitMeant(e, m.raw) = UnitMeant(d, m.raw),
           \A t \in d.thresholds :
             ParameterMeant(e, t.parameter) = ParameterMeant(d, t.parameter)
    PROVE  Meant(e) = Meant(d)
<1> DEFINE f == [m \in d.readings |-> m]  g == [t \in d.thresholds |-> t]
<1>1. /\ e.readings = {f[m] : m \in d.readings}
      /\ e.thresholds = {g[t] : t \in d.thresholds}
  OBVIOUS
<1>2. \A m \in d.readings : f[m] = m
  OBVIOUS
<1>3. \A t \in d.thresholds : g[t] = t
  OBVIOUS
<1> HIDE DEF f, g
<1>4. \A m \in d.readings :
        /\ f[m].id = m.id
        /\ ParameterMeant(e, f[m].parameter) = ParameterMeant(d, m.parameter)
        /\ UnitMeant(e, f[m].unit) = UnitMeant(d, m.unit)
        /\ UnitMeant(e, f[m].raw) = UnitMeant(d, m.raw)
  BY <1>2, Zenon
<1>5. \A t \in d.thresholds :
        /\ g[t].id = t.id
        /\ ParameterMeant(e, g[t].parameter) = ParameterMeant(d, t.parameter)
  BY <1>3, Zenon
<1>6. ReadingsMeant(e) = ReadingsMeant(d)
  BY <1>1, <1>4, ReadingsKeepMeaning, Zenon
<1>7. ThresholdsMeant(e) = ThresholdsMeant(d)
  BY <1>1, <1>5, ThresholdsKeepMeaning, Zenon
<1> QED  BY <1>6, <1>7 DEF Meant

-----------------------------------------------------------------------------
(* Upgrades keep a database well formed, and what its rows say.            *)

\* The columns that are not in F are those of d.
LEMMA OnlyKeeps ==
    ASSUME NEW F, NEW d, NEW e, Only(F, d, e)
    PROVE  /\ Fields(e)
           /\ "tables" \notin F => e.tables = d.tables
           /\ "uuids" \notin F => e.uuids = d.uuids
           /\ "parameters" \notin F => e.parameters = d.parameters
           /\ "units" \notin F => e.units = d.units
           /\ "parameterUnits" \notin F => e.parameterUnits = d.parameterUnits
           /\ "readings" \notin F => e.readings = d.readings
           /\ "thresholds" \notin F => e.thresholds = d.thresholds
           /\ "rev" \notin F => e.rev = d.rev
BY DEF Only, Columns

\* Which revisions have the same rows.
LEMMA RowsOfRevisions ==
    /\ \A n \in 0..6 : /\ ReadingRows(n + 1) = ReadingRows(n)
                       /\ ThresholdRows(n + 1) = ThresholdRows(n)
    /\ \A n \in 8..10 : ThresholdRows(n + 1) = ThresholdRows(n)
    /\ \A n \in {8, 10} : ReadingRows(n + 1) = ReadingRows(n)
    /\ \A n \in 0..9 : UnitRows(n + 1) = UnitRows(n)
BY DEF ReadingRows, ThresholdRows, UnitRows, ParameterKey, UnitKey, Latest

\* Readings and thresholds that name what they are about mean just that.
LEMMA NamesMean ==
    ASSUME NEW d, d.rev \in 0..7
    PROVE  \A x : ParameterMeant(d, x) = x /\ UnitMeant(d, x) = Physical(x)
BY DEF ParameterMeant, UnitMeant

\* Finitely many units, and one for an id.
UnitsSound(d) ==
    IsFiniteSet(d.units) /\ \A u, v \in d.units : u.id = v.id => u = v

\* WellFormed, taken apart.
LEMMA WellFormedParts ==
    ASSUME NEW d
    PROVE  WellFormed(d) <=>
             /\ Fields(d) /\ Typed(d.rev, d) /\ d.rev \in 0..11
             /\ d.rev >= 1 => "users" \in d.tables
             /\ UnitsSound(d)
             /\ Legal(d)
BY DatabaseFields DEF WellFormed, UnitsSound, Latest

\* Revisions 1 to 7 (20260716_000001 to 20260731_000001) add tables, seed the
\* parameters and convert the ids; no row is rewritten.
LEMMA UpgradeEarly ==
    ASSUME NEW d, WellFormed(d), d.rev \in 0..6, Legal(Upgraded(d))
    PROVE  /\ WellFormed(Upgraded(d)) /\ Meant(Upgraded(d)) = Meant(d)
           /\ Upgraded(d).rev = d.rev + 1
<1> DEFINE e == Upgraded(d)
<1>1. /\ Fields(d) /\ Typed(d.rev, d) /\ UnitsSound(d)
      /\ d.rev >= 1 => "users" \in d.tables
  BY WellFormedParts
<1>2. /\ Fields(e) /\ e.rev = d.rev + 1
      /\ e.readings = d.readings /\ e.thresholds = d.thresholds /\ e.units = d.units
      /\ e.parameterUnits = d.parameterUnits
      /\ e.parameters \subseteq SeededParameters(Slugs)
      /\ e.tables \subseteq Tables /\ "users" \in e.tables
      /\ e.uuids = IF e.rev >= 7 THEN IdColumns ELSE {}
  <2>1. CASE d.rev \in 0..4
    <3>1. /\ Only({"rev", "tables"}, d, e) /\ e.rev = d.rev + 1
          /\ \E name \in Tables : e.tables = d.tables \cup {name}
          /\ d.rev = 0 => "users" \in e.tables
      BY <1>1, <2>1, UpgradeTablesColumns
    <3> HIDE DEF e
    <3>2. /\ Fields(e) /\ e.readings = d.readings /\ e.thresholds = d.thresholds
          /\ e.units = d.units /\ e.parameterUnits = d.parameterUnits
          /\ e.parameters = d.parameters /\ e.uuids = d.uuids
      BY <3>1, OnlyKeeps
    <3>3. e.tables \subseteq Tables /\ "users" \in e.tables
      BY <1>1, <2>1, <3>1 DEF Typed
    <3> QED  BY <1>1, <2>1, <3>1, <3>2, <3>3 DEF Typed
  <2>2. CASE d.rev = 5
    <3>1. /\ Only({"rev", "tables", "parameters"}, d, e) /\ e.rev = 6
          /\ e.tables = d.tables \cup {"parameters"}
          /\ e.parameters = SeededParameters(Slugs)
      BY <1>1, <2>2, UpgradeCatalogColumns
    <3> HIDE DEF e
    <3>2. /\ Fields(e) /\ e.readings = d.readings /\ e.thresholds = d.thresholds
          /\ e.units = d.units /\ e.parameterUnits = d.parameterUnits
          /\ e.uuids = d.uuids
      BY <3>1, OnlyKeeps
    <3> QED  BY <1>1, <2>2, <3>1, <3>2 DEF Typed, Tables
  <2>3. CASE d.rev = 6
    <3>1. Only({"rev", "uuids"}, d, e) /\ e.rev = 7 /\ e.uuids = IdColumns
      BY <1>1, <2>3, UpgradeUuidsColumns
    <3> HIDE DEF e
    <3>2. /\ Fields(e) /\ e.readings = d.readings /\ e.thresholds = d.thresholds
          /\ e.units = d.units /\ e.parameterUnits = d.parameterUnits
          /\ e.parameters = d.parameters /\ e.tables = d.tables
      BY <3>1, OnlyKeeps
    <3> QED  BY <1>1, <2>3, <3>1, <3>2 DEF Typed
  <2> QED  BY <2>1, <2>2, <2>3
<1> HIDE DEF e
<1>3. Typed(e.rev, e)
  BY <1>1, <1>2, RowsOfRevisions DEF Typed
<1>4. UnitsSound(e)
  BY <1>1, <1>2 DEF UnitsSound
<1>5. WellFormed(e)
  BY <1>2, <1>3, <1>4, WellFormedParts DEF e
<1>6. \A x : /\ ParameterMeant(e, x) = ParameterMeant(d, x)
             /\ UnitMeant(e, x) = UnitMeant(d, x)
  BY <1>2, NamesMean
<1>7. Meant(e) = Meant(d)
  BY <1>2, <1>6, SameRowsKeepMeaning
<1> QED  BY <1>2, <1>5, <1>7 DEF e

\* Associations are rows of ids.
LEMMA AssociationsTyped ==
    ASSUME NEW P, NEW U, \A p \in P : p.id \in Nat, \A u \in U : u.id \in Nat
    PROVE  Associations(P, U) \subseteq AssociationRows
<1> DEFINE Found == {y \in P \X U \X BOOLEAN :
                       <<y[1].slug, y[2].unit, y[3]>> \in SeedParameterUnits}
<1>1. \A r \in Associations(P, U) : \E x \in Found :
        r = [parameter |-> x[1].id, unit |-> x[2].id, canonical |-> x[3]]
  BY DEF Associations
<1>2. \A x \in Found : x[1] \in P /\ x[2] \in U /\ x[3] \in BOOLEAN
  OBVIOUS
<1> HIDE DEF Found
<1> QED  BY <1>1, <1>2 DEF AssociationRows

\* An id and a slug stand for each other in a catalog of seeded parameters.
LEMMA ParametersFound ==
    ASSUME NEW d, d.parameters \subseteq SeededParameters(Slugs)
    PROVE  /\ \A slug : ParameterId(d, slug) \in Nat
           /\ \A p \in d.parameters : /\ ParameterId(d, p.slug) = p.id
                                      /\ ParameterSlug(d, p.id) = p.slug
<1>1. \A p, q \in d.parameters : p.id = q.id \/ p.slug = q.slug => p = q
  BY SeededParameterRows
<1>2. \A p \in d.parameters : p.id \in Nat
  BY SeededParameterRows
<1>3. ASSUME NEW slug PROVE ParameterId(d, slug) \in Nat
  BY <1>2 DEF ParameterId, NoId
<1>4. ASSUME NEW p \in d.parameters PROVE ParameterId(d, p.slug) = p.id
  BY <1>1 DEF ParameterId
<1>5. ASSUME NEW p \in d.parameters PROVE ParameterSlug(d, p.id) = p.slug
  BY <1>1 DEF ParameterSlug
<1> QED  BY <1>3, <1>4, <1>5

\* Revision 8, 20260731_000002: slugs become ids, and every slug finds its
\* parameter, since PostgreSQL refuses a row that does not.
LEMMA UpgradeParameterFk ==
    ASSUME NEW d, WellFormed(d), d.rev = 7, Legal(Upgraded(d))
    PROVE  /\ WellFormed(Upgraded(d)) /\ Meant(Upgraded(d)) = Meant(d)
           /\ Upgraded(d).rev = d.rev + 1
<1> DEFINE e == Upgraded(d)
           f == [m \in d.readings |-> [m EXCEPT !.parameter = ParameterId(d, @)]]
           g == [t \in d.thresholds |-> [t EXCEPT !.parameter = ParameterId(d, @)]]
<1>1. /\ Fields(d) /\ Typed(7, d) /\ UnitsSound(d) /\ "users" \in d.tables /\ Legal(d)
  BY WellFormedParts
<1>2. /\ Only({"rev", "readings", "thresholds"}, d, e) /\ e.rev = 8
      /\ e.readings =
         {[m EXCEPT !.parameter = ParameterId(d, @)] : m \in d.readings}
      /\ e.thresholds =
         {[t EXCEPT !.parameter = ParameterId(d, @)] : t \in d.thresholds}
  BY <1>1, UpgradeParameterFkColumns
<1> HIDE DEF e
<1>3. /\ e.readings = {f[m] : m \in d.readings}
      /\ e.thresholds = {g[t] : t \in d.thresholds}
  BY <1>2
<1>4. Only({"rev", "readings", "thresholds"}, d, e) /\ e.rev = 8
  BY <1>2
<1>5. /\ Fields(e) /\ e.parameters = d.parameters /\ e.units = d.units
      /\ e.parameterUnits = d.parameterUnits /\ e.uuids = d.uuids /\ e.tables = d.tables
  BY <1>4, OnlyKeeps
<1>6. \A m \in d.readings :
        /\ m \in ReadingRows(7) /\ f[m].id = m.id
        /\ f[m].unit = m.unit /\ f[m].raw = m.raw
        /\ f[m].parameter = ParameterId(d, m.parameter)
        /\ f[m] \in ReadingRows(8)
  BY <1>1, ParametersFound DEF Typed, ReadingRows, ParameterKey, UnitKey
<1>7. \A t \in d.thresholds :
        /\ t \in ThresholdRows(7) /\ g[t].id = t.id
        /\ g[t].parameter = ParameterId(d, t.parameter)
        /\ g[t] \in ThresholdRows(8)
  BY <1>1, ParametersFound DEF Typed, ThresholdRows, ParameterKey
<1>8. WellFormed(e)
  <2>1. Typed(8, e)
    <3>1. e.readings \subseteq ReadingRows(8) /\ e.thresholds \subseteq ThresholdRows(8)
      BY <1>3, <1>6, <1>7
    <3>2. UnitRows(8) = UnitRows(7)
      BY RowsOfRevisions
    <3> QED  BY <1>1, <1>4, <1>5, <3>1, <3>2 DEF Typed
  <2>2. UnitsSound(e)
    BY <1>1, <1>5 DEF UnitsSound
  <2> QED  BY <1>1, <1>4, <1>5, <2>1, <2>2, WellFormedParts DEF e
<1>9. ASSUME NEW x, x \in {p.slug : p \in d.parameters}
      PROVE  ParameterMeant(e, ParameterId(d, x)) = ParameterMeant(d, x)
  <2>1. PICK p \in d.parameters : x = p.slug
    BY <1>9
  <2>2. ParameterId(d, x) = p.id /\ ParameterSlug(e, p.id) = x
    BY <1>1, <1>5, <2>1, ParametersFound DEF Typed
  <2> QED  BY <1>1, <1>4, <2>2 DEF ParameterMeant, Typed
<1>10. \A x : UnitMeant(e, x) = UnitMeant(d, x)
  BY <1>1, <1>4 DEF UnitMeant, Typed
<1>11. /\ \A m \in d.readings : m.parameter \in {p.slug : p \in d.parameters}
      /\ \A t \in d.thresholds : t.parameter \in {p.slug : p \in d.parameters}
  BY <1>1 DEF Legal, ParametersReferred, Typed
<1> HIDE DEF f, g
<1>12. ReadingsMeant(e) = ReadingsMeant(d)
  BY <1>3, <1>6, <1>9, <1>10, <1>11, ReadingsKeepMeaning
<1>13. ThresholdsMeant(e) = ThresholdsMeant(d)
  BY <1>3, <1>7, <1>9, <1>11, ThresholdsKeepMeaning
<1> QED  BY <1>4, <1>8, <1>12, <1>13 DEF e, Meant

\* Revision 9, 20260731_000003, seeds the units and their associations.
LEMMA UpgradeUnitCatalog ==
    ASSUME NEW d, WellFormed(d), d.rev = 8, Legal(Upgraded(d))
    PROVE  /\ WellFormed(Upgraded(d)) /\ Meant(Upgraded(d)) = Meant(d)
           /\ Upgraded(d).rev = d.rev + 1
<1> DEFINE e == Upgraded(d)
           f == [u \in SeededUnits(Slugs) |->
                   [id |-> u.id, slug |-> u.unit, unit |-> NoName]]
<1>1. /\ Fields(d) /\ Typed(8, d) /\ "users" \in d.tables
  BY WellFormedParts
<1>2. /\ Only({"rev", "tables", "units", "parameterUnits"}, d, e) /\ e.rev = 9
      /\ e.tables = d.tables \cup {"units", "parameter_units"}
      /\ e.units = {[id |-> u.id, slug |-> u.unit, unit |-> NoName] :
                      u \in SeededUnits(Slugs)}
      /\ e.parameterUnits = Associations(d.parameters, SeededUnits(Slugs))
  BY <1>1, UpgradeUnitCatalogColumns
<1> HIDE DEF e
<1>3. Only({"rev", "tables", "units", "parameterUnits"}, d, e) /\ e.rev = 9
  BY <1>2
<1>4. /\ Fields(e) /\ e.parameters = d.parameters /\ e.uuids = d.uuids
      /\ e.readings = d.readings /\ e.thresholds = d.thresholds
  BY <1>3, OnlyKeeps
<1>5. e.units = {f[u] : u \in SeededUnits(Slugs)}
  BY <1>2
<1>6. \A u \in SeededUnits(Slugs) :
        /\ f[u].id = u.id /\ f[u] \in UnitRows(9)
        /\ \A v \in SeededUnits(Slugs) : f[u].id = f[v].id => f[u] = f[v]
  BY SeededUnitRows DEF UnitRows, Latest
<1>7. UnitsSound(e)
  <2>1. f \in Surjection(SeededUnits(Slugs), e.units)
    BY <1>5 DEF Surjection
  <2>2. IsFiniteSet(e.units)
    BY <2>1, SeededUnitRows, FS_Surjection
  <2> HIDE DEF f
  <2> QED  BY <1>5, <1>6, <2>2 DEF UnitsSound
<1> HIDE DEF f
<1>8. e.units \subseteq UnitRows(9)
  BY <1>5, <1>6
<1>9. e.parameterUnits \subseteq AssociationRows
  <2>1. \A p \in d.parameters : p.id \in Nat
    BY <1>1, SeededParameterRows DEF Typed
  <2>2. \A u \in SeededUnits(Slugs) : u.id \in Nat
    BY SeededUnitRows
  <2> QED  BY <1>2, <2>1, <2>2, AssociationsTyped
<1>10. e.tables \subseteq Tables /\ "users" \in e.tables
  BY <1>1, <1>2 DEF Typed, Tables
<1>11. ReadingRows(9) = ReadingRows(8) /\ ThresholdRows(9) = ThresholdRows(8)
  BY RowsOfRevisions
<1>12. Typed(9, e)
  BY <1>1, <1>3, <1>4, <1>8, <1>9, <1>10, <1>11 DEF Typed
<1>13. WellFormed(e)
  BY <1>3, <1>4, <1>7, <1>10, <1>12, WellFormedParts DEF e
<1>14. \A x : /\ ParameterMeant(e, x) = ParameterMeant(d, x)
              /\ UnitMeant(e, x) = UnitMeant(d, x)
  BY <1>3, <1>4 DEF ParameterMeant, ParameterSlug, UnitMeant
<1>15. Meant(e) = Meant(d)
  BY <1>4, <1>14, SameRowsKeepMeaning
<1> QED  BY <1>3, <1>13, <1>15 DEF e

\* The row with an id.
LEMMA UnitFound ==
    ASSUME NEW d, UnitsSound(d), NEW u \in d.units
    PROVE  (CHOOSE v \in d.units : v.id = u.id) = u
BY DEF UnitsSound

\* What the join by notation finds means the same.
LEMMA UnitIdMeans ==
    ASSUME NEW d, d.units \subseteq UnitRows(9), UnitsSound(d), NEW notation,
           UnitId(d, notation) \in {u.id : u \in d.units}
    PROVE  \E u \in d.units : /\ UnitId(d, notation) = u.id
                              /\ Physical(u.slug) = Physical(notation)
<1>1. \A u \in d.units : u.id # NoId
  BY DEF UnitRows, NoId
<1>2. \E u \in d.units : LowerCase[u.slug] = LowerCase[notation]
  BY <1>1 DEF UnitId
<1> DEFINE u == CHOOSE u \in d.units : LowerCase[u.slug] = LowerCase[notation]
<1>3. u \in d.units /\ LowerCase[u.slug] = LowerCase[notation]
  BY <1>2
<1>4. UnitId(d, notation) = u.id
  BY <1>2 DEF UnitId
<1> QED  BY <1>3, <1>4 DEF Physical

\* What is said of the unit with an id.
LEMMA UnitIdSays ==
    ASSUME NEW d, UnitsSound(d), NEW u \in d.units
    PROVE  /\ d.rev = 10 => UnitMeant(d, u.id) = Physical(u.slug)
           /\ d.rev = 11 => UnitMeant(d, u.id) = Physical(u.unit)
<1>1. (CHOOSE v \in d.units : v.id = u.id) = u
  BY UnitFound
<1>2. ASSUME d.rev = 10 PROVE UnitMeant(d, u.id) = Physical(u.slug)
  <2>1. ~(d.rev <= 9) /\ d.rev # Latest
    BY <1>2 DEF Latest
  <2> QED  BY <2>1, <1>1, Zenon DEF UnitMeant
<1>3. ASSUME d.rev = 11 PROVE UnitMeant(d, u.id) = Physical(u.unit)
  <2>1. ~(d.rev <= 9) /\ d.rev = Latest
    BY <1>3 DEF Latest
  <2> QED  BY <2>1, <1>1, Zenon DEF UnitMeant
<1> QED  BY <1>2, <1>3

\* The join yields an id, or no id.
LEMMA UnitIdTyped ==
    ASSUME NEW d, NEW n, d.units \subseteq UnitRows(n)
    PROVE  \A x : UnitId(d, x) \in Nat
BY DEF UnitRows, UnitId, NoId

\* Revision 10, 20260731_000004: notations become ids by a join that ignores
\* case, and what is found stands for the physical unit that was written.
LEMMA UpgradeMeasurementFk ==
    ASSUME NEW d, WellFormed(d), d.rev = 9, Legal(Upgraded(d))
    PROVE  /\ WellFormed(Upgraded(d)) /\ Meant(Upgraded(d)) = Meant(d)
           /\ Upgraded(d).rev = d.rev + 1
<1> DEFINE e == Upgraded(d)
           f == [m \in d.readings |->
                   [m EXCEPT !.unit = UnitId(d, @), !.raw = UnitId(d, @)]]
           g == [t \in d.thresholds |-> t]
<1>1. Fields(d) /\ Typed(9, d) /\ "users" \in d.tables /\ UnitsSound(d)
  BY WellFormedParts
<1>2. /\ Only({"rev", "readings"}, d, e) /\ e.rev = 10
      /\ e.readings = {[m EXCEPT !.unit = UnitId(d, @), !.raw = UnitId(d, @)] :
                         m \in d.readings}
  BY <1>1, UpgradeMeasurementFkColumns
<1>3. Legal(e)
  OBVIOUS
<1> HIDE DEF e
<1>4. Only({"rev", "readings"}, d, e) /\ e.rev = 10
  BY <1>2
<1>5. /\ Fields(e) /\ e.parameters = d.parameters /\ e.units = d.units
      /\ e.parameterUnits = d.parameterUnits /\ e.uuids = d.uuids /\ e.tables = d.tables
      /\ e.thresholds = d.thresholds
  BY <1>4, OnlyKeeps
<1>6. e.readings = {f[m] : m \in d.readings}
  BY <1>2
<1>7. \A x : UnitId(d, x) \in Nat
  BY <1>1, UnitIdTyped DEF Typed
<1>8. \A m \in d.readings :
        /\ m \in ReadingRows(9) /\ f[m].id = m.id /\ f[m].parameter = m.parameter
        /\ f[m].unit = UnitId(d, m.unit) /\ f[m].raw = UnitId(d, m.raw)
        /\ f[m] \in ReadingRows(10)
  <2>1. ReadingRows(9) =
          [id : Nat, parameter : Nat, unit : AllNotations, raw : AllNotations]
    BY DEF ReadingRows, ParameterKey, UnitKey
  <2>2. ReadingRows(10) = [id : Nat, parameter : Nat, unit : Nat, raw : Nat]
    BY DEF ReadingRows, ParameterKey, UnitKey
  <2>3. \A m \in d.readings : m \in ReadingRows(9)
    BY <1>1 DEF Typed
  <2>4. ASSUME NEW m \in [id : Nat, parameter : Nat, unit : AllNotations,
                         raw : AllNotations],
               NEW x \in Nat, NEW y \in Nat
        PROVE  LET r == [m EXCEPT !.unit = x, !.raw = y] IN
               /\ r \in [id : Nat, parameter : Nat, unit : Nat, raw : Nat]
               /\ r.id = m.id /\ r.parameter = m.parameter /\ r.unit = x /\ r.raw = y
    OBVIOUS
  <2>5. \A m \in d.readings :
          f[m] = [m EXCEPT !.unit = UnitId(d, @), !.raw = UnitId(d, @)]
    OBVIOUS
  <2> HIDE DEF f
  <2> TAKE m \in d.readings
  <2> DEFINE r == [m EXCEPT !.unit = UnitId(d, @), !.raw = UnitId(d, @)]
  <2>6. /\ r \in [id : Nat, parameter : Nat, unit : Nat, raw : Nat]
        /\ r.id = m.id /\ r.parameter = m.parameter
        /\ r.unit = UnitId(d, m.unit) /\ r.raw = UnitId(d, m.raw)
    BY <1>7, <2>1, <2>3, <2>4
  <2>7. f[m] = r
    BY <2>5
  <2> HIDE DEF r
  <2> QED  BY <2>2, <2>3, <2>6, <2>7
<1> HIDE DEF f
<1>9. WellFormed(e)
  <2>1. e.readings \subseteq ReadingRows(10)
    BY <1>6, <1>8
  <2>2. UnitRows(10) = UnitRows(9) /\ ThresholdRows(10) = ThresholdRows(9)
    BY RowsOfRevisions
  <2>3. Typed(10, e)
    BY <1>1, <1>4, <1>5, <2>1, <2>2 DEF Typed
  <2>4. UnitsSound(e)
    BY <1>1, <1>5 DEF UnitsSound
  <2> QED  BY <1>1, <1>4, <1>5, <2>3, <2>4, WellFormedParts DEF e
<1>10. \A x : ParameterMeant(e, x) = ParameterMeant(d, x)
  BY <1>1, <1>4, <1>5 DEF ParameterMeant, ParameterSlug, Typed
<1>11. ASSUME NEW x, UnitId(d, x) \in {u.id : u \in d.units}
       PROVE  UnitMeant(e, UnitId(d, x)) = UnitMeant(d, x)
  <2>1. PICK u \in d.units : UnitId(d, x) = u.id /\ Physical(u.slug) = Physical(x)
    BY <1>1, <1>11, UnitIdMeans DEF Typed
  <2>2. u \in e.units /\ UnitsSound(e)
    BY <1>1, <1>5 DEF UnitsSound
  <2>3. UnitMeant(e, UnitId(d, x)) = Physical(u.slug)
    BY <1>4, <2>1, <2>2, UnitIdSays
  <2>4. UnitMeant(d, x) = Physical(x)
    BY <1>1 DEF UnitMeant, Typed
  <2> QED  BY <2>1, <2>3, <2>4
<1>12. \A m \in d.readings : /\ UnitId(d, m.unit) \in {u.id : u \in d.units}
                             /\ UnitId(d, m.raw) \in {u.id : u \in d.units}
  <2>1. UnitsReferred(e)
    BY <1>3, <1>4 DEF Legal
  <2> QED  BY <2>1, <1>5, <1>6, <1>8 DEF UnitsReferred
<1>13. ReadingsMeant(e) = ReadingsMeant(d)
  BY <1>6, <1>8, <1>10, <1>11, <1>12, ReadingsKeepMeaning
<1>14. ThresholdsMeant(e) = ThresholdsMeant(d)
  BY <1>5, <1>10 DEF ThresholdsMeant
<1> QED  BY <1>4, <1>9, <1>13, <1>14 DEF e, Meant

\* The notations that revision 20260731_000005 rewrites mean what they meant.
LEMMA RenamedMeans ==
    ASSUME NEW n \in AllNotations
    PROVE  Physical(Renamed(n)) = Physical(n) /\ Renamed(n) \in AllNotations
<1>1. CASE n \notin {"gal_us", "sg", "celsius", "fahrenheit"}
  BY <1>1 DEF Renamed
<1>2. CASE n = "gal_us"
  BY <1>2, Lowered, Notations DEF Renamed, Physical
<1>3. CASE n = "sg"
  BY <1>3, Lowered, Notations DEF Renamed, Physical
<1>4. CASE n = "celsius"
  BY <1>4, Lowered, Notations DEF Renamed, Physical
<1>5. CASE n = "fahrenheit"
  BY <1>5, Lowered, Notations DEF Renamed, Physical
<1> QED  BY <1>1, <1>2, <1>3, <1>4, <1>5

\* A slug is one of the notations.
LEMMA SlugIsNotation == \A n \in AllNotations : SlugifyUnit[n] \in AllNotations
BY Notations DEF SlugifyUnit, LowerCase

\* A catalog whose rows are rewritten one by one keeps its ids.
LEMMA UnitsRewritten ==
    ASSUME NEW d, NEW e, NEW f, UnitsSound(d), e.units = {f[u] : u \in d.units},
           \A u \in d.units : f[u].id = u.id
    PROVE  /\ UnitsSound(e)
           /\ {u.id : u \in e.units} = {u.id : u \in d.units}
<1> DEFINE g == [u \in d.units |-> f[u]]
<1>1. g \in Surjection(d.units, e.units)
  BY DEF Surjection
<1>2. IsFiniteSet(e.units)
  BY <1>1, FS_Surjection DEF UnitsSound
<1>3. \A u, v \in e.units : u.id = v.id => u = v
  BY DEF UnitsSound
<1> QED  BY <1>2, <1>3 DEF UnitsSound

\* Revision 11, 20260731_000005: the notation gets a column of its own and four
\* notations are rewritten; ids stay, and readings say what they said.
LEMMA UpgradeSlugs ==
    ASSUME NEW d, WellFormed(d), d.rev = 10, Legal(Upgraded(d))
    PROVE  /\ WellFormed(Upgraded(d)) /\ Meant(Upgraded(d)) = Meant(d)
           /\ Upgraded(d).rev = d.rev + 1
<1> DEFINE e == Upgraded(d)
           f == [u \in d.units |->
                   [u EXCEPT !.unit = Renamed(u.slug), !.slug = SlugifyUnit[@]]]
<1>1. Fields(d) /\ Typed(10, d) /\ "users" \in d.tables /\ UnitsSound(d) /\ Legal(d)
  BY WellFormedParts
<1>2. /\ Only({"rev", "units"}, d, e) /\ e.rev = 11
      /\ e.units = {[u EXCEPT !.unit = Renamed(u.slug), !.slug = SlugifyUnit[@]] :
                      u \in d.units}
  BY <1>1, UpgradeSlugsColumns
<1> HIDE DEF e
<1>3. Only({"rev", "units"}, d, e) /\ e.rev = 11
  BY <1>2
<1>4. /\ Fields(e) /\ e.parameters = d.parameters /\ e.uuids = d.uuids
      /\ e.tables = d.tables /\ e.parameterUnits = d.parameterUnits
      /\ e.readings = d.readings /\ e.thresholds = d.thresholds
  BY <1>3, OnlyKeeps
<1>5. e.units = {f[u] : u \in d.units}
  BY <1>2
<1>6. \A u \in d.units : u \in [id : Nat \ {0}, slug : AllNotations, unit : {NoName}]
  BY <1>1 DEF Typed, UnitRows, Latest
<1>7. \A u \in d.units :
        /\ f[u].id = u.id /\ f[u].unit = Renamed(u.slug)
        /\ f[u] \in [id : Nat \ {0}, slug : AllNotations, unit : AllNotations]
  <2>1. \A u \in d.units :
          f[u] = [u EXCEPT !.unit = Renamed(u.slug), !.slug = SlugifyUnit[@]]
    OBVIOUS
  <2> HIDE DEF f
  <2> TAKE u \in d.units
  <2>2. u \in [id : Nat \ {0}, slug : AllNotations, unit : {NoName}]
    BY <1>6
  <2>3. Renamed(u.slug) \in AllNotations /\ SlugifyUnit[u.slug] \in AllNotations
    BY <2>2, RenamedMeans, SlugIsNotation
  <2> QED  BY <2>1, <2>2, <2>3
<1> HIDE DEF f
<1>8. UnitsSound(e) /\ {u.id : u \in e.units} = {u.id : u \in d.units}
  BY <1>1, <1>5, <1>7, UnitsRewritten
<1>9. e.units \subseteq UnitRows(11)
  BY <1>5, <1>7 DEF UnitRows, Latest
<1>10. ReadingRows(11) = ReadingRows(10) /\ ThresholdRows(11) = ThresholdRows(10)
  BY RowsOfRevisions
<1>11. Typed(11, e)
  BY <1>1, <1>3, <1>4, <1>9, <1>10 DEF Typed
<1>12. WellFormed(e)
  BY <1>1, <1>3, <1>4, <1>8, <1>11, WellFormedParts DEF e
<1>13. \A x : ParameterMeant(e, x) = ParameterMeant(d, x)
  BY <1>1, <1>3, <1>4 DEF ParameterMeant, ParameterSlug, Typed
<1>14. ASSUME NEW u \in d.units PROVE UnitMeant(e, u.id) = UnitMeant(d, u.id)
  <2>1. f[u] \in e.units /\ f[u].id = u.id
    BY <1>5, <1>7
  <2>2. UnitMeant(e, u.id) = Physical(Renamed(u.slug))
    BY <1>3, <1>7, <1>8, <2>1, UnitIdSays
  <2>3. UnitMeant(d, u.id) = Physical(u.slug)
    BY <1>1, UnitIdSays DEF Typed
  <2>4. u.slug \in AllNotations
    BY <1>6
  <2> QED  BY <2>2, <2>3, <2>4, RenamedMeans
<1>15. \A m \in d.readings : /\ m.unit \in {u.id : u \in d.units}
                             /\ m.raw \in {u.id : u \in d.units}
  BY <1>1 DEF Legal, UnitsReferred, Typed
<1>16. \A m \in d.readings : /\ UnitMeant(e, m.unit) = UnitMeant(d, m.unit)
                             /\ UnitMeant(e, m.raw) = UnitMeant(d, m.raw)
  BY <1>14, <1>15
<1>17. Meant(e) = Meant(d)
  BY <1>4, <1>13, <1>16, SameRowsKeepMeaning
<1> QED  BY <1>3, <1>12, <1>17 DEF e

\* Every upgrade that PostgreSQL does not refuse makes a well formed database of
\* the next revision that says what the one before said.
LEMMA Upgrades ==
    ASSUME NEW d, WellFormed(d), d.rev < Latest, Legal(Upgraded(d))
    PROVE  /\ WellFormed(Upgraded(d)) /\ Meant(Upgraded(d)) = Meant(d)
           /\ Upgraded(d).rev = d.rev + 1
<1>1. d.rev \in 0..6 \/ d.rev = 7 \/ d.rev = 8 \/ d.rev = 9 \/ d.rev = 10
  BY DEF WellFormed, Latest
<1> QED
  BY <1>1, UpgradeEarly, UpgradeParameterFk, UpgradeUnitCatalog,
     UpgradeMeasurementFk, UpgradeSlugs

-----------------------------------------------------------------------------
(* Downgrades do so down to the revisions that have the rows.              *)

\* Below revision 6 rows are dropped with their table: what is kept is well
\* formed, though it does not say all it said.
LEMMA DowngradeEarly ==
    ASSUME NEW d, WellFormed(d), d.rev \in 1..7, Legal(Downgraded(d))
    PROVE  /\ WellFormed(Downgraded(d)) /\ Downgraded(d).rev = d.rev - 1
           /\ d.rev > 5 => Meant(Downgraded(d)) = Meant(d)
<1> DEFINE e == Downgraded(d)
<1>1. /\ Fields(d) /\ Typed(d.rev, d) /\ UnitsSound(d) /\ "users" \in d.tables
  BY WellFormedParts
<1>2. /\ Fields(e) /\ e.rev = d.rev - 1
      /\ e.readings = d.readings \/ e.readings = {}
      /\ e.thresholds = d.thresholds \/ e.thresholds = {}
      /\ d.rev > 5 => e.readings = d.readings /\ e.thresholds = d.thresholds
      /\ e.units = d.units /\ e.parameterUnits = d.parameterUnits
      /\ e.parameters \subseteq SeededParameters(Slugs)
      /\ e.tables \subseteq Tables /\ (e.rev >= 1 => "users" \in e.tables)
      /\ e.uuids = {}
  <2>1. CASE d.rev \in {1, 2, 4}
    <3>1. /\ Only({"rev", "tables"}, d, e) /\ e.rev = d.rev - 1
          /\ e.tables \subseteq d.tables
          /\ d.rev # 1 /\ "users" \in d.tables => "users" \in e.tables
      BY <1>1, <2>1, DowngradeTablesColumns
    <3> HIDE DEF e
    <3>2. /\ Fields(e) /\ e.readings = d.readings /\ e.thresholds = d.thresholds
          /\ e.units = d.units /\ e.parameterUnits = d.parameterUnits
          /\ e.parameters = d.parameters /\ e.uuids = d.uuids
      BY <3>1, OnlyKeeps
    <3>3. e.tables \subseteq Tables /\ (e.rev >= 1 => "users" \in e.tables)
      BY <1>1, <2>1, <3>1 DEF Typed
    <3> QED  BY <1>1, <2>1, <3>1, <3>2, <3>3 DEF Typed
  <2>2. CASE d.rev = 3
    <3>1. /\ Only({"rev", "tables", "readings"}, d, e) /\ e.rev = 2
          /\ e.tables = d.tables \ {"aquarium_measurements"} /\ e.readings = {}
      BY <1>1, <2>2, DowngradeMeasurementsColumns
    <3> HIDE DEF e
    <3>2. /\ Fields(e) /\ e.thresholds = d.thresholds
          /\ e.units = d.units /\ e.parameterUnits = d.parameterUnits
          /\ e.parameters = d.parameters /\ e.uuids = d.uuids
      BY <3>1, OnlyKeeps
    <3> QED  BY <1>1, <2>2, <3>1, <3>2 DEF Typed
  <2>3. CASE d.rev = 5
    <3>1. /\ Only({"rev", "tables", "thresholds"}, d, e) /\ e.rev = 4
          /\ e.tables = d.tables \ {"aquarium_parameter_thresholds"}
          /\ e.thresholds = {}
      BY <1>1, <2>3, DowngradeThresholdsColumns
    <3> HIDE DEF e
    <3>2. /\ Fields(e) /\ e.readings = d.readings
          /\ e.units = d.units /\ e.parameterUnits = d.parameterUnits
          /\ e.parameters = d.parameters /\ e.uuids = d.uuids
      BY <3>1, OnlyKeeps
    <3> QED  BY <1>1, <2>3, <3>1, <3>2 DEF Typed
  <2>4. CASE d.rev = 6
    <3>1. /\ Only({"rev", "tables", "parameters"}, d, e) /\ e.rev = 5
          /\ e.tables = d.tables \ {"parameters"} /\ e.parameters = {}
      BY <1>1, <2>4, DowngradeCatalogColumns
    <3> HIDE DEF e
    <3>2. /\ Fields(e) /\ e.readings = d.readings /\ e.thresholds = d.thresholds
          /\ e.units = d.units /\ e.parameterUnits = d.parameterUnits
          /\ e.uuids = d.uuids
      BY <3>1, OnlyKeeps
    <3> QED  BY <1>1, <2>4, <3>1, <3>2 DEF Typed
  <2>5. CASE d.rev = 7
    <3>1. Only({"rev", "uuids"}, d, e) /\ e.rev = 6 /\ e.uuids = {}
      BY <1>1, <2>5, DowngradeUuidsColumns
    <3> HIDE DEF e
    <3>2. /\ Fields(e) /\ e.readings = d.readings /\ e.thresholds = d.thresholds
          /\ e.units = d.units /\ e.parameterUnits = d.parameterUnits
          /\ e.parameters = d.parameters /\ e.tables = d.tables
      BY <3>1, OnlyKeeps
    <3> QED  BY <1>1, <2>5, <3>1, <3>2 DEF Typed
  <2>6. d.rev \in {1, 2, 4} \/ d.rev = 3 \/ d.rev = 5 \/ d.rev = 6 \/ d.rev = 7
    OBVIOUS
  <2> QED  BY <2>1, <2>2, <2>3, <2>4, <2>5, <2>6
<1> HIDE DEF e
<1>3. Typed(e.rev, e)
  <2>1. e.rev \in 0..6 /\ e.rev + 1 = d.rev
    BY <1>2
  <2>2. /\ ReadingRows(d.rev) = ReadingRows(e.rev) /\ UnitRows(d.rev) = UnitRows(e.rev)
        /\ ThresholdRows(d.rev) = ThresholdRows(e.rev)
    BY <2>1, RowsOfRevisions
  <2> QED  BY <1>1, <1>2, <2>1, <2>2 DEF Typed
<1>4. UnitsSound(e)
  BY <1>1, <1>2 DEF UnitsSound
<1>5. WellFormed(e)
  BY <1>2, <1>3, <1>4, WellFormedParts DEF e
<1>6. \A x : /\ ParameterMeant(e, x) = ParameterMeant(d, x)
             /\ UnitMeant(e, x) = UnitMeant(d, x)
  BY <1>2, NamesMean
<1>7. d.rev > 5 => Meant(e) = Meant(d)
  BY <1>2, <1>6, SameRowsKeepMeaning
<1> QED  BY <1>2, <1>5, <1>7 DEF e

\* Back from revision 8: ids become slugs.
LEMMA DowngradeParameterFk ==
    ASSUME NEW d, WellFormed(d), d.rev = 8, Legal(Downgraded(d))
    PROVE  /\ WellFormed(Downgraded(d)) /\ Downgraded(d).rev = d.rev - 1
           /\ Meant(Downgraded(d)) = Meant(d)
<1> DEFINE e == Downgraded(d)
           f == [m \in d.readings |-> [m EXCEPT !.parameter = ParameterSlug(d, @)]]
           g == [t \in d.thresholds |-> [t EXCEPT !.parameter = ParameterSlug(d, @)]]
<1>1. /\ Fields(d) /\ Typed(8, d) /\ UnitsSound(d) /\ "users" \in d.tables /\ Legal(d)
  BY WellFormedParts
<1>2. /\ Only({"rev", "readings", "thresholds"}, d, e) /\ e.rev = 7
      /\ e.readings =
         {[m EXCEPT !.parameter = ParameterSlug(d, @)] : m \in d.readings}
      /\ e.thresholds =
         {[t EXCEPT !.parameter = ParameterSlug(d, @)] : t \in d.thresholds}
  BY <1>1, DowngradeParameterFkColumns
<1> HIDE DEF e
<1>3. /\ e.readings = {f[m] : m \in d.readings}
      /\ e.thresholds = {g[t] : t \in d.thresholds}
  BY <1>2
<1>4. Only({"rev", "readings", "thresholds"}, d, e) /\ e.rev = 7
  BY <1>2
<1>5. /\ Fields(e) /\ e.parameters = d.parameters /\ e.units = d.units
      /\ e.parameterUnits = d.parameterUnits /\ e.uuids = d.uuids /\ e.tables = d.tables
  BY <1>4, OnlyKeeps
<1>6. /\ \A m \in d.readings : m.parameter \in {p.id : p \in d.parameters}
      /\ \A t \in d.thresholds : t.parameter \in {p.id : p \in d.parameters}
  BY <1>1 DEF Legal, ParametersReferred, Typed
<1>7. \A x \in {p.id : p \in d.parameters} : ParameterSlug(d, x) \in ParameterKey(7)
  BY <1>1, ParametersFound, SeededParameterRows DEF Typed, ParameterKey
<1>8. \A m \in d.readings :
        /\ m \in ReadingRows(8) /\ f[m].id = m.id
        /\ f[m].unit = m.unit /\ f[m].raw = m.raw
        /\ f[m].parameter = ParameterSlug(d, m.parameter)
        /\ f[m] \in ReadingRows(7)
  <2> TAKE m \in d.readings
  <2>1. m \in [id : Nat, parameter : Nat, unit : AllNotations, raw : AllNotations]
    BY <1>1 DEF Typed, ReadingRows, ParameterKey, UnitKey
  <2>2. ReadingRows(7) = [id : Nat, parameter : ParameterKey(7), unit : AllNotations,
                          raw : AllNotations]
    BY DEF ReadingRows, UnitKey
  <2>3. ParameterSlug(d, m.parameter) \in ParameterKey(7)
    BY <1>6, <1>7
  <2>4. f[m] = [m EXCEPT !.parameter = ParameterSlug(d, @)]
    OBVIOUS
  <2>5. m \in ReadingRows(8)
    BY <1>1 DEF Typed
  <2> HIDE DEF f
  <2> QED  BY <2>1, <2>2, <2>3, <2>4, <2>5
<1>9. \A t \in d.thresholds :
        /\ t \in ThresholdRows(8) /\ g[t].id = t.id
        /\ g[t].parameter = ParameterSlug(d, t.parameter)
        /\ g[t] \in ThresholdRows(7)
  BY <1>1, <1>6, <1>7 DEF Typed, ThresholdRows
<1>10. WellFormed(e)
  <2>1. Typed(7, e)
    <3>1. e.readings \subseteq ReadingRows(7) /\ e.thresholds \subseteq ThresholdRows(7)
      BY <1>3, <1>8, <1>9
    <3>2. UnitRows(8) = UnitRows(7)
      BY RowsOfRevisions
    <3> QED  BY <1>1, <1>4, <1>5, <3>1, <3>2 DEF Typed
  <2>2. UnitsSound(e)
    BY <1>1, <1>5 DEF UnitsSound
  <2> QED  BY <1>1, <1>4, <1>5, <2>1, <2>2, WellFormedParts DEF e
<1>11. \A x : ParameterMeant(e, ParameterSlug(d, x)) = ParameterMeant(d, x)
  BY <1>1, <1>4 DEF ParameterMeant, Typed
<1>12. \A x : UnitMeant(e, x) = UnitMeant(d, x)
  BY <1>1, <1>4 DEF UnitMeant, Typed
<1> HIDE DEF f, g
<1>13. ReadingsMeant(e) = ReadingsMeant(d)
  BY <1>3, <1>8, <1>11, <1>12, ReadingsKeepMeaning
<1>14. ThresholdsMeant(e) = ThresholdsMeant(d)
  BY <1>3, <1>9, <1>11, ThresholdsKeepMeaning
<1> QED  BY <1>1, <1>4, <1>10, <1>13, <1>14 DEF e, Meant, Typed

\* Back from revision 9: the units go, and nothing refers to them there.
LEMMA DowngradeUnitCatalog ==
    ASSUME NEW d, WellFormed(d), d.rev = 9, Legal(Downgraded(d))
    PROVE  /\ WellFormed(Downgraded(d)) /\ Downgraded(d).rev = d.rev - 1
           /\ Meant(Downgraded(d)) = Meant(d)
<1> DEFINE e == Downgraded(d)
<1>1. Fields(d) /\ Typed(9, d) /\ "users" \in d.tables
  BY WellFormedParts
<1>2. /\ Only({"rev", "tables", "units", "parameterUnits"}, d, e) /\ e.rev = 8
      /\ e.tables = d.tables \ {"units", "parameter_units"}
      /\ e.units = {} /\ e.parameterUnits = {}
  BY <1>1, DowngradeUnitCatalogColumns
<1> HIDE DEF e
<1>3. /\ Fields(e) /\ e.parameters = d.parameters /\ e.uuids = d.uuids
      /\ e.readings = d.readings /\ e.thresholds = d.thresholds
  BY <1>2, OnlyKeeps
<1>4. ReadingRows(9) = ReadingRows(8) /\ ThresholdRows(9) = ThresholdRows(8)
  BY RowsOfRevisions
<1>5. Typed(8, e) /\ "users" \in e.tables
  BY <1>1, <1>2, <1>3, <1>4 DEF Typed
<1>6. UnitsSound(e)
  BY <1>2, FS_EmptySet DEF UnitsSound
<1>7. WellFormed(e)
  BY <1>2, <1>3, <1>5, <1>6, WellFormedParts DEF e
<1>8. \A x : /\ ParameterMeant(e, x) = ParameterMeant(d, x)
             /\ UnitMeant(e, x) = UnitMeant(d, x)
  BY <1>2, <1>3 DEF ParameterMeant, ParameterSlug, UnitMeant
<1>9. Meant(e) = Meant(d)
  BY <1>3, <1>8, SameRowsKeepMeaning
<1> QED  BY <1>2, <1>7, <1>9 DEF e

\* The slug that a reading gets back is that of its unit.
LEMMA UnitSlugFound ==
    ASSUME NEW d, UnitsSound(d), NEW u \in d.units
    PROVE  UnitSlug(d, u.id) = u.slug
BY UnitFound, Zenon DEF UnitSlug

\* Back from revision 10: ids become slugs, which hold notations there.
LEMMA DowngradeMeasurementFk ==
    ASSUME NEW d, WellFormed(d), d.rev = 10, Legal(Downgraded(d))
    PROVE  /\ WellFormed(Downgraded(d)) /\ Downgraded(d).rev = d.rev - 1
           /\ Meant(Downgraded(d)) = Meant(d)
<1> DEFINE e == Downgraded(d)
           f == [m \in d.readings |->
                   [m EXCEPT !.unit = UnitSlug(d, @), !.raw = UnitSlug(d, @)]]
<1>1. Fields(d) /\ Typed(10, d) /\ "users" \in d.tables /\ UnitsSound(d) /\ Legal(d)
  BY WellFormedParts
<1>2. /\ Only({"rev", "readings"}, d, e) /\ e.rev = 9
      /\ e.readings = {[m EXCEPT !.unit = UnitSlug(d, @), !.raw = UnitSlug(d, @)] :
                         m \in d.readings}
  BY <1>1, DowngradeMeasurementFkColumns
<1> HIDE DEF e
<1>3. Only({"rev", "readings"}, d, e) /\ e.rev = 9
  BY <1>2
<1>4. /\ Fields(e) /\ e.parameters = d.parameters /\ e.units = d.units
      /\ e.parameterUnits = d.parameterUnits /\ e.uuids = d.uuids /\ e.tables = d.tables
      /\ e.thresholds = d.thresholds
  BY <1>3, OnlyKeeps
<1>5. e.readings = {f[m] : m \in d.readings}
  BY <1>2
<1>6. \A m \in d.readings : /\ m.unit \in {u.id : u \in d.units}
                            /\ m.raw \in {u.id : u \in d.units}
  BY <1>1 DEF Legal, UnitsReferred, Typed
<1>7. \A x \in {u.id : u \in d.units} :
        /\ UnitSlug(d, x) \in AllNotations
        /\ UnitMeant(e, UnitSlug(d, x)) = UnitMeant(d, x)
  <2> SUFFICES ASSUME NEW u \in d.units
               PROVE  /\ UnitSlug(d, u.id) \in AllNotations
                      /\ UnitMeant(e, UnitSlug(d, u.id)) = UnitMeant(d, u.id)
    OBVIOUS
  <2>1. UnitSlug(d, u.id) = u.slug
    BY <1>1, UnitSlugFound
  <2>2. u.slug \in AllNotations
    BY <1>1 DEF Typed, UnitRows
  <2>3. UnitMeant(d, u.id) = Physical(u.slug)
    BY <1>1, UnitIdSays DEF Typed
  <2>4. UnitMeant(e, u.slug) = Physical(u.slug)
    BY <1>3 DEF UnitMeant
  <2> QED  BY <2>1, <2>2, <2>3, <2>4
<1>8. \A m \in d.readings :
        /\ f[m].id = m.id /\ f[m].parameter = m.parameter
        /\ f[m].unit = UnitSlug(d, m.unit) /\ f[m].raw = UnitSlug(d, m.raw)
        /\ f[m] \in ReadingRows(9)
  <2> TAKE m \in d.readings
  <2>1. m \in [id : Nat, parameter : Nat, unit : Nat, raw : Nat]
    BY <1>1 DEF Typed, ReadingRows, ParameterKey, UnitKey
  <2>2. ReadingRows(9) =
          [id : Nat, parameter : Nat, unit : AllNotations, raw : AllNotations]
    BY DEF ReadingRows, ParameterKey, UnitKey
  <2>3. UnitSlug(d, m.unit) \in AllNotations /\ UnitSlug(d, m.raw) \in AllNotations
    BY <1>6, <1>7
  <2>4. f[m] = [m EXCEPT !.unit = UnitSlug(d, @), !.raw = UnitSlug(d, @)]
    OBVIOUS
  <2> HIDE DEF f
  <2> QED  BY <2>1, <2>2, <2>3, <2>4
<1> HIDE DEF f
<1>9. WellFormed(e)
  <2>1. e.readings \subseteq ReadingRows(9)
    BY <1>5, <1>8
  <2>2. UnitRows(10) = UnitRows(9) /\ ThresholdRows(10) = ThresholdRows(9)
    BY RowsOfRevisions
  <2>3. Typed(9, e)
    BY <1>1, <1>3, <1>4, <2>1, <2>2 DEF Typed
  <2>4. UnitsSound(e)
    BY <1>1, <1>4 DEF UnitsSound
  <2> QED  BY <1>1, <1>3, <1>4, <2>3, <2>4, WellFormedParts DEF e
<1>10. \A x : ParameterMeant(e, x) = ParameterMeant(d, x)
  BY <1>1, <1>3, <1>4 DEF ParameterMeant, ParameterSlug, Typed
<1>11. ReadingsMeant(e) = ReadingsMeant(d)
  BY <1>5, <1>6, <1>7, <1>8, <1>10, ReadingsKeepMeaning
<1>12. ThresholdsMeant(e) = ThresholdsMeant(d)
  BY <1>4, <1>10 DEF ThresholdsMeant
<1> QED  BY <1>1, <1>3, <1>9, <1>11, <1>12 DEF e, Meant, Typed

\* Back from revision 11: the notation moves to the slug, as it is written.
LEMMA DowngradeSlugs ==
    ASSUME NEW d, WellFormed(d), d.rev = 11, Legal(Downgraded(d))
    PROVE  /\ WellFormed(Downgraded(d)) /\ Downgraded(d).rev = d.rev - 1
           /\ Meant(Downgraded(d)) = Meant(d)
<1> DEFINE e == Downgraded(d)
           f == [u \in d.units |-> [u EXCEPT !.slug = u.unit, !.unit = NoName]]
<1>1. Fields(d) /\ Typed(11, d) /\ "users" \in d.tables /\ UnitsSound(d) /\ Legal(d)
  BY WellFormedParts
<1>2. /\ Only({"rev", "units"}, d, e) /\ e.rev = 10
      /\ e.units = {[u EXCEPT !.slug = u.unit, !.unit = NoName] : u \in d.units}
  BY <1>1, DowngradeSlugsColumns
<1> HIDE DEF e
<1>3. Only({"rev", "units"}, d, e) /\ e.rev = 10
  BY <1>2
<1>4. /\ Fields(e) /\ e.parameters = d.parameters /\ e.uuids = d.uuids
      /\ e.tables = d.tables /\ e.parameterUnits = d.parameterUnits
      /\ e.readings = d.readings /\ e.thresholds = d.thresholds
  BY <1>3, OnlyKeeps
<1>5. e.units = {f[u] : u \in d.units}
  BY <1>2
<1>6. \A u \in d.units :
        /\ f[u].id = u.id /\ f[u].slug = u.unit
        /\ f[u] \in [id : Nat \ {0}, slug : AllNotations, unit : {NoName}]
  <2> TAKE u \in d.units
  <2>1. f[u] = [u EXCEPT !.slug = u.unit, !.unit = NoName]
    OBVIOUS
  <2> HIDE DEF f
  <2>2. u \in [id : Nat \ {0}, slug : AllNotations, unit : AllNotations]
    BY <1>1 DEF Typed, UnitRows, Latest
  <2> QED  BY <2>1, <2>2
<1> HIDE DEF f
<1>7. UnitsSound(e) /\ {u.id : u \in e.units} = {u.id : u \in d.units}
  BY <1>1, <1>5, <1>6, UnitsRewritten
<1>8. e.units \subseteq UnitRows(10)
  BY <1>5, <1>6 DEF UnitRows, Latest
<1>9. ReadingRows(11) = ReadingRows(10) /\ ThresholdRows(11) = ThresholdRows(10)
  BY RowsOfRevisions
<1>10. Typed(10, e)
  BY <1>1, <1>3, <1>4, <1>8, <1>9 DEF Typed
<1>11. WellFormed(e)
  BY <1>1, <1>3, <1>4, <1>7, <1>10, WellFormedParts DEF e
<1>12. \A x : ParameterMeant(e, x) = ParameterMeant(d, x)
  BY <1>1, <1>3, <1>4 DEF ParameterMeant, ParameterSlug, Typed
<1>13. ASSUME NEW u \in d.units PROVE UnitMeant(e, u.id) = UnitMeant(d, u.id)
  <2>1. f[u] \in e.units /\ f[u].id = u.id
    BY <1>5, <1>6
  <2>2. UnitMeant(e, u.id) = Physical(u.unit)
    BY <1>3, <1>6, <1>7, <2>1, UnitIdSays
  <2>3. UnitMeant(d, u.id) = Physical(u.unit)
    BY <1>1, UnitIdSays DEF Typed
  <2> QED  BY <2>2, <2>3
<1>14. \A m \in d.readings : /\ m.unit \in {u.id : u \in d.units}
                             /\ m.raw \in {u.id : u \in d.units}
  BY <1>1 DEF Legal, UnitsReferred, Typed
<1>15. \A m \in d.readings : /\ UnitMeant(e, m.unit) = UnitMeant(d, m.unit)
                             /\ UnitMeant(e, m.raw) = UnitMeant(d, m.raw)
  BY <1>13, <1>14
<1>16. Meant(e) = Meant(d)
  BY <1>4, <1>12, <1>15, SameRowsKeepMeaning
<1> QED  BY <1>1, <1>3, <1>11, <1>16 DEF e, Typed

\* Every downgrade that PostgreSQL does not refuse makes a well formed database
\* of the revision below, which says what the one above said if that is one with
\* the catalogs: below it the tables of readings and thresholds go.
LEMMA Downgrades ==
    ASSUME NEW d, WellFormed(d), d.rev > 0, Legal(Downgraded(d))
    PROVE  /\ WellFormed(Downgraded(d)) /\ Downgraded(d).rev = d.rev - 1
           /\ d.rev > 5 => Meant(Downgraded(d)) = Meant(d)
<1>1. d.rev \in 1..7 \/ d.rev = 8 \/ d.rev = 9 \/ d.rev = 10 \/ d.rev = 11
  BY DEF WellFormed, Latest
<1> QED
  BY <1>1, DowngradeEarly, DowngradeParameterFk, DowngradeUnitCatalog,
     DowngradeMeasurementFk, DowngradeSlugs

-----------------------------------------------------------------------------
(* Statements at the latest revision.                                      *)

\* The id of a new row is not that of a row there is.
LEMMA NextIdNew ==
    ASSUME NEW S, IsFiniteSet(S)
    PROVE  NextId(S) \in Nat \ {0} /\ \A x \in S : x.id # NextId(S)
<1> DEFINE c == Cardinality(S)
           T == {x \in S : x.id \in 1..(c + 1)}
           f == [x \in T |-> x.id]
<1>1. c \in Nat
  BY FS_CardinalityType
<1>2. \E n \in 1..(c + 1) : \A x \in S : x.id # n
  <2>1. SUFFICES ASSUME \A n \in 1..(c + 1) : \E x \in S : x.id = n PROVE FALSE
    OBVIOUS
  <2>2. IsFiniteSet(T) /\ Cardinality(T) <= c
    BY FS_Subset
  <2>3. f \in Surjection(T, 1..(c + 1))
    BY <2>1 DEF Surjection
  <2> HIDE DEF f, T, c
  <2>4. Cardinality(1..(c + 1)) <= Cardinality(T)
    BY <2>2, <2>3, FS_Surjection
  <2>5. Cardinality(1..(c + 1)) = c + 1
    <3>1. 1 \in Int /\ c + 1 \in Int /\ ~(1 > c + 1) /\ (c + 1) - 1 + 1 = c + 1
      BY <1>1
    <3> QED  BY <3>1, FS_Interval
  <2>6. Cardinality(T) \in Nat
    BY <2>2, FS_CardinalityType
  <2> QED  BY <1>1, <2>2, <2>4, <2>5, <2>6
<1> HIDE DEF c
<1>3. NextId(S) \in 1..(c + 1) /\ \A x \in S : x.id # NextId(S)
  BY <1>2 DEF NextId, c
<1> QED  BY <1>1, <1>3

\* At the latest revision a catalog may change as long as it keeps the rows
\* that readings and thresholds refer to.
LEMMA ParametersEdited ==
    ASSUME NEW d, NEW e, WellFormed(d), d.rev = Latest,
           Only({"parameters", "parameterUnits"}, d, e),
           e.parameters \subseteq SeededParameters(Slugs),
           e.parameterUnits \subseteq AssociationRows,
           \A p \in d.parameters \ e.parameters :
             /\ \A m \in d.readings : m.parameter # p.id
             /\ \A t \in d.thresholds : t.parameter # p.id
    PROVE  WellFormed(e) /\ e.rev = Latest /\ Meant(e) = Meant(d)
<1>1. /\ Fields(d) /\ Typed(11, d) /\ "users" \in d.tables /\ UnitsSound(d) /\ Legal(d)
  BY WellFormedParts DEF Latest
<1>2. /\ Fields(e) /\ e.rev = 11 /\ e.tables = d.tables /\ e.uuids = d.uuids
      /\ e.units = d.units /\ e.readings = d.readings /\ e.thresholds = d.thresholds
  BY OnlyKeeps DEF Latest
<1>3. Typed(11, e) /\ UnitsSound(e)
  BY <1>1, <1>2 DEF Typed, UnitsSound
<1>4. /\ \A m \in d.readings :
           \E p \in d.parameters : p \in e.parameters /\ m.parameter = p.id
      /\ \A t \in d.thresholds :
           \E p \in d.parameters : p \in e.parameters /\ t.parameter = p.id
  BY <1>1 DEF Legal, ParametersReferred, Typed
<1>5. Legal(e)
  <2>1. ParametersReferred(e)
    BY <1>2, <1>4 DEF ParametersReferred
  <2>2. TypesAgree(e)
    BY <1>1, <1>2 DEF Legal, TypesAgree, Typed
  <2>3. SlugsUnique(e)
    BY <1>1, <1>2 DEF Legal, SlugsUnique, Typed
  <2>4. UnitsReferred(e)
    BY <1>1, <1>2 DEF Legal, UnitsReferred, Typed
  <2> QED  BY <2>1, <2>2, <2>3, <2>4 DEF Legal
<1>6. WellFormed(e)
  BY <1>1, <1>2, <1>3, <1>5, WellFormedParts
<1>7. \A p \in d.parameters : p \in e.parameters =>
        ParameterMeant(e, p.id) = ParameterMeant(d, p.id)
  <2> TAKE p \in d.parameters
  <2> HAVE p \in e.parameters
  <2>1. ParameterSlug(e, p.id) = p.slug /\ ParameterSlug(d, p.id) = p.slug
    BY <1>1, ParametersFound DEF Typed
  <2> QED  BY <1>1, <1>2, <2>1 DEF ParameterMeant, Typed
<1>8. \A x : UnitMeant(e, x) = UnitMeant(d, x)
  BY <1>1, <1>2 DEF UnitMeant, Typed
<1>9. Meant(e) = Meant(d)
  BY <1>2, <1>4, <1>7, <1>8, SameRowsKeepMeaning
<1> QED  BY <1>2, <1>6, <1>9 DEF Latest

\* The same of the units, whose keys stay distinct.
LEMMA UnitsEdited ==
    ASSUME NEW d, NEW e, WellFormed(d), d.rev = Latest, Only({"units"}, d, e),
           e.units \subseteq UnitRows(11), UnitsSound(e),
           \A u, v \in e.units : u.slug = v.slug => u = v,
           \A u \in d.units \ e.units :
             \A m \in d.readings : m.unit # u.id /\ m.raw # u.id
    PROVE  WellFormed(e) /\ e.rev = Latest /\ Meant(e) = Meant(d)
<1>1. /\ Fields(d) /\ Typed(11, d) /\ "users" \in d.tables /\ UnitsSound(d) /\ Legal(d)
  BY WellFormedParts DEF Latest
<1>2. /\ Fields(e) /\ e.rev = 11 /\ e.tables = d.tables /\ e.uuids = d.uuids
      /\ e.parameters = d.parameters /\ e.parameterUnits = d.parameterUnits
      /\ e.readings = d.readings /\ e.thresholds = d.thresholds
  BY OnlyKeeps DEF Latest
<1>3. Typed(11, e)
  BY <1>1, <1>2 DEF Typed
<1>4. \A m \in d.readings :
        /\ \E u \in d.units : u \in e.units /\ m.unit = u.id
        /\ \E u \in d.units : u \in e.units /\ m.raw = u.id
  BY <1>1 DEF Legal, UnitsReferred, Typed
<1>5. Legal(e)
  <2>1. UnitsReferred(e)
    BY <1>2, <1>4 DEF UnitsReferred
  <2>2. TypesAgree(e)
    BY <1>1, <1>2 DEF Legal, TypesAgree, Typed
  <2>3. SlugsUnique(e)
    BY <1>2 DEF SlugsUnique, Distinct, Latest
  <2>4. ParametersReferred(e)
    BY <1>1, <1>2 DEF Legal, ParametersReferred, Typed
  <2> QED  BY <2>1, <2>2, <2>3, <2>4 DEF Legal
<1>6. WellFormed(e)
  BY <1>1, <1>2, <1>3, <1>5, WellFormedParts
<1>7. \A u \in d.units : u \in e.units => UnitMeant(e, u.id) = UnitMeant(d, u.id)
  BY <1>1, <1>2, UnitIdSays DEF Typed
<1>8. \A x : ParameterMeant(e, x) = ParameterMeant(d, x)
  BY <1>1, <1>2 DEF ParameterMeant, ParameterSlug, Typed
<1>9. Meant(e) = Meant(d)
  BY <1>2, <1>4, <1>7, <1>8, SameRowsKeepMeaning
<1> QED  BY <1>2, <1>6, <1>9 DEF Latest

\* A reading of a parameter and a unit that are there may be added.
LEMMA ReadingStored ==
    ASSUME NEW d, NEW e, WellFormed(d), d.rev = Latest, Only({"readings"}, d, e),
           NEW m \in ReadingRows(11), e.readings = d.readings \cup {m},
           \E p \in d.parameters : m.parameter = p.id,
           \E u \in d.units : m.unit = u.id, \E u \in d.units : m.raw = u.id
    PROVE  WellFormed(e) /\ e.rev = Latest
<1>1. /\ Fields(d) /\ Typed(11, d) /\ "users" \in d.tables /\ UnitsSound(d) /\ Legal(d)
  BY WellFormedParts DEF Latest
<1>2. /\ Fields(e) /\ e.rev = 11 /\ e.tables = d.tables /\ e.uuids = d.uuids
      /\ e.parameters = d.parameters /\ e.parameterUnits = d.parameterUnits
      /\ e.units = d.units /\ e.thresholds = d.thresholds
  BY OnlyKeeps DEF Latest
<1>3. Typed(11, e) /\ UnitsSound(e)
  BY <1>1, <1>2 DEF Typed, UnitsSound
<1>4. Legal(e)
  <2>1. UnitsReferred(e)
    BY <1>1, <1>2 DEF Legal, UnitsReferred, Typed
  <2>2. TypesAgree(e)
    BY <1>1, <1>2 DEF Legal, TypesAgree, Typed
  <2>3. SlugsUnique(e)
    BY <1>1, <1>2 DEF Legal, SlugsUnique, Typed
  <2>4. ParametersReferred(e)
    BY <1>1, <1>2 DEF Legal, ParametersReferred, Typed
  <2> QED  BY <2>1, <2>2, <2>3, <2>4 DEF Legal
<1> QED  BY <1>1, <1>2, <1>3, <1>4, WellFormedParts DEF Latest

-----------------------------------------------------------------------------
(* The invariant of the databases and of the process.                      *)

\* The one setting that the code does not check: outside app_env "test",
\* TEST_DATABASE_URL (src/src/db.py:89) selects a database that no migration
\* has made, and with seeding off nothing fills it. Where an environment is not
\* migrated, its database is one that create_all and the seeds make.
SettingsFit == \A e \in Environments : ~e.migrated => e.seeds
\* A downgrade ends at a revision that has the tables of readings and
\* thresholds: below it they are dropped, and their rows with them.
KeepsRecords == Targets \subseteq 5..Latest

\* The stages of a process in which a transaction is open.
Migrating == {"upgrade", "downgrade"}
\* The stages after create_all.
Initialised ==
    {"seed_parameters", "seed_units", "seed_parameter_units", "ping", "serving"}
\* The inductive invariant. Both databases, the committed one and the one the
\* open transaction has made, are well formed, which carries what their rows
\* refer to through every revision; they differ only while one migrates. Past
\* the check of the settings the revision is the latest, because a process gets
\* there by an upgrade to the end or by create_all.
SInv ==
    /\ env \in Environments /\ proc \in Stages
    /\ target \in Targets \cup {Latest} /\ edited \in BOOLEAN
    /\ WellFormed(db) /\ WellFormed(work)
    /\ proc \notin Migrating => work = db
    /\ proc \in Migrating => env.migrated
    /\ ~env.migrated => db = EmptyDatabase \/ db.rev = Latest
    /\ proc \in {"config", "create_all"} /\ env.migrated => db.rev = Latest
    /\ proc \in Initialised => db.rev = Latest
\* What the readings and thresholds say, in both databases, is what they said
\* when they were stored.
Kept == Meant(db) = recorded /\ Meant(work) = recorded

\* A database that no migration has touched is well formed.
LEMMA EmptyWellFormed == WellFormed(EmptyDatabase)
<1> DEFINE d == EmptyDatabase
<1>1. /\ d.rev = 0 /\ d.tables = {} /\ d.uuids = {} /\ d.parameters = {} /\ d.units = {}
      /\ d.parameterUnits = {} /\ d.readings = {} /\ d.thresholds = {} /\ Fields(d)
  BY DEF EmptyDatabase, Fields, Columns
<1> HIDE DEF d
<1>2. UnitsSound(d)
  BY <1>1, FS_EmptySet DEF UnitsSound
<1>3. Legal(d)
  BY <1>1 DEF Legal, TypesAgree, SlugsUnique, Distinct, References, Latest
<1>4. Typed(0, d)
  BY <1>1 DEF Typed
<1>5. WellFormed(d)
  BY <1>1, <1>2, <1>3, <1>4, WellFormedParts
<1> QED  BY <1>5 DEF d

\* What create_all makes of an empty database.
LEMMA CreatedWellFormed ==
    LET e == Created(EmptyDatabase) IN
    WellFormed(e) /\ e.rev = Latest /\ Meant(e) = Meant(EmptyDatabase)
<1> DEFINE d == EmptyDatabase
           e == Created(d)
<1>1. /\ e.rev = 11 /\ e.tables = Tables /\ e.uuids = IdColumns
      /\ e.parameters = {} /\ e.units = {}
      /\ e.parameterUnits = {} /\ e.readings = {} /\ e.thresholds = {} /\ Fields(e)
  BY DEF Created, EmptyDatabase, Fields, Columns, Latest
<1>2. d.readings = {} /\ d.thresholds = {}
  BY DEF EmptyDatabase
<1> HIDE DEF d, e
<1>3. UnitsSound(e)
  BY <1>1, FS_EmptySet DEF UnitsSound
<1>4. Legal(e)
  <2>1. TypesAgree(e)
    BY <1>1 DEF TypesAgree, References, IdColumns
  <2>2. SlugsUnique(e) /\ ParametersReferred(e) /\ UnitsReferred(e)
    BY <1>1 DEF SlugsUnique, Distinct, ParametersReferred, UnitsReferred
  <2> QED  BY <2>1, <2>2 DEF Legal
<1>5. Typed(11, e)
  BY <1>1 DEF Typed
<1>6. WellFormed(e)
  BY <1>1, <1>3, <1>4, <1>5, WellFormedParts DEF Tables
<1>7. Meant(e) = Meant(d)
  BY <1>1, <1>2, SameRowsKeepMeaning
<1> QED  BY <1>1, <1>6, <1>7 DEF d, e, Latest

\* The invariant holds when the first process starts.
LEMMA SInitially ==
    ASSUME Init PROVE SInv /\ Kept
<1>1. /\ env \in Environments /\ work = db /\ proc = "stopped"
      /\ target = Latest /\ edited = FALSE /\ recorded = Meant(db)
      /\ env.migrated => db \in Databases
      /\ ~env.migrated => db = EmptyDatabase
  BY DEF Init
<1>2. env.migrated \in BOOLEAN
  BY <1>1, StartupAssumption DEF Environment
<1>3. WellFormed(db)
  BY <1>1, <1>2, EmptyWellFormed, StartupAssumption
<1>4. SInv
  BY <1>1, <1>3 DEF SInv, Stages, Down, Migrating, Initialised
<1> QED  BY <1>1, <1>4 DEF Kept

\* A process that goes on with the database as it is.
LEMMA GoesOn ==
    ASSUME SInv, proc' \in Stages, target' \in Targets \cup {Latest},
           UNCHANGED <<env, db, edited>>, work' = db,
           proc' \in Migrating => env.migrated,
           proc' \in {"config", "create_all"} /\ env.migrated => db.rev = Latest,
           proc' \in Initialised => db.rev = Latest
    PROVE  SInv' /\ (Kept /\ recorded' = recorded => Kept')
<1>1. SInv'
  BY DEF SInv
<1>2. Meant(db)' = Meant(db) /\ Meant(work)' = Meant(db)
  BY DEF Meant, ReadingsMeant, ThresholdsMeant, ParameterMeant, ParameterSlug, UnitMeant
<1> QED  BY <1>1, <1>2 DEF Kept

\* A statement that commits while requests are served, or before.
LEMMA Commits ==
    ASSUME SInv, NEW e, WellFormed(e), e.rev = Latest, Store(e),
           UNCHANGED <<env, target>>, proc' \in Initialised, edited' \in BOOLEAN
    PROVE  SInv'
<1>1. db' = e /\ work' = e /\ db'.rev = Latest
  BY DEF Store
<1>2. proc' \in Stages /\ proc' \notin Migrating
      /\ proc' \notin {"config", "create_all"}
  BY DEF Initialised, Stages, Migrating
<1>3. WellFormed(db)' /\ WellFormed(work)'
  BY <1>1, Zenon DEF WellFormed
<1> QED  BY <1>1, <1>2, <1>3 DEF SInv

-----------------------------------------------------------------------------
(* The process and the migrations keep it.                                 *)

\* Meaning is that of the database, whatever the state it is in.
LEMMA MeantOf ==
    ASSUME NEW e
    PROVE  /\ db' = e => Meant(db)' = Meant(e) /\ WellFormed(db)' = WellFormed(e)
           /\ work' = e => Meant(work)' = Meant(e) /\ WellFormed(work)' = WellFormed(e)
<1>1. ASSUME db' = e PROVE Meant(db)' = Meant(e) /\ WellFormed(db)' = WellFormed(e)
  <2>1. Meant(db)' = Meant(db') /\ WellFormed(db)' = WellFormed(db')
    OBVIOUS
  <2> QED  BY <1>1, <2>1, Zenon
<1>2. ASSUME work' = e
      PROVE  Meant(work)' = Meant(e) /\ WellFormed(work)' = WellFormed(e)
  <2>1. Meant(work)' = Meant(work') /\ WellFormed(work)' = WellFormed(work')
    OBVIOUS
  <2> QED  BY <1>2, <2>1, Zenon
<1> QED  BY <1>1, <1>2

\* A process that ends keeps it: what was not committed is lost.
LEMMA Exits ==
    ASSUME SInv, Exit PROVE SInv' /\ (Kept => Kept')
BY GoesOn DEF Exit, Stages, Down, Migrating, Initialised, SInv

\* A process that starts keeps it.
LEMMA StartKeeps ==
    ASSUME SInv, Start PROVE SInv' /\ (Kept => Kept')
<1>1. work = db /\ proc \in Down
  BY DEF Start, SInv, Down, Migrating
<1>2. work' = db
  BY <1>1 DEF Start
<1>3. proc' \in Stages /\ target' \in Targets \cup {Latest} /\ proc' \notin Initialised
  BY DEF Start, Goto, Stages, SInv, Initialised
<1> QED  BY <1>2, <1>3, GoesOn DEF Start, Goto, Migrating

\* An upgrade, its refusal and its commit keep it.
LEMMA UpgradeKeeps ==
    ASSUME SInv, UpgradeOne \/ UpgradeRefused \/ CommitUpgrade
    PROVE  SInv' /\ (Kept => Kept')
<1>1. CASE UpgradeOne
  <2> DEFINE e == Upgraded(work)
  <2>1. WellFormed(e) /\ Meant(e) = Meant(work)
    BY <1>1, Upgrades DEF UpgradeOne, SInv
  <2>2. work' = e
    BY <1>1 DEF UpgradeOne
  <2> HIDE DEF e
  <2>3. WellFormed(work)' /\ Meant(work)' = Meant(work)
    BY <2>1, <2>2, MeantOf
  <2>4. /\ db' = db /\ proc = "upgrade"
        /\ UNCHANGED <<env, proc, target, edited, recorded>>
    BY <1>1 DEF UpgradeOne
  <2>5. WellFormed(db)' = WellFormed(db) /\ Meant(db)' = Meant(db)
    BY <2>4, MeantOf
  <2> QED  BY <2>3, <2>4, <2>5 DEF SInv, Kept, Migrating, Initialised
<1>2. CASE UpgradeRefused
  BY <1>2, Exits DEF UpgradeRefused
<1>3. CASE CommitUpgrade
  <2>1. /\ db' = work /\ work' = work /\ work.rev = Latest /\ env.migrated
        /\ proc' = "config" /\ UNCHANGED <<env, target, edited, recorded>>
    BY <1>3 DEF CommitUpgrade, SInv, Goto, Migrating
  <2>2. /\ WellFormed(db)' = WellFormed(work) /\ Meant(db)' = Meant(work)
        /\ WellFormed(work)' = WellFormed(work) /\ Meant(work)' = Meant(work)
    BY <2>1, MeantOf
  <2> QED  BY <2>1, <2>2 DEF SInv, Kept, Migrating, Initialised, Stages
<1> QED  BY <1>1, <1>2, <1>3

\* A downgrade, its refusal and its commit keep it, and the meaning of the rows
\* down to the revisions that have them.
LEMMA DowngradeKeeps ==
    ASSUME SInv, DowngradeOne \/ DowngradeRefused \/ CommitDowngrade
    PROVE  SInv' /\ (KeepsRecords /\ Kept => Kept')
<1>1. CASE DowngradeOne
  <2> DEFINE e == Downgraded(work)
  <2>1. target \in Targets \cup {Latest} /\ work.rev > target /\ WellFormed(work)
    BY <1>1 DEF DowngradeOne, SInv
  <2>2. target \in Nat /\ (KeepsRecords => target >= 5) /\ work.rev \in 0..Latest
    <3>1. work.rev \in 0..Latest
      BY <2>1, Zenon DEF WellFormed
    <3>2. target \in 0..Latest
      BY <2>1, StartupAssumption DEF Latest
    <3>3. KeepsRecords => target \in 5..Latest
      BY <2>1 DEF KeepsRecords, Latest
    <3> QED  BY <3>1, <3>2, <3>3 DEF Latest
  <2>3. work.rev > 0 /\ (KeepsRecords => work.rev > 5)
    BY <2>1, <2>2 DEF Latest
  <2>4. WellFormed(e) /\ (KeepsRecords => Meant(e) = Meant(work))
    BY <1>1, <2>1, <2>3, Downgrades DEF DowngradeOne
  <2>5. work' = e
    BY <1>1 DEF DowngradeOne
  <2> HIDE DEF e
  <2>6. WellFormed(work)' /\ (KeepsRecords => Meant(work)' = Meant(work))
    BY <2>4, <2>5, MeantOf
  <2>7. /\ db' = db /\ proc = "downgrade"
        /\ UNCHANGED <<env, proc, target, edited, recorded>>
    BY <1>1 DEF DowngradeOne
  <2>8. WellFormed(db)' = WellFormed(db) /\ Meant(db)' = Meant(db)
    BY <2>7, MeantOf
  <2> QED  BY <2>6, <2>7, <2>8 DEF SInv, Kept, Migrating, Initialised
<1>2. CASE DowngradeRefused
  BY <1>2, Exits DEF DowngradeRefused
<1>3. CASE CommitDowngrade
  <2>1. db' = work /\ work' = work /\ env.migrated /\ proc' = "stopped"
        /\ UNCHANGED <<env, target, edited, recorded>>
    BY <1>3 DEF CommitDowngrade, SInv, Goto, Migrating
  <2>2. /\ WellFormed(db)' = WellFormed(work) /\ Meant(db)' = Meant(work)
        /\ WellFormed(work)' = WellFormed(work) /\ Meant(work)' = Meant(work)
    BY <2>1, MeantOf
  <2> QED  BY <2>1, <2>2 DEF SInv, Kept, Migrating, Initialised, Stages, Down
<1> QED  BY <1>1, <1>2, <1>3

\* The check of the settings, a ping, a crash and the start of a downgrade.
LEMMA OthersKeep ==
    ASSUME SettingsFit, SInv,
           CheckConfig \/ Ping \/ Crash \/ \E to \in Targets : BeginDowngrade(to)
    PROVE  SInv' /\ (Kept => Kept')
<1>1. CASE CheckConfig
  <2>1. CASE Exit
    BY <2>1, Exits
  <2>2. CASE ~Exit
    <3>1. /\ proc = "config" /\ proc' \in {"create_all", "ping"}
          /\ (proc' = "ping" => ~env.seeds)
          /\ UNCHANGED <<env, db, work, target, recorded, edited>>
      BY <1>1, <2>2 DEF CheckConfig, Goto
    <3>2. work' = db /\ env \in Environments
          /\ (proc' \in Initialised => ~env.seeds)
      BY <3>1 DEF SInv, Migrating, Initialised
    <3>3. (env.migrated => db.rev = Latest) /\ (~env.seeds => env.migrated)
      BY <3>1, <3>2 DEF SInv, SettingsFit
    <3>4. /\ proc' \in Stages /\ proc' \notin Migrating
          /\ target' \in Targets \cup {Latest}
      BY <3>1 DEF Stages, Migrating, SInv
    <3> QED  BY <3>1, <3>2, <3>3, <3>4, GoesOn
  <2> QED  BY <2>1, <2>2
<1>2. CASE Ping
  BY <1>2, GoesOn DEF Ping, Goto, SInv, Stages, Migrating, Initialised
<1>3. CASE Crash
  BY <1>3, GoesOn DEF Crash, Goto, SInv, Stages, Down, Migrating, Initialised
<1>4. CASE \E to \in Targets : BeginDowngrade(to)
  BY <1>4, GoesOn DEF BeginDowngrade, Goto, SInv, Stages, Down, Migrating, Initialised
<1> QED  BY <1>1, <1>2, <1>3, <1>4

-----------------------------------------------------------------------------
(* The seeds and the requests keep it.                                     *)

\* A row of the database with some columns replaced.
LEMMA Edited ==
    ASSUME NEW d, Fields(d), NEW A
    PROVE  /\ LET e == [d EXCEPT !.parameters = A] IN
              Only({"parameters"}, d, e) /\ e.parameters = A
           /\ LET e == [d EXCEPT !.parameterUnits = A] IN
              Only({"parameterUnits"}, d, e) /\ e.parameterUnits = A
           /\ LET e == [d EXCEPT !.units = A] IN
              Only({"units"}, d, e) /\ e.units = A
           /\ LET e == [d EXCEPT !.readings = A] IN
              Only({"readings"}, d, e) /\ e.readings = A
BY DEF Only, Fields, Columns

\* What changes fewer columns changes no more than these.
LEMMA OnlyWidens ==
    ASSUME NEW d, NEW e, NEW F, NEW G, F \subseteq G, Only(F, d, e)
    PROVE  Only(G, d, e)
BY DEF Only

\* A statement that leaves the readings and thresholds saying what they said.
LEMMA EditKeeps ==
    ASSUME SInv, NEW e, WellFormed(e), e.rev = Latest, Meant(e) = Meant(db), Store(e),
           UNCHANGED <<env, target, recorded>>, proc' \in Initialised,
           edited' \in BOOLEAN
    PROVE  SInv' /\ (Kept => Kept')
<1>1. SInv'
  BY Commits
<1>2. Meant(db)' = Meant(db) /\ Meant(work)' = Meant(db)
  BY MeantOf DEF Store
<1> QED  BY <1>1, <1>2 DEF Kept

\* create_all makes the latest revision of an empty database, and nothing else.
LEMMA CreateAllKeeps ==
    ASSUME SInv, CreateAll PROVE SInv' /\ (Kept => Kept')
<1> DEFINE e == Created(db)
<1>1. WellFormed(db) /\ (db = EmptyDatabase \/ db.rev = Latest)
  <2>1. env.migrated \/ ~env.migrated
    OBVIOUS
  <2> QED  BY <2>1 DEF SInv, CreateAll
<1>2. WellFormed(e) /\ e.rev = Latest /\ Meant(e) = Meant(db)
  <2>1. CASE db = EmptyDatabase
    BY <2>1, CreatedWellFormed
  <2>2. CASE db.rev = Latest
    <3>1. db.tables # {}
      BY <1>1, <2>2, WellFormedParts DEF Latest
    <3>2. e = db
      BY <3>1, Zenon DEF Created
    <3> QED  BY <1>1, <2>2, <3>2
  <2> QED  BY <1>1, <2>1, <2>2
<1>3. /\ Store(e) /\ UNCHANGED <<env, target, recorded, edited>>
      /\ proc' = "seed_parameters"
  BY DEF CreateAll, Goto
<1>4. edited' \in BOOLEAN /\ proc' \in Initialised
  BY <1>3 DEF SInv, Initialised
<1> HIDE DEF e
<1> QED  BY <1>2, <1>3, <1>4, EditKeeps

\* Seeding the parameters keeps the rows there are.
LEMMA SeedParametersKeeps ==
    ASSUME SInv, SeedParametersStep PROVE SInv' /\ (Kept => Kept')
<1> DEFINE A == SeededParameters(Slugs)
           f == [db EXCEPT !.parameters = A]
           e == IF db.parameters # {} THEN db ELSE f
<1>1. WellFormed(db) /\ db.rev = Latest
  BY DEF SInv, SeedParametersStep, Initialised
<1>2. Store(e) /\ UNCHANGED <<env, target, recorded, edited>> /\ proc' = "seed_units"
  BY Zenon DEF SeedParametersStep, Goto
<1>3. edited' \in BOOLEAN /\ proc' \in Initialised
  BY <1>2 DEF SInv, Initialised
<1>4. CASE db.parameters # {}
  BY <1>1, <1>2, <1>3, <1>4, EditKeeps
<1>5. CASE db.parameters = {}
  <2> HIDE DEF A
  <2>1. Fields(db) /\ Typed(11, db)
    BY <1>1, WellFormedParts DEF Latest
  <2>2. Only({"parameters"}, db, f) /\ f.parameters = A
    BY <2>1, Edited
  <2>3. e = f
    BY <1>5
  <2> HIDE DEF e, f
  <2>4. /\ Only({"parameters", "parameterUnits"}, db, f)
        /\ f.parameterUnits = db.parameterUnits
    BY <2>2, OnlyWidens, OnlyKeeps
  <2>5. db.parameterUnits \subseteq AssociationRows
    BY <2>1 DEF Typed
  <2>6. WellFormed(f) /\ f.rev = Latest /\ Meant(f) = Meant(db)
    BY <1>1, <1>5, <2>2, <2>4, <2>5, ParametersEdited DEF A
  <2> QED  BY <1>2, <1>3, <2>3, <2>6, EditKeeps
<1> QED  BY <1>4, <1>5

\* A request that creates a parameter.
LEMMA CreateParameterKeeps ==
    ASSUME SInv, NEW p \in SeededParameters(Slugs), CreateParameter(p)
    PROVE  SInv' /\ (Kept => Kept')
<1> DEFINE A == db.parameters \cup {p}
           e == [db EXCEPT !.parameters = A]
<1>1. WellFormed(db) /\ db.rev = Latest /\ proc = "serving"
  BY DEF SInv, CreateParameter, Initialised
<1>2. Store(e) /\ UNCHANGED <<env, proc, target, recorded, edited>>
  BY Zenon DEF CreateParameter
<1>3. edited' \in BOOLEAN /\ proc' \in Initialised
  BY <1>1, <1>2 DEF SInv, Initialised
<1>4. Fields(db) /\ Typed(11, db)
  BY <1>1, WellFormedParts DEF Latest
<1>5. A \subseteq SeededParameters(Slugs) /\ db.parameters \subseteq A
  BY <1>4 DEF Typed
<1> HIDE DEF A
<1>6. Only({"parameters"}, db, e) /\ e.parameters = A
  BY <1>4, Edited
<1> HIDE DEF e
<1>7. /\ Only({"parameters", "parameterUnits"}, db, e)
      /\ e.parameterUnits = db.parameterUnits
  BY <1>6, OnlyWidens, OnlyKeeps
<1>8. db.parameterUnits \subseteq AssociationRows
  BY <1>4 DEF Typed
<1>9. WellFormed(e) /\ e.rev = Latest /\ Meant(e) = Meant(db)
  BY <1>1, <1>5, <1>6, <1>7, <1>8, ParametersEdited
<1> QED  BY <1>2, <1>3, <1>9, EditKeeps

\* A request that deletes a parameter: foreign keys refuse it while a reading or
\* a threshold refers to it.
LEMMA DeleteParameterKeeps ==
    ASSUME SInv, NEW p \in db.parameters, DeleteParameter(p)
    PROVE  SInv' /\ (Kept => Kept')
<1> DEFINE A == db.parameters \ {p}
           B == {a \in db.parameterUnits : a.parameter # p.id}
           e == [db EXCEPT !.parameters = A, !.parameterUnits = B]
<1>1. WellFormed(db) /\ db.rev = Latest /\ proc = "serving"
  BY DEF SInv, DeleteParameter, Initialised
<1>2. Store(e) /\ edited' = TRUE /\ UNCHANGED <<env, proc, target, recorded>>
  BY Zenon DEF DeleteParameter
<1>3. edited' \in BOOLEAN /\ proc' \in Initialised
  BY <1>1, <1>2 DEF Initialised
<1>4. Fields(db) /\ Typed(11, db)
  BY <1>1, WellFormedParts DEF Latest
<1>5. /\ A \subseteq SeededParameters(Slugs) /\ B \subseteq AssociationRows
      /\ \A q \in db.parameters \ A : q = p
  BY <1>4 DEF Typed
<1> HIDE DEF A, B
<1>6. /\ Only({"parameters", "parameterUnits"}, db, e)
      /\ e.parameters = A /\ e.parameterUnits = B
  BY <1>4 DEF Only, Fields, Columns
<1> HIDE DEF e
<1>7. /\ \A m \in db.readings : m.parameter # p.id
      /\ \A t \in db.thresholds : t.parameter # p.id
  BY DEF DeleteParameter
<1>8. WellFormed(e) /\ e.rev = Latest /\ Meant(e) = Meant(db)
  BY <1>1, <1>5, <1>6, <1>7, ParametersEdited
<1> QED  BY <1>2, <1>3, <1>8, EditKeeps

\* Seeding the units keeps the rows there are, and adds what has no slug yet.
LEMMA SeedUnitsKeeps ==
    ASSUME SInv, SeedUnitsStep PROVE SInv' /\ (Kept => Kept')
<1> DEFINE A == SeededUnits(Slugs)
           f == [db EXCEPT !.units = A]
           e == IF db.units # {} THEN db ELSE f
<1>1. WellFormed(db) /\ db.rev = Latest
  BY DEF SInv, SeedUnitsStep, Initialised
<1>2. /\ Store(e) /\ UNCHANGED <<env, target, recorded, edited>>
      /\ proc' = "seed_parameter_units"
  BY Zenon DEF SeedUnitsStep, Goto
<1>3. edited' \in BOOLEAN /\ proc' \in Initialised
  BY <1>2 DEF SInv, Initialised
<1>4. CASE db.units # {}
  BY <1>1, <1>2, <1>3, <1>4, EditKeeps
<1>5. CASE db.units = {}
  <2> HIDE DEF A
  <2>1. Fields(db)
    BY <1>1, WellFormedParts
  <2>2. Only({"units"}, db, f) /\ f.units = A
    BY <2>1, Edited
  <2>3. e = f
    BY <1>5
  <2> HIDE DEF e, f
  <2>4. /\ f.units \subseteq UnitRows(11) /\ UnitsSound(f)
        /\ \A u, v \in f.units : u.slug = v.slug => u = v
    BY <2>2, SeededUnitRows DEF A, UnitRows, Latest, UnitsSound
  <2>5. WellFormed(f) /\ f.rev = Latest /\ Meant(f) = Meant(db)
    BY <1>1, <1>5, <2>2, <2>4, UnitsEdited
  <2> QED  BY <1>2, <1>3, <2>3, <2>5, EditKeeps
<1> QED  BY <1>4, <1>5

\* A request that creates a unit: its slug is new.
LEMMA CreateUnitKeeps ==
    ASSUME SInv, NEW n \in NewUnits, CreateUnit(n)
    PROVE  SInv' /\ (Kept => Kept')
<1> DEFINE u == [id |-> NextId(db.units), slug |-> SlugifyUnit[n], unit |-> n]
           A == db.units \cup {u}
           e == [db EXCEPT !.units = A]
<1>1. WellFormed(db) /\ db.rev = Latest /\ proc = "serving"
  BY DEF SInv, CreateUnit, Initialised
<1>2. Store(e) /\ UNCHANGED <<env, proc, target, recorded, edited>>
  BY Zenon DEF CreateUnit
<1>3. edited' \in BOOLEAN /\ proc' \in Initialised
  BY <1>1, <1>2 DEF SInv, Initialised
<1>4. /\ Fields(db) /\ Typed(11, db) /\ UnitsSound(db)
      /\ \A x, y \in db.units : x.slug = y.slug => x = y
  BY <1>1, WellFormedParts, Zenon DEF Latest, Legal, SlugsUnique, Distinct
<1>5. \A x \in db.units : x.slug # SlugifyUnit[n]
  BY DEF CreateUnit
<1>6. /\ u \in UnitRows(11)
      /\ \A x \in db.units : x.id # u.id /\ x.slug # u.slug
  <2>1. n \in AllNotations /\ SlugifyUnit[n] \in AllNotations
    BY StartupAssumption, SlugIsNotation
  <2>2. NextId(db.units) \in Nat \ {0} /\ \A x \in db.units : x.id # NextId(db.units)
    BY <1>4, NextIdNew DEF UnitsSound
  <2> QED  BY <1>5, <2>1, <2>2 DEF UnitRows, Latest
<1> HIDE DEF u
<1>7. /\ A \subseteq UnitRows(11) /\ IsFiniteSet(A) /\ db.units \subseteq A
      /\ \A x, y \in A : x.id = y.id \/ x.slug = y.slug => x = y
  <2>1. IsFiniteSet(A)
    BY <1>4, FS_AddElement DEF UnitsSound
  <2>2. A \subseteq UnitRows(11)
    BY <1>4, <1>6 DEF Typed
  <2> QED  BY <1>4, <1>6, <2>1, <2>2 DEF UnitsSound
<1> HIDE DEF A
<1>8. Only({"units"}, db, e) /\ e.units = A
  BY <1>4, Edited
<1> HIDE DEF e
<1>9. WellFormed(e) /\ e.rev = Latest /\ Meant(e) = Meant(db)
  <2>1. UnitsSound(e)
    BY <1>7, <1>8 DEF UnitsSound
  <2> QED  BY <1>1, <1>7, <1>8, <2>1, UnitsEdited
<1> QED  BY <1>2, <1>3, <1>9, EditKeeps

\* A request that deletes a unit: foreign keys refuse it while a reading refers
\* to it.
LEMMA DeleteUnitKeeps ==
    ASSUME SInv, NEW u \in db.units, DeleteUnit(u)
    PROVE  SInv' /\ (Kept => Kept')
<1> DEFINE A == db.units \ {u}
           e == [db EXCEPT !.units = A]
<1>1. WellFormed(db) /\ db.rev = Latest /\ proc = "serving"
  BY DEF SInv, DeleteUnit, Initialised
<1>2. Store(e) /\ edited' = TRUE /\ UNCHANGED <<env, proc, target, recorded>>
  BY Zenon DEF DeleteUnit
<1>3. edited' \in BOOLEAN /\ proc' \in Initialised
  BY <1>1, <1>2 DEF Initialised
<1>4. /\ Fields(db) /\ Typed(11, db) /\ UnitsSound(db)
      /\ \A x, y \in db.units : x.slug = y.slug => x = y
  BY <1>1, WellFormedParts, Zenon DEF Latest, Legal, SlugsUnique, Distinct
<1>5. \A m \in db.readings : m.unit # u.id /\ m.raw # u.id
  BY DEF DeleteUnit
<1>6. IsFiniteSet(A)
  BY <1>4, FS_Subset DEF UnitsSound
<1>7. /\ A \subseteq UnitRows(11) /\ A \subseteq db.units
      /\ \A x \in db.units \ A : x = u
  BY <1>4 DEF Typed
<1> HIDE DEF A
<1>8. Only({"units"}, db, e) /\ e.units = A
  BY <1>4, Edited
<1> HIDE DEF e
<1>9. WellFormed(e) /\ e.rev = Latest /\ Meant(e) = Meant(db)
  <2>1. UnitsSound(e) /\ \A x, y \in e.units : x.slug = y.slug => x = y
    BY <1>4, <1>6, <1>7, <1>8 DEF UnitsSound
  <2> QED  BY <1>1, <1>5, <1>7, <1>8, <2>1, UnitsEdited
<1> QED  BY <1>2, <1>3, <1>9, EditKeeps

\* Seeding the associations.
LEMMA SeedParameterUnitsKeeps ==
    ASSUME SInv, SeedParameterUnitsStep PROVE SInv' /\ (Kept => Kept')
<1> DEFINE seeds == {a \in SeedParameterUnits : a[1] \in Slugs}
           A == {SeedRow(a) : a \in seeds}
           e == [db EXCEPT !.parameterUnits = A]
<1>1. WellFormed(db) /\ db.rev = Latest /\ work = db /\ proc = "seed_parameter_units"
  BY DEF SInv, SeedParameterUnitsStep, Initialised, Migrating
<1>2. CASE /\ proc' = "ping"
           /\ UNCHANGED <<env, db, work, target, recorded, edited>>
  BY <1>1, <1>2, GoesOn DEF SInv, Stages, Migrating, Initialised
<1>3. CASE Exit
  BY <1>3, Exits
<1>4. CASE /\ \A a \in seeds : Seedable(a)
           /\ Store(e) /\ proc' = "ping"
           /\ UNCHANGED <<env, target, recorded, edited>>
  <2>1. edited' \in BOOLEAN /\ proc' \in Initialised
    BY <1>4 DEF SInv, Initialised
  <2>2. Fields(db) /\ Typed(11, db)
    BY <1>1, WellFormedParts DEF Latest
  <2>3. A \subseteq AssociationRows
    <3>1. ASSUME NEW a \in seeds PROVE SeedRow(a) \in AssociationRows
      <4>1. a[3] \in BOOLEAN
        BY SeedsListed
      <4>2. ParameterId(db, a[1]) \in Nat
        BY <2>2, ParametersFound DEF Typed
      <4>3. (CHOOSE u \in db.units : u.unit = a[2]).id \in Nat
        <5> DEFINE found == {u \in db.units : u.unit = a[2]}
        <5>1. Cardinality(found) = 1
          BY <1>4, Zenon DEF Seedable
        <5>2. found # {}
          <6> HIDE DEF found
          <6> QED  BY <5>1, FS_EmptySet
        <5>3. \A u \in db.units : u.id \in Nat
          BY <2>2 DEF Typed, UnitRows
        <5> QED  BY <5>2, <5>3
      <4> QED  BY <4>1, <4>2, <4>3 DEF SeedRow, AssociationRows
    <3> QED  BY <3>1
  <2> HIDE DEF A
  <2>4. Only({"parameterUnits"}, db, e) /\ e.parameterUnits = A
    BY <2>2, Edited
  <2>5. Store(e) /\ UNCHANGED <<env, target, recorded>>
    BY <1>4
  <2> HIDE DEF e
  <2>6. Only({"parameters", "parameterUnits"}, db, e) /\ e.parameters = db.parameters
    BY <2>4, OnlyWidens, OnlyKeeps
  <2>7. WellFormed(e) /\ e.rev = Latest /\ Meant(e) = Meant(db)
    BY <1>1, <2>2, <2>3, <2>4, <2>6, ParametersEdited DEF Typed
  <2> QED  BY <2>1, <2>5, <2>7, EditKeeps
<1> QED  BY <1>2, <1>3, <1>4, Zenon DEF SeedParameterUnitsStep, Goto

\* A reading is stored, and what it says is recorded with it.
LEMMA TakeReadingKeeps ==
    ASSUME SInv, NEW p \in db.parameters, NEW u \in db.units, TakeReading(p, u.id)
    PROVE  SInv' /\ Kept'
<1> DEFINE unit == CHOOSE v \in db.units :
                     LowerCase[v.unit] = LowerCase[ParameterRules[p.slug].canonical]
           free == {n \in 1..MaxReadings : \A m \in db.readings : m.id # n}
           new == [id |-> CHOOSE n \in free : TRUE, parameter |-> p.id,
                   unit |-> unit.id, raw |-> u.id]
           A == db.readings \cup {new}
           e == [db EXCEPT !.readings = A]
<1>1. WellFormed(db) /\ db.rev = Latest /\ proc = "serving"
  BY DEF SInv, TakeReading, Initialised
<1>2. /\ Store(e) /\ UNCHANGED <<env, proc, target, edited>> /\ free # {}
      /\ recorded' = Meant(db')
      /\ \E v \in db.units :
           LowerCase[v.unit] = LowerCase[ParameterRules[p.slug].canonical]
  BY Zenon DEF TakeReading
<1>3. edited' \in BOOLEAN /\ proc' \in Initialised
  BY <1>1, <1>2 DEF SInv, Initialised
<1>4. Fields(db) /\ Typed(11, db)
  BY <1>1, WellFormedParts DEF Latest
<1>5. unit \in db.units
  BY <1>2
<1>6. (CHOOSE n \in free : TRUE) \in Nat
  BY <1>2, StartupAssumption
<1>7. /\ new \in ReadingRows(11) /\ new.parameter = p.id
      /\ new.unit = unit.id /\ new.raw = u.id
  <2>1. p.id \in Nat
    BY <1>4, SeededParameterRows DEF Typed
  <2>2. unit.id \in Nat /\ u.id \in Nat
    BY <1>4, <1>5 DEF Typed, UnitRows
  <2> HIDE DEF free, unit
  <2> QED  BY <1>6, <2>1, <2>2 DEF ReadingRows, ParameterKey, UnitKey
<1> HIDE DEF new, unit
<1>8. A = db.readings \cup {new}
  OBVIOUS
<1> HIDE DEF A
<1>9. Only({"readings"}, db, e) /\ e.readings = A
  BY <1>4, Edited
<1> HIDE DEF e
<1>10. WellFormed(e) /\ e.rev = Latest
  BY <1>1, <1>5, <1>7, <1>8, <1>9, ReadingStored
<1>11. SInv'
  BY <1>2, <1>3, <1>10, Commits
<1>12. Meant(db)' = Meant(e) /\ Meant(work)' = Meant(e) /\ recorded' = Meant(e)
  BY <1>2, MeantOf DEF Store
<1> QED  BY <1>11, <1>12 DEF Kept

-----------------------------------------------------------------------------
(* Type correctness, the revision that is served, and the meaning of rows. *)

\* The steps of a process that starts.
LEMMA BootKeeps ==
    ASSUME SettingsFit, SInv, Boot PROVE SInv' /\ (Kept => Kept')
BY UpgradeKeeps, OthersKeep, CreateAllKeeps, SeedParametersKeeps, SeedUnitsKeeps,
   SeedParameterUnitsKeeps DEF Boot

\* The requests that are served.
LEMMA ServeKeeps ==
    ASSUME SInv, Serve PROVE SInv' /\ (Kept => Kept')
<1>1. CASE \E p \in db.parameters, u \in db.units : TakeReading(p, u.id)
  BY <1>1, TakeReadingKeeps
<1>2. CASE \E n \in NewUnits : CreateUnit(n)
  BY <1>2, CreateUnitKeeps
<1>3. CASE \E u \in db.units : DeleteUnit(u)
  BY <1>3, DeleteUnitKeeps
<1>4. CASE \E p \in db.parameters : DeleteParameter(p)
  BY <1>4, DeleteParameterKeeps
<1>5. CASE \E p \in SeededParameters(Slugs) : CreateParameter(p)
  BY <1>5, CreateParameterKeeps
<1> QED  BY <1>1, <1>2, <1>3, <1>4, <1>5 DEF Serve

\* Every step keeps the invariant, and the meaning where rows are kept.
LEMMA NextKeeps ==
    ASSUME SettingsFit, SInv, [Next]_vars
    PROVE  SInv' /\ (KeepsRecords /\ Kept => Kept')
<1>1. CASE Start
  BY <1>1, StartKeeps
<1>2. CASE Boot
  BY <1>2, BootKeeps
<1>3. CASE Crash
  BY <1>3, OthersKeep
<1>4. CASE Operator
  BY <1>4, OthersKeep, DowngradeKeeps DEF Operator
<1>5. CASE Serve
  BY <1>5, ServeKeeps
<1>6. CASE UNCHANGED vars
  <2>1. db' = db /\ work' = work /\ UNCHANGED <<env, proc, target, recorded, edited>>
    BY <1>6 DEF vars
  <2>2. /\ WellFormed(db)' = WellFormed(db) /\ Meant(db)' = Meant(db)
        /\ WellFormed(work)' = WellFormed(work) /\ Meant(work)' = Meant(work)
    BY <2>1, MeantOf
  <2> QED  BY <2>1, <2>2 DEF SInv, Kept
<1> QED  BY <1>1, <1>2, <1>3, <1>4, <1>5, <1>6 DEF Next

\* SInv is an invariant: in every environment and for every history of starts,
\* crashes, upgrades, downgrades and requests (src/src/db.py, src/src/app.py and
\* src/alembic/versions).
THEOREM AlwaysSound == SettingsFit /\ Spec => []SInv
<1> SUFFICES ASSUME SettingsFit PROVE Spec => []SInv
  OBVIOUS
<1>1. Init => SInv
  BY SInitially
<1>2. SInv /\ [Next]_vars => SInv'
  BY NextKeeps
<1> QED  BY <1>1, <1>2, PTL DEF Spec

\* The type invariant. Both databases have the columns and the kinds of values
\* of their revision, whatever has been migrated, seeded or requested before.
THEOREM AlwaysTyped == SettingsFit /\ Spec => []TypeOK
<1>1. SInv => TypeOK
  <2> SUFFICES ASSUME SInv PROVE TypeOK
    OBVIOUS
  <2>1. target \in 0..Latest
    BY StartupAssumption DEF SInv, Latest
  <2>2. db.rev \in 0..Latest /\ Legal(db) /\ work.rev \in 0..Latest /\ Legal(work)
    BY Zenon DEF SInv, WellFormed
  <2> QED  BY <2>1, <2>2 DEF SInv, TypeOK, Migrating
<1> QED  BY <1>1, AlwaysSound, PTL

\* The process that serves has the latest revision: no request meets a database
\* that lacks a table or a column of the code that answers it
\* (src/src/db.py run_migrations before initialize, and create_all).
THEOREM AlwaysServesAtLatest == SettingsFit /\ Spec => []ServesAtLatest
<1>1. SInv => ServesAtLatest
  BY DEF SInv, ServesAtLatest, Initialised
<1> QED  BY <1>1, AlwaysSound, PTL

\* Whatever revisions a database goes through, forth and back, with crashes and
\* refusals between, a reading says of the same parameter the same physical unit
\* as when it was stored, and a threshold is one of the same parameter
\* (src/alembic/versions/20260731_000002 to 20260731_000005).
THEOREM AlwaysKeepsMeaning == SettingsFit /\ KeepsRecords /\ Spec => []MeaningKept
<1> SUFFICES ASSUME SettingsFit, KeepsRecords PROVE Spec => []MeaningKept
  OBVIOUS
<1>1. Init => SInv /\ Kept
  BY SInitially
<1>2. SInv /\ Kept /\ [Next]_vars => SInv' /\ Kept'
  BY NextKeeps
<1>3. Kept => MeaningKept
  BY DEF Kept, MeaningKept
<1> QED  BY <1>1, <1>2, <1>3, PTL DEF Spec

-----------------------------------------------------------------------------
(* Refusals: what an upgrade joins.                                        *)

\* The notations that revision 20260731_000005 writes.
Rewritten == {"US Gal", "SG", "degC", "degF"}

\* The keys that revision 11 makes of the units are distinct while they are
\* slugs (revisions 9 and 10), and stay the units' keys at revision 11, but for
\* the notations that it rewrote.
Keyed(d) ==
    /\ d.rev \in {9, 10} =>
         \A u, v \in d.units : SlugifyUnit[u.slug] = SlugifyUnit[v.slug] => u = v
    /\ d.rev = Latest =>
         \A u \in d.units : u.slug = SlugifyUnit[u.unit] \/ u.unit \in Rewritten

\* Revision 10 finds the unit that is written x: at revision 9 among the units,
\* below it among those that revision 9 will seed.
Joined(d, x) ==
    IF d.rev = 9 THEN \E u \in d.units : LowerCase[u.slug] = LowerCase[x]
                 ELSE \E n \in UsedUnits(Slugs) : LowerCase[n] = LowerCase[x]
\* Readings and thresholds name parameters and units that the migrations know,
\* up to the revisions that turn the names into ids.
Known(d) ==
    /\ d.rev <= 5 => /\ \A m \in d.readings : m.parameter \in Slugs
                     /\ \A t \in d.thresholds : t.parameter \in Slugs
    /\ d.rev <= 9 => \A m \in d.readings : Joined(d, m.unit) /\ Joined(d, m.raw)

\* Of the databases there are when the system starts: the rows that older
\* releases stored name parameters and units that 20260730_000001 and
\* 20260731_000003 seed. A row that names anything else is refused by the foreign
\* keys those revisions add, in any order of steps.
LegacyRows == \A d \in Databases : Keyed(d) /\ Known(d)

\* The inductive invariant: with it every upgrade is legal. A downgrade to below
\* the units takes their rows with it, and one that an administrator added cannot
\* be found again.
LInv ==
    /\ Keyed(db) /\ Keyed(work)
    /\ target >= UnitsSeeded => Known(db) /\ Known(work)

\* What the migrations do to the units and to what is joined with them.
LEMMA Slugified ==
    /\ \A n \in AllNotations : n \in Rewritten => LowerCase[n] \notin {"mg/l", "mg_l"}
    /\ \A n, k \in AllNotations :
         SlugifyUnit[n] = SlugifyUnit[k] =>
           \/ LowerCase[n] = LowerCase[k]
           \/ LowerCase[n] \in {"mg/l", "mg_l"} /\ LowerCase[k] \in {"mg/l", "mg_l"}
<1>1. \A n \in AllNotations : n \in Rewritten => LowerCase[n] \notin {"mg/l", "mg_l"}
  BY Lowered DEF Rewritten
<1>2. \A n \in AllNotations :
        SlugifyUnit[n] = IF LowerCase[n] = "mg/l" THEN "mg_l" ELSE LowerCase[n]
  BY DEF SlugifyUnit
<1> QED  BY <1>1, <1>2

\* An upgrade that finds the parameters and the units it joins is legal.
LEMMA UpgradeLegal ==
    ASSUME NEW d, WellFormed(d), Keyed(d), Known(d), d.rev < Latest
    PROVE  Legal(Upgraded(d))
<1> DEFINE e == Upgraded(d)
<1>1. /\ Fields(d) /\ Typed(d.rev, d) /\ UnitsSound(d) /\ d.rev \in 0..10 /\ Legal(d)
  BY WellFormedParts DEF Latest
<1>2. TypesAgree(d) /\ SlugsUnique(d)
  BY <1>1 DEF Legal
<1>3. CASE d.rev \in 0..4
  <2>1. Only({"rev", "tables"}, d, e) /\ e.rev = d.rev + 1
    BY <1>1, <1>3, UpgradeTablesColumns
  <2> HIDE DEF e
  <2>2. e.units = d.units /\ e.uuids = d.uuids
    BY <2>1, OnlyKeeps
  <2>3. TypesAgree(e)
    BY <1>1, <1>3, <2>1, <2>2 DEF TypesAgree, Typed
  <2>4. SlugsUnique(e)
    BY <1>2, <1>3, <2>1, <2>2 DEF SlugsUnique, Latest
  <2> QED  BY <1>3, <2>1, <2>3, <2>4 DEF Legal, e
<1>4. CASE d.rev = 5
  <2>1. /\ Only({"rev", "tables", "parameters"}, d, e) /\ e.rev = 6
        /\ e.parameters = SeededParameters(Slugs)
    BY <1>1, <1>4, UpgradeCatalogColumns
  <2> HIDE DEF e
  <2>2. e.units = d.units /\ e.uuids = d.uuids /\ e.readings = d.readings
        /\ e.thresholds = d.thresholds
    BY <2>1, OnlyKeeps
  <2>3. TypesAgree(e)
    BY <1>1, <1>4, <2>1, <2>2 DEF TypesAgree, Typed
  <2>4. SlugsUnique(e)
    BY <1>2, <1>4, <2>1, <2>2 DEF SlugsUnique, Latest
  <2>5. /\ \A m \in d.readings : m.parameter \in ParameterKey(0) \cap Slugs
        /\ \A t \in d.thresholds : t.parameter \in ParameterKey(0) \cap Slugs
    BY <1>1, <1>4 DEF Known, Typed, ReadingRows, ThresholdRows, ParameterKey
  <2>6. ParametersReferred(e)
    BY <2>1, <2>2, <2>5, SeededParametersAll DEF ParametersReferred
  <2> QED  BY <2>1, <2>3, <2>4, <2>6 DEF Legal, e
<1>5. CASE d.rev = 6
  <2>1. Only({"rev", "uuids"}, d, e) /\ e.rev = 7 /\ e.uuids = IdColumns
    BY <1>1, <1>5, UpgradeUuidsColumns
  <2> HIDE DEF e
  <2>2. e.units = d.units /\ e.readings = d.readings /\ e.thresholds = d.thresholds
        /\ e.parameters = d.parameters
    BY <2>1, OnlyKeeps
  <2>3. TypesAgree(e)
    BY <2>1 DEF TypesAgree, References, IdColumns
  <2>4. SlugsUnique(e)
    BY <1>2, <1>5, <2>1, <2>2 DEF SlugsUnique, Latest
  <2>5. ParametersReferred(e)
    BY <1>1, <1>5, <2>1, <2>2 DEF Legal, ParametersReferred
  <2> QED  BY <2>1, <2>3, <2>4, <2>5 DEF Legal, e
<1>6. CASE d.rev = 7
  <2> DEFINE f == [m \in d.readings |-> [m EXCEPT !.parameter = ParameterId(d, @)]]
             g == [t \in d.thresholds |-> [t EXCEPT !.parameter = ParameterId(d, @)]]
  <2>1. /\ Only({"rev", "readings", "thresholds"}, d, e) /\ e.rev = 8
        /\ e.readings =
           {[m EXCEPT !.parameter = ParameterId(d, @)] : m \in d.readings}
        /\ e.thresholds =
             {[t EXCEPT !.parameter = ParameterId(d, @)] : t \in d.thresholds}
    BY <1>1, <1>6, UpgradeParameterFkColumns
  <2> HIDE DEF e
  <2>2. e.units = d.units /\ e.uuids = d.uuids /\ e.parameters = d.parameters
    BY <2>1, OnlyKeeps
  <2>3. TypesAgree(e)
    BY <1>1, <1>6, <2>1, <2>2 DEF TypesAgree, Typed, IdColumns, References
  <2>4. SlugsUnique(e)
    BY <1>2, <1>6, <2>1, <2>2 DEF SlugsUnique, Latest
  <2>5. /\ e.readings = {f[m] : m \in d.readings}
        /\ e.thresholds = {g[t] : t \in d.thresholds}
    BY <2>1
  <2>6. /\ \A m \in d.readings : f[m].parameter = ParameterId(d, m.parameter)
        /\ \A t \in d.thresholds : g[t].parameter = ParameterId(d, t.parameter)
    BY <1>1 DEF Typed, ReadingRows, ThresholdRows
  <2> HIDE DEF f, g
  <2>7. /\ \A m \in d.readings : \E p \in d.parameters : m.parameter = p.slug
        /\ \A t \in d.thresholds : \E p \in d.parameters : t.parameter = p.slug
    BY <1>1, <1>6 DEF Legal, ParametersReferred
  <2>8. \A p \in d.parameters : ParameterId(d, p.slug) = p.id
    BY <1>1, ParametersFound DEF Typed
  <2>9. /\ \A m \in e.readings : \E p \in e.parameters : m.parameter = p.id
        /\ \A t \in e.thresholds : \E p \in e.parameters : t.parameter = p.id
    BY <2>2, <2>5, <2>6, <2>7, <2>8
  <2>10. ParametersReferred(e)
    BY <2>1, <2>9 DEF ParametersReferred
  <2> QED  BY <2>1, <2>3, <2>4, <2>10 DEF Legal, e
<1>7. CASE d.rev = 8
  <2> DEFINE f == [u \in SeededUnits(Slugs) |->
                     [id |-> u.id, slug |-> u.unit, unit |-> NoName]]
  <2>1. /\ Only({"rev", "tables", "units", "parameterUnits"}, d, e) /\ e.rev = 9
        /\ e.units = {[id |-> u.id, slug |-> u.unit, unit |-> NoName] :
                        u \in SeededUnits(Slugs)}
    BY <1>1, <1>7, UpgradeUnitCatalogColumns
  <2> HIDE DEF e
  <2>2. /\ e.parameters = d.parameters /\ e.uuids = d.uuids
        /\ e.readings = d.readings /\ e.thresholds = d.thresholds
    BY <2>1, OnlyKeeps
  <2>3. TypesAgree(e)
    BY <1>2, <1>7, <2>1, <2>2 DEF TypesAgree
  <2>4. e.units = {f[u] : u \in SeededUnits(Slugs)}
    BY <2>1
  <2>5. \A u \in SeededUnits(Slugs) : f[u].slug = u.unit
    OBVIOUS
  <2> HIDE DEF f
  <2>6. \A x, y \in e.units : LowerCase[x.slug] = LowerCase[y.slug] => x = y
    BY <2>4, <2>5, SeededUnitRows
  <2>7. SlugsUnique(e)
    BY <2>1, <2>6 DEF SlugsUnique, Distinct, Latest
  <2>8. ParametersReferred(e)
    BY <1>1, <1>7, <2>1, <2>2 DEF Legal, ParametersReferred
  <2> QED  BY <2>1, <2>3, <2>7, <2>8 DEF Legal, e
<1>8. CASE d.rev = 9
  <2> DEFINE f == [m \in d.readings |->
                     [m EXCEPT !.unit = UnitId(d, @), !.raw = UnitId(d, @)]]
  <2>1. /\ Only({"rev", "readings"}, d, e) /\ e.rev = 10
        /\ e.readings = {[m EXCEPT !.unit = UnitId(d, @), !.raw = UnitId(d, @)] :
                           m \in d.readings}
    BY <1>1, <1>8, UpgradeMeasurementFkColumns
  <2> HIDE DEF e
  <2>2. Only({"rev", "readings"}, d, e) /\ e.rev = 10
    BY <2>1
  <2>3. /\ e.parameters = d.parameters /\ e.uuids = d.uuids
        /\ e.units = d.units /\ e.thresholds = d.thresholds
    BY <2>2, OnlyKeeps
  <2>4. TypesAgree(e)
    BY <1>1, <1>8, <2>2, <2>3 DEF TypesAgree, Typed, IdColumns, References
  <2>5. SlugsUnique(e)
    BY <1>2, <1>8, <2>2, <2>3 DEF SlugsUnique, Latest
  <2>6. e.readings = {f[m] : m \in d.readings}
    BY <2>1
  <2>7. \A m \in d.readings : /\ f[m].parameter = m.parameter
                              /\ f[m].unit = UnitId(d, m.unit)
                              /\ f[m].raw = UnitId(d, m.raw)
    <3> TAKE m \in d.readings
    <3>1. f[m] = [m EXCEPT !.unit = UnitId(d, @), !.raw = UnitId(d, @)]
      OBVIOUS
    <3> HIDE DEF f
    <3>2. m \in [id : Nat, parameter : Nat, unit : AllNotations, raw : AllNotations]
      BY <1>1, <1>8 DEF Typed, ReadingRows, ParameterKey, UnitKey
    <3> QED  BY <3>1, <3>2
  <2> HIDE DEF f
  <2>8. \A x : Joined(d, x) => \E u \in d.units : UnitId(d, x) = u.id
    BY <1>8, Zenon DEF Joined, UnitId
  <2>9. \A m \in d.readings : Joined(d, m.unit) /\ Joined(d, m.raw)
    BY <1>8 DEF Known
  <2>10. UnitsReferred(e)
    BY <2>3, <2>6, <2>7, <2>8, <2>9 DEF UnitsReferred
  <2>11. ParametersReferred(e)
    BY <1>1, <1>8, <2>2, <2>3, <2>6, <2>7 DEF Legal, ParametersReferred
  <2> QED  BY <2>2, <2>4, <2>5, <2>10, <2>11 DEF Legal, e
<1>9. CASE d.rev = 10
  <2> DEFINE f == [u \in d.units |->
                     [u EXCEPT !.unit = Renamed(u.slug), !.slug = SlugifyUnit[@]]]
  <2>1. /\ Only({"rev", "units"}, d, e) /\ e.rev = 11
        /\ e.units = {[u EXCEPT !.unit = Renamed(u.slug), !.slug = SlugifyUnit[@]] :
                        u \in d.units}
    BY <1>1, <1>9, UpgradeSlugsColumns
  <2> HIDE DEF e
  <2>2. Only({"rev", "units"}, d, e) /\ e.rev = 11
    BY <2>1
  <2>3. /\ e.parameters = d.parameters /\ e.uuids = d.uuids
        /\ e.readings = d.readings /\ e.thresholds = d.thresholds
    BY <2>2, OnlyKeeps
  <2>4. TypesAgree(e)
    BY <1>1, <1>9, <2>2, <2>3 DEF TypesAgree, Typed, IdColumns, References
  <2>5. e.units = {f[u] : u \in d.units}
    BY <2>1
  <2>6. \A u \in d.units : f[u].id = u.id /\ f[u].slug = SlugifyUnit[u.slug]
    <3> TAKE u \in d.units
    <3>1. f[u] = [u EXCEPT !.unit = Renamed(u.slug), !.slug = SlugifyUnit[@]]
      OBVIOUS
    <3> HIDE DEF f
    <3>2. u \in [id : Nat \ {0}, slug : AllNotations, unit : {NoName}]
      BY <1>1, <1>9 DEF Typed, UnitRows, Latest
    <3> QED  BY <3>1, <3>2
  <2> HIDE DEF f
  <2>7. \A x, y \in e.units : x.slug = y.slug => x = y
    BY <1>9, <2>5, <2>6 DEF Keyed
  <2>8. SlugsUnique(e)
    BY <2>2, <2>7 DEF SlugsUnique, Distinct, Latest
  <2>9. UnitsReferred(e)
    BY <1>1, <1>9, <2>3, <2>5, <2>6 DEF Legal, UnitsReferred
  <2>10. ParametersReferred(e)
    BY <1>1, <1>9, <2>2, <2>3 DEF Legal, ParametersReferred
  <2> QED  BY <2>2, <2>4, <2>8, <2>9, <2>10 DEF Legal, e
<1>10. \/ d.rev \in 0..4 \/ d.rev = 5 \/ d.rev = 6 \/ d.rev = 7
       \/ d.rev = 8 \/ d.rev = 9 \/ d.rev = 10
  BY <1>1
<1> HIDE DEF e
<1>11. Legal(e)
  BY <1>3, <1>4, <1>5, <1>6, <1>7, <1>8, <1>9, <1>10 DEF e
<1> QED  BY <1>11 DEF e

\* An upgrade keeps the keys distinct.
LEMMA UpgradeKeyed ==
    ASSUME NEW d, WellFormed(d), Keyed(d), d.rev < Latest, Legal(Upgraded(d))
    PROVE  Keyed(Upgraded(d))
<1> DEFINE e == Upgraded(d)
<1> SUFFICES Keyed(e)
  OBVIOUS
<1>1. Fields(d) /\ Typed(d.rev, d) /\ d.rev \in 0..10
  BY WellFormedParts DEF Latest
<1>2. e.rev = d.rev + 1
  BY Upgrades
<1>3. CASE d.rev \in 0..7
  <2> HIDE DEF e
  <2> QED  BY <1>2, <1>3 DEF Keyed, Latest
<1>4. CASE d.rev = 8
  <2> DEFINE f == [u \in SeededUnits(Slugs) |->
                     [id |-> u.id, slug |-> u.unit, unit |-> NoName]]
  <2>1. e.units = {f[u] : u \in SeededUnits(Slugs)}
    BY <1>1, <1>4, UpgradeUnitCatalogColumns
  <2>2. \A u \in SeededUnits(Slugs) : f[u].slug = u.unit
    OBVIOUS
  <2> HIDE DEF e, f
  <2>3. \A x, y \in e.units : SlugifyUnit[x.slug] = SlugifyUnit[y.slug] => x = y
    BY <2>1, <2>2, SeededUnitRows
  <2> QED  BY <1>2, <1>4, <2>3 DEF Keyed, Latest
<1>5. CASE d.rev = 9
  <2>1. Only({"rev", "readings"}, d, e)
    BY <1>1, <1>5, UpgradeMeasurementFkColumns
  <2> HIDE DEF e
  <2>2. e.units = d.units
    BY <2>1, OnlyKeeps
  <2> QED  BY <1>2, <1>5, <2>2 DEF Keyed, Latest
<1>6. CASE d.rev = 10
  <2> DEFINE f == [u \in d.units |->
                     [u EXCEPT !.unit = Renamed(u.slug), !.slug = SlugifyUnit[@]]]
  <2>1. e.units = {[u EXCEPT !.unit = Renamed(u.slug), !.slug = SlugifyUnit[@]] :
                     u \in d.units}
    BY <1>1, <1>6, UpgradeSlugsColumns
  <2> HIDE DEF e
  <2>2. e.units = {f[u] : u \in d.units}
    BY <2>1
  <2>3. \A u \in d.units : /\ f[u].slug = SlugifyUnit[u.slug]
                           /\ f[u].unit = Renamed(u.slug)
    <3> TAKE u \in d.units
    <3>1. f[u] = [u EXCEPT !.unit = Renamed(u.slug), !.slug = SlugifyUnit[@]]
      OBVIOUS
    <3> HIDE DEF f
    <3>2. u \in [id : Nat \ {0}, slug : AllNotations, unit : {NoName}]
      BY <1>1, <1>6 DEF Typed, UnitRows, Latest
    <3> QED  BY <3>1, <3>2
  <2> HIDE DEF e, f
  <2>4. \A n : Renamed(n) = n \/ Renamed(n) \in Rewritten
    BY DEF Renamed, Rewritten
  <2>5. \A u \in e.units : u.slug = SlugifyUnit[u.unit] \/ u.unit \in Rewritten
    BY <2>2, <2>3, <2>4
  <2> QED  BY <1>2, <1>6, <2>5 DEF Keyed, Latest
<1>7. d.rev \in 0..7 \/ d.rev = 8 \/ d.rev = 9 \/ d.rev = 10
  BY <1>1
<1> QED  BY <1>3, <1>4, <1>5, <1>6, <1>7

\* An upgrade keeps what the next one will join.
LEMMA UpgradeKnown ==
    ASSUME NEW d, WellFormed(d), Known(d), d.rev < Latest, Legal(Upgraded(d))
    PROVE  Known(Upgraded(d))
<1> DEFINE e == Upgraded(d)
<1> SUFFICES Known(e)
  OBVIOUS
<1>1. Fields(d) /\ Typed(d.rev, d) /\ d.rev \in 0..10
  BY WellFormedParts DEF Latest
<1>2. e.rev = d.rev + 1
  BY Upgrades
<1>3. CASE d.rev \in 0..6
  <2>1. \/ Only({"rev", "tables"}, d, e)
        \/ Only({"rev", "tables", "parameters"}, d, e)
        \/ Only({"rev", "uuids"}, d, e)
    <3>1. d.rev \in 0..4 \/ d.rev = 5 \/ d.rev = 6
      BY <1>3
    <3> QED  BY <1>1, <3>1, UpgradeTablesColumns, UpgradeCatalogColumns,
                UpgradeUuidsColumns
  <2> HIDE DEF e
  <2>2. e.readings = d.readings /\ e.thresholds = d.thresholds
    BY <2>1, OnlyKeeps
  <2>3. \A x : Joined(e, x) = Joined(d, x)
    BY <1>2, <1>3 DEF Joined
  <2> QED  BY <1>2, <1>3, <2>2, <2>3 DEF Known
<1>4. CASE d.rev = 7
  <2> DEFINE f == [m \in d.readings |-> [m EXCEPT !.parameter = ParameterId(d, @)]]
  <2>1. e.readings = {[m EXCEPT !.parameter = ParameterId(d, @)] : m \in d.readings}
    BY <1>1, <1>4, UpgradeParameterFkColumns
  <2> HIDE DEF e
  <2>2. e.readings = {f[m] : m \in d.readings}
    BY <2>1
  <2>3. \A m \in d.readings : f[m].unit = m.unit /\ f[m].raw = m.raw
    BY <1>1, <1>4 DEF Typed, ReadingRows
  <2> HIDE DEF e, f
  <2>4. \A x : Joined(e, x) = Joined(d, x)
    BY <1>2, <1>4 DEF Joined
  <2> QED  BY <1>2, <1>4, <2>2, <2>3, <2>4 DEF Known
<1>5. CASE d.rev = 8
  <2> DEFINE f == [u \in SeededUnits(Slugs) |->
                     [id |-> u.id, slug |-> u.unit, unit |-> NoName]]
  <2>1. /\ Only({"rev", "tables", "units", "parameterUnits"}, d, e)
        /\ e.units = {f[u] : u \in SeededUnits(Slugs)}
    BY <1>1, <1>5, UpgradeUnitCatalogColumns
  <2>2. \A u \in SeededUnits(Slugs) : f[u].slug = u.unit
    OBVIOUS
  <2> HIDE DEF e, f
  <2>3. e.readings = d.readings
    BY <2>1, OnlyKeeps
  <2>4. \A n \in UsedUnits(Slugs) : \E u \in e.units : u.slug = n
    BY <2>1, <2>2, UsedAreSeeded
  <2>5. \A x : Joined(d, x) => Joined(e, x)
    BY <1>2, <1>5, <2>4 DEF Joined
  <2> QED  BY <1>2, <1>5, <2>3, <2>5 DEF Known
<1>6. CASE d.rev \in {9, 10}
  <2> HIDE DEF e
  <2> QED  BY <1>2, <1>6 DEF Known
<1>7. d.rev \in 0..6 \/ d.rev = 7 \/ d.rev = 8 \/ d.rev \in {9, 10}
  BY <1>1
<1> QED  BY <1>3, <1>4, <1>5, <1>6, <1>7

\* A downgrade keeps the keys distinct.
LEMMA DowngradeKeyed ==
    ASSUME NEW d, WellFormed(d), Keyed(d), d.rev > 0, Legal(Downgraded(d))
    PROVE  Keyed(Downgraded(d))
<1> DEFINE e == Downgraded(d)
<1> SUFFICES Keyed(e)
  OBVIOUS
<1>1. Fields(d) /\ Typed(d.rev, d) /\ d.rev \in 0..11 /\ Legal(d)
  BY WellFormedParts
<1>2. e.rev = d.rev - 1 /\ Legal(e)
  BY Downgrades
<1>3. CASE d.rev \in 1..9
  <2> HIDE DEF e
  <2> QED  BY <1>2, <1>3 DEF Keyed, Latest
<1>4. CASE d.rev = 10
  <2>1. Only({"rev", "readings"}, d, e)
    BY <1>1, <1>4, DowngradeMeasurementFkColumns
  <2> HIDE DEF e
  <2>2. e.units = d.units
    BY <2>1, OnlyKeeps
  <2> QED  BY <1>2, <1>4, <2>2 DEF Keyed, Latest
<1>5. CASE d.rev = 11
  <2> DEFINE f == [u \in d.units |-> [u EXCEPT !.slug = u.unit, !.unit = NoName]]
  <2>1. e.units = {[u EXCEPT !.slug = u.unit, !.unit = NoName] : u \in d.units}
    BY <1>1, <1>5, DowngradeSlugsColumns
  <2> HIDE DEF e
  <2>2. e.units = {f[u] : u \in d.units}
    BY <2>1
  <2>3. \A u \in d.units : u.unit \in AllNotations /\ f[u].slug = u.unit
    <3> TAKE u \in d.units
    <3>1. f[u] = [u EXCEPT !.slug = u.unit, !.unit = NoName]
      OBVIOUS
    <3> HIDE DEF f
    <3>2. u \in [id : Nat \ {0}, slug : AllNotations, unit : AllNotations]
      BY <1>1, <1>5 DEF Typed, UnitRows, Latest
    <3> QED  BY <3>1, <3>2
  <2> HIDE DEF e, f
  <2>4. \A x, y \in e.units : LowerCase[x.slug] = LowerCase[y.slug] => x = y
    BY <1>2, <1>5 DEF Legal, SlugsUnique, Distinct, Latest
  <2>5. \A u, v \in d.units : u.slug = v.slug => u = v
    BY <1>1, <1>5 DEF Legal, SlugsUnique, Distinct, Latest
  <2>6. \A u \in d.units : u.slug = SlugifyUnit[u.unit] \/ u.unit \in Rewritten
    BY <1>5 DEF Keyed, Latest
  <2>7. \A u, v \in d.units : SlugifyUnit[u.unit] = SlugifyUnit[v.unit] =>
          u = v \/ LowerCase[u.unit] = LowerCase[v.unit]
    BY <2>3, <2>5, <2>6, Slugified
  <2>8. \A x, y \in e.units : SlugifyUnit[x.slug] = SlugifyUnit[y.slug] => x = y
    BY <2>2, <2>3, <2>4, <2>7
  <2> QED  BY <1>2, <1>5, <2>8 DEF Keyed, Latest
<1>6. d.rev \in 1..9 \/ d.rev = 10 \/ d.rev = 11
  BY <1>1
<1> QED  BY <1>3, <1>4, <1>5, <1>6

\* A downgrade to revision 10 or 9 writes slugs that revision 10 finds again.
LEMMA DowngradeKnown ==
    ASSUME NEW d, WellFormed(d), d.rev \in {10, 11}, Legal(Downgraded(d))
    PROVE  Known(Downgraded(d))
<1> DEFINE e == Downgraded(d)
<1> SUFFICES Known(e)
  OBVIOUS
<1>1. Fields(d) /\ Typed(d.rev, d) /\ UnitsSound(d) /\ Legal(d)
  BY WellFormedParts
<1>2. e.rev = d.rev - 1
  BY Downgrades
<1>3. CASE d.rev = 10
  <2> DEFINE f == [m \in d.readings |->
                     [m EXCEPT !.unit = UnitSlug(d, @), !.raw = UnitSlug(d, @)]]
  <2>1. /\ Only({"rev", "readings"}, d, e)
        /\ e.readings = {[m EXCEPT !.unit = UnitSlug(d, @), !.raw = UnitSlug(d, @)] :
                           m \in d.readings}
    BY <1>1, <1>3, DowngradeMeasurementFkColumns
  <2> HIDE DEF e
  <2>2. e.readings = {f[m] : m \in d.readings}
    BY <2>1
  <2>3. \A m \in d.readings : /\ f[m].unit = UnitSlug(d, m.unit)
                              /\ f[m].raw = UnitSlug(d, m.raw)
    <3> TAKE m \in d.readings
    <3>1. f[m] = [m EXCEPT !.unit = UnitSlug(d, @), !.raw = UnitSlug(d, @)]
      OBVIOUS
    <3> HIDE DEF f
    <3>2. m \in [id : Nat, parameter : Nat, unit : Nat, raw : Nat]
      BY <1>1, <1>3 DEF Typed, ReadingRows, ParameterKey, UnitKey
    <3> QED  BY <3>1, <3>2
  <2> HIDE DEF e, f
  <2>4. Only({"rev", "readings"}, d, e)
    BY <2>1
  <2>5. e.units = d.units
    BY <2>4, OnlyKeeps
  <2>6. \A m \in d.readings : /\ \E u \in d.units : m.unit = u.id
                              /\ \E u \in d.units : m.raw = u.id
    BY <1>1, <1>3 DEF Legal, UnitsReferred
  <2>7. \A u \in d.units : UnitSlug(d, u.id) = u.slug
    BY <1>1, UnitSlugFound
  <2>8. \A u \in d.units : Joined(e, u.slug)
    BY <1>2, <1>3, <2>5 DEF Joined
  <2>9. \A m \in d.readings : Joined(e, f[m].unit) /\ Joined(e, f[m].raw)
    BY <2>3, <2>6, <2>7, <2>8
  <2>10. \A m \in e.readings : Joined(e, m.unit) /\ Joined(e, m.raw)
    BY <2>2, <2>9
  <2> QED  BY <1>2, <1>3, <2>10 DEF Known
<1>4. CASE d.rev = 11
  <2> HIDE DEF e
  <2> QED  BY <1>2, <1>4 DEF Known
<1> QED  BY <1>3, <1>4

-----------------------------------------------------------------------------
(* Every step keeps what an upgrade joins.                                 *)

\* Keyed and Known are those of the database, whatever the state it is in.
LEMMA RowsOf ==
    ASSUME NEW e
    PROVE  /\ db' = e => Keyed(db)' = Keyed(e) /\ Known(db)' = Known(e)
           /\ work' = e => Keyed(work)' = Keyed(e) /\ Known(work)' = Known(e)
<1>1. ASSUME db' = e PROVE Keyed(db)' = Keyed(e) /\ Known(db)' = Known(e)
  <2>1. Keyed(db)' = Keyed(db') /\ Known(db)' = Known(db')
    OBVIOUS
  <2> QED  BY <1>1, <2>1, Zenon
<1>2. ASSUME work' = e PROVE Keyed(work)' = Keyed(e) /\ Known(work)' = Known(e)
  <2>1. Keyed(work)' = Keyed(work') /\ Known(work)' = Known(work')
    OBVIOUS
  <2> QED  BY <1>2, <2>1, Zenon
<1> QED  BY <1>1, <1>2

\* Rows that are neither rewritten nor added beside the catalog.
LEMMA LegacyGoesOn ==
    ASSUME LInv, db' = db, work' = work \/ work' = db,
           target' >= UnitsSeeded => target >= UnitsSeeded \/ (Known(db) /\ Known(work))
    PROVE  LInv'
<1>1. Keyed(db)' = Keyed(db) /\ Known(db)' = Known(db)
  BY RowsOf
<1>2. \/ Keyed(work)' = Keyed(work) /\ Known(work)' = Known(work)
      \/ Keyed(work)' = Keyed(db) /\ Known(work)' = Known(db)
  BY RowsOf
<1> QED  BY <1>1, <1>2 DEF LInv

\* The same, with the target as it is.
LEMMA LegacyStays ==
    ASSUME LInv, db' = db, work' = work \/ work' = db, target' = target
    PROVE  LInv'
<1>1. Keyed(db)' = Keyed(db) /\ Known(db)' = Known(db)
  BY RowsOf
<1>2. \/ Keyed(work)' = Keyed(work) /\ Known(work)' = Known(work)
      \/ Keyed(work)' = Keyed(db) /\ Known(work)' = Known(db)
  BY RowsOf
<1>3. (target >= UnitsSeeded)' = (target >= UnitsSeeded)
  BY Zenon
<1> QED  BY <1>1, <1>2, <1>3 DEF LInv

\* At the latest revision only the keys of new units matter.
LEMMA LegacyStored ==
    ASSUME LInv, NEW e, Store(e), e.rev = Latest, UNCHANGED target,
           \A u \in e.units : \/ db.rev = Latest /\ u \in db.units
                              \/ u.slug = SlugifyUnit[u.unit]
    PROVE  LInv'
<1>1. Keyed(e) /\ Known(e)
  BY DEF LInv, Keyed, Known, Latest
<1>2. /\ Keyed(db)' = Keyed(e) /\ Known(db)' = Known(e)
      /\ Keyed(work)' = Keyed(e) /\ Known(work)' = Known(e)
  BY RowsOf DEF Store
<1> QED  BY <1>1, <1>2 DEF LInv

\* The steps of a process that starts.
LEMMA BootLegacy ==
    ASSUME SInv, LInv, Boot PROVE LInv'
<1>1. Fields(db)
  BY WellFormedParts DEF SInv
<1>2. CASE UpgradeOne
  <2> DEFINE e == Upgraded(work)
  <2>1. WellFormed(work) /\ work.rev < Latest /\ Legal(e)
    BY <1>2 DEF UpgradeOne, SInv
  <2>2. Keyed(work) => Keyed(e)
    BY <2>1, UpgradeKeyed
  <2>3. Known(work) => Known(e)
    BY <2>1, UpgradeKnown
  <2>4. work' = e /\ db' = db /\ target' = target
    BY <1>2 DEF UpgradeOne
  <2> HIDE DEF e
  <2>5. /\ Keyed(db)' = Keyed(db) /\ Known(db)' = Known(db)
        /\ Keyed(work)' = Keyed(e) /\ Known(work)' = Known(e)
    BY <2>4, RowsOf
  <2> QED  BY <2>2, <2>3, <2>4, <2>5 DEF LInv
<1>3. CASE UpgradeRefused \/ CheckConfig \/ Ping
  <2>1. db' = db /\ (work' = work \/ work' = db) /\ target' = target
    BY <1>3 DEF UpgradeRefused, CheckConfig, Ping, Exit
  <2> QED  BY <2>1, LegacyStays
<1>4. CASE CommitUpgrade
  <2>1. db' = work /\ work' = work /\ target' = target
    BY <1>4 DEF CommitUpgrade
  <2>2. /\ Keyed(db)' = Keyed(work) /\ Known(db)' = Known(work)
        /\ Keyed(work)' = Keyed(work) /\ Known(work)' = Known(work)
    BY <2>1, RowsOf
  <2> QED  BY <2>1, <2>2 DEF LInv
<1>5. CASE CreateAll
  <2> DEFINE e == Created(db)
  <2>1. db = EmptyDatabase \/ db.rev = Latest
    BY <1>5 DEF SInv, CreateAll
  <2>2. e.rev = Latest /\ \A u \in e.units : db.rev = Latest /\ u \in db.units
    <3>1. CASE db = EmptyDatabase
      <4>1. e.units = {}
        BY <3>1 DEF Created, EmptyDatabase
      <4>2. e.rev = Latest
        BY <3>1, CreatedWellFormed
      <4> QED  BY <4>1, <4>2
    <3>2. CASE db.rev = Latest
      <4>1. db.tables # {}
        BY <3>2, WellFormedParts DEF Latest, SInv
      <4>2. e = db
        BY <4>1, Zenon DEF Created
      <4> QED  BY <3>2, <4>2
    <3> QED  BY <2>1, <3>1, <3>2
  <2>3. Store(e) /\ UNCHANGED target
    BY <1>5 DEF CreateAll
  <2> HIDE DEF e
  <2> QED  BY <2>2, <2>3, LegacyStored
<1>6. CASE SeedParametersStep
  <2> DEFINE A == SeededParameters(Slugs)
             f == [db EXCEPT !.parameters = A]
             e == IF db.parameters # {} THEN db ELSE f
  <2>1. Store(e) /\ UNCHANGED target /\ db.rev = Latest
    BY <1>6, Zenon DEF SeedParametersStep, SInv, Initialised
  <2> HIDE DEF A
  <2>2. f.units = db.units /\ f.rev = db.rev
    BY <1>1, Edited, OnlyKeeps
  <2> HIDE DEF f
  <2>3. e.units = db.units /\ e.rev = db.rev
    BY <2>2
  <2> HIDE DEF e
  <2> QED  BY <2>1, <2>3, LegacyStored
<1>7. CASE SeedUnitsStep
  <2> DEFINE A == SeededUnits(Slugs)
             f == [db EXCEPT !.units = A]
             e == IF db.units # {} THEN db ELSE f
  <2>1. Store(e) /\ UNCHANGED target /\ db.rev = Latest
    BY <1>7, Zenon DEF SeedUnitsStep, SInv, Initialised
  <2> HIDE DEF A
  <2>2. f.units = A /\ f.rev = db.rev
    BY <1>1, Edited, OnlyKeeps
  <2> HIDE DEF f
  <2>3. (e.units = db.units \/ e.units = A) /\ e.rev = db.rev
    BY <2>2
  <2>4. \A u \in A : u.slug = SlugifyUnit[u.unit]
    BY SeededUnitRows DEF A
  <2> HIDE DEF e
  <2> QED  BY <2>1, <2>3, <2>4, LegacyStored
<1>8. CASE SeedParameterUnitsStep
  <2> DEFINE seeds == {a \in SeedParameterUnits : a[1] \in Slugs}
             A == {SeedRow(a) : a \in seeds}
             e == [db EXCEPT !.parameterUnits = A]
  <2>1. \/ db' = db /\ work' = work /\ UNCHANGED target
        \/ Exit
        \/ Store(e) /\ UNCHANGED target
    BY <1>8, Zenon DEF SeedParameterUnitsStep
  <2>2. db.rev = Latest
    BY <1>8 DEF SeedParameterUnitsStep, SInv, Initialised
  <2> HIDE DEF A
  <2>3. e.units = db.units /\ e.rev = db.rev
    BY <1>1, Edited, OnlyKeeps
  <2> HIDE DEF e
  <2>4. ASSUME Store(e), UNCHANGED target PROVE LInv'
    BY <2>2, <2>3, <2>4, LegacyStored
  <2>5. ASSUME Exit PROVE LInv'
    BY <2>5, LegacyStays DEF Exit
  <2> QED  BY <2>1, <2>4, <2>5, LegacyStays
<1> QED  BY <1>2, <1>3, <1>4, <1>5, <1>6, <1>7, <1>8 DEF Boot

\* The steps of the operator.
LEMMA OperatorLegacy ==
    ASSUME SInv, LInv, Operator PROVE LInv'
<1>1. CASE \E to \in Targets : BeginDowngrade(to)
  <2>1. PICK to \in Targets : BeginDowngrade(to)
    BY <1>1
  <2>2. /\ db' = db /\ work' = work /\ target' = to /\ to < db.rev /\ work = db
    BY <2>1 DEF BeginDowngrade, SInv, Down, Migrating
  <2>3. to \in 0..11 /\ db.rev \in 0..11
    <3>1. db.rev \in 0..Latest
      BY Zenon DEF SInv, WellFormed
    <3> QED  BY <3>1, StartupAssumption DEF Latest
  <2>4. to >= UnitsSeeded => Known(db)
    BY <2>2, <2>3 DEF Known, UnitsSeeded
  <2> QED  BY <2>2, <2>4, LegacyGoesOn
<1>2. CASE DowngradeOne
  <2> DEFINE e == Downgraded(work)
  <2>1. WellFormed(work) /\ work.rev > target /\ Legal(e) /\ target \in 0..11
    BY <1>2, StartupAssumption DEF DowngradeOne, SInv, Latest
  <2>2. work.rev \in 0..11
    <3>1. work.rev \in 0..Latest
      BY <2>1, Zenon DEF WellFormed
    <3> QED  BY <3>1 DEF Latest
  <2>3. Keyed(work) => Keyed(e)
    BY <2>1, <2>2, DowngradeKeyed
  <2>4. target >= UnitsSeeded => Known(e)
    <3>1. target >= UnitsSeeded => work.rev \in {10, 11}
      BY <2>1, <2>2 DEF UnitsSeeded
    <3> QED  BY <2>1, <3>1, DowngradeKnown
  <2>5. work' = e /\ db' = db /\ target' = target
    BY <1>2 DEF DowngradeOne
  <2> HIDE DEF e
  <2>6. /\ Keyed(db)' = Keyed(db) /\ Known(db)' = Known(db)
        /\ Keyed(work)' = Keyed(e) /\ Known(work)' = Known(e)
    BY <2>5, RowsOf
  <2> QED  BY <2>3, <2>4, <2>5, <2>6 DEF LInv
<1>3. CASE DowngradeRefused
  <2>1. db' = db /\ work' = db /\ target' = target
    BY <1>3 DEF DowngradeRefused, Exit
  <2> QED  BY <2>1, LegacyStays
<1>4. CASE CommitDowngrade
  <2>1. db' = work /\ work' = work /\ target' = target
    BY <1>4 DEF CommitDowngrade
  <2>2. /\ Keyed(db)' = Keyed(work) /\ Known(db)' = Known(work)
        /\ Keyed(work)' = Keyed(work) /\ Known(work)' = Known(work)
    BY <2>1, RowsOf
  <2> QED  BY <2>1, <2>2 DEF LInv
<1> QED  BY <1>1, <1>2, <1>3, <1>4 DEF Operator

\* The requests that are served.
LEMMA ServeLegacy ==
    ASSUME SInv, LInv, Serve PROVE LInv'
<1>1. Fields(db) /\ db.rev = Latest /\ UNCHANGED target
  <2>1. proc = "serving" /\ UNCHANGED target
    BY Zenon DEF Serve, TakeReading, CreateUnit, DeleteUnit, DeleteParameter,
                 CreateParameter
  <2> QED  BY <2>1, WellFormedParts DEF SInv, Initialised
<1> SUFFICES \E e : /\ Store(e) /\ e.rev = db.rev
                    /\ \A u \in e.units : u \in db.units \/ u.slug = SlugifyUnit[u.unit]
  BY <1>1, LegacyStored
<1>2. ASSUME NEW p \in db.parameters, NEW u \in db.units, TakeReading(p, u.id)
      PROVE  \E A : Store([db EXCEPT !.readings = A])
  BY <1>2, Zenon DEF TakeReading
<1>3. ASSUME NEW n \in NewUnits, CreateUnit(n)
      PROVE  \E u : /\ u.slug = SlugifyUnit[u.unit]
                    /\ Store([db EXCEPT !.units = db.units \cup {u}])
  <2> DEFINE u == [id |-> NextId(db.units), slug |-> SlugifyUnit[n], unit |-> n]
  <2>1. Store([db EXCEPT !.units = db.units \cup {u}])
    BY <1>3, Zenon DEF CreateUnit
  <2>2. u.slug = SlugifyUnit[u.unit]
    OBVIOUS
  <2> HIDE DEF u
  <2> QED  BY <2>1, <2>2
<1>4. ASSUME NEW u \in db.units, DeleteUnit(u)
      PROVE  Store([db EXCEPT !.units = db.units \ {u}])
  BY <1>4, Zenon DEF DeleteUnit
<1>5. ASSUME NEW p \in db.parameters, DeleteParameter(p)
      PROVE  \E A, B : Store([db EXCEPT !.parameters = A, !.parameterUnits = B])
  BY <1>5, Zenon DEF DeleteParameter
<1>6. ASSUME NEW p \in SeededParameters(Slugs), CreateParameter(p)
      PROVE  \E A : Store([db EXCEPT !.parameters = A])
  BY <1>6, Zenon DEF CreateParameter
<1>7. ASSUME NEW A, Store([db EXCEPT !.units = A]),
             \A u \in A : u \in db.units \/ u.slug = SlugifyUnit[u.unit]
      PROVE  \E e : /\ Store(e) /\ e.rev = db.rev
                    /\ \A u \in e.units : u \in db.units \/ u.slug = SlugifyUnit[u.unit]
  <2> DEFINE e == [db EXCEPT !.units = A]
  <2>1. e.units = A /\ e.rev = db.rev
    BY <1>1, Edited, OnlyKeeps
  <2> HIDE DEF e
  <2> WITNESS e
  <2> QED  BY <1>7, <2>1 DEF e
<1>8. ASSUME NEW e, Store(e), e.rev = db.rev, e.units = db.units
      PROVE  \E c : /\ Store(c) /\ c.rev = db.rev
                    /\ \A u \in c.units : u \in db.units \/ u.slug = SlugifyUnit[u.unit]
  BY <1>8
<1>9. ASSUME NEW A
      PROVE  /\ [db EXCEPT !.readings = A].rev = db.rev
             /\ [db EXCEPT !.readings = A].units = db.units
             /\ [db EXCEPT !.parameters = A].rev = db.rev
             /\ [db EXCEPT !.parameters = A].units = db.units
  BY <1>1, Edited, OnlyKeeps
<1>10. ASSUME NEW A, NEW B
      PROVE  /\ [db EXCEPT !.parameters = A, !.parameterUnits = B].rev = db.rev
             /\ [db EXCEPT !.parameters = A, !.parameterUnits = B].units = db.units
  BY <1>1 DEF Fields, Columns
<1>11. CASE \E p \in db.parameters, u \in db.units : TakeReading(p, u.id)
  <2>1. PICK A : Store([db EXCEPT !.readings = A])
    BY <1>2, <1>11
  <2> QED  BY <2>1, <1>8, <1>9
<1>12. CASE \E n \in NewUnits : CreateUnit(n)
  <2>1. PICK u : /\ u.slug = SlugifyUnit[u.unit]
                 /\ Store([db EXCEPT !.units = db.units \cup {u}])
    BY <1>3, <1>12
  <2>2. \A v \in db.units \cup {u} : v \in db.units \/ v.slug = SlugifyUnit[v.unit]
    BY <2>1
  <2> QED  BY <2>1, <2>2, <1>7
<1>13. CASE \E u \in db.units : DeleteUnit(u)
  <2>1. PICK u \in db.units : Store([db EXCEPT !.units = db.units \ {u}])
    BY <1>4, <1>13
  <2>2. \A v \in db.units \ {u} : v \in db.units
    OBVIOUS
  <2> QED  BY <2>1, <2>2, <1>7
<1>14. CASE \E p \in db.parameters : DeleteParameter(p)
  <2>1. PICK A, B : Store([db EXCEPT !.parameters = A, !.parameterUnits = B])
    BY <1>5, <1>14
  <2> QED  BY <2>1, <1>8, <1>10
<1>15. CASE \E p \in SeededParameters(Slugs) : CreateParameter(p)
  <2>1. PICK A : Store([db EXCEPT !.parameters = A])
    BY <1>6, <1>15
  <2> QED  BY <2>1, <1>8, <1>9
<1> QED  BY <1>11, <1>12, <1>13, <1>14, <1>15 DEF Serve

\* A database that no migration has touched has no rows.
LEMMA EmptyLegacy == Keyed(EmptyDatabase) /\ Known(EmptyDatabase)
BY DEF Keyed, Known, EmptyDatabase, Latest

\* LInv holds when the first process starts.
LEMMA LegacyInitially ==
    ASSUME LegacyRows, Init PROVE LInv
<1>1. env \in Environments /\ env.migrated \in BOOLEAN
  BY StartupAssumption DEF Init, Environment
<1>2. db \in Databases \/ db = EmptyDatabase
  BY <1>1 DEF Init
<1>3. Keyed(db) /\ Known(db) /\ work = db
  BY <1>2, EmptyLegacy DEF LegacyRows, Init
<1> QED  BY <1>3 DEF LInv

\* Every step keeps LInv.
LEMMA LegacyKept ==
    ASSUME SInv, LInv, [Next]_vars PROVE LInv'
<1>1. CASE Start
  <2>1. db' = db /\ work' = work /\ target' = target
    BY <1>1 DEF Start
  <2> QED  BY <2>1, LegacyStays
<1>2. CASE Crash
  <2>1. db' = db /\ work' = db /\ target' = target
    BY <1>2 DEF Crash
  <2> QED  BY <2>1, LegacyStays
<1>3. CASE UNCHANGED vars
  <2>1. db' = db /\ work' = work /\ target' = target
    BY <1>3 DEF vars
  <2> QED  BY <2>1, LegacyStays
<1> QED  BY <1>1, <1>2, <1>3, BootLegacy, OperatorLegacy, ServeLegacy DEF Next

\* PostgreSQL refuses an upgrade only after a downgrade to below revision 9:
\* else every slug and every notation that 20260731_000002 and 20260731_000004
\* turn into ids is found, and 20260731_000005 makes no key twice
\* (src/alembic/versions).
THEOREM RefusedBelowUnits ==
    SettingsFit /\ LegacyRows /\ Spec => []RefusedOnlyBelowUnits
<1> SUFFICES ASSUME SettingsFit, LegacyRows PROVE Spec => []RefusedOnlyBelowUnits
  OBVIOUS
<1>1. Init => LInv
  BY LegacyInitially
<1>2. SInv /\ LInv /\ [Next]_vars => LInv'
  BY LegacyKept
<1>3. SInv /\ LInv => RefusedOnlyBelowUnits
  <2> SUFFICES ASSUME SInv, LInv, Refused, ~(target < UnitsSeeded) PROVE FALSE
    BY DEF RefusedOnlyBelowUnits
  <2>1. target \in 0..11
    BY StartupAssumption DEF SInv, Latest
  <2>2. Keyed(work) /\ Known(work)
    BY <2>1 DEF LInv, UnitsSeeded
  <2> QED  BY <2>2, UpgradeLegal DEF Refused, SInv
<1> QED  BY <1>1, <1>2, <1>3, AlwaysSound, PTL DEF Spec

-----------------------------------------------------------------------------
(* The catalogs are complete.                                              *)

\* The seeds of associations of the parameters that are modelled.
Seeds == {a \in SeedParameterUnits : a[1] \in Slugs}

\* The notation of a unit, whichever column holds it.
Notation(d, u) == IF d.rev = Latest THEN u.unit ELSE u.slug
\* The association of a seed is there.
Linked(d, a) ==
    \E r \in d.parameterUnits, p \in d.parameters, u \in d.units :
        /\ r.parameter = p.id /\ p.slug = a[1]
        /\ r.unit = u.id /\ Physical(Notation(d, u)) = Physical(a[2])
        /\ r.canonical = a[3]
\* Every seeded association is there.
AllLinked(d) == \A a \in Seeds : Linked(d, a)
\* The parameters are the seeded ones.
AllParameters(d) == {p.slug : p \in d.parameters} = Slugs
\* The catalogs that a revision has are all there.
Complete(d) ==
    /\ d.rev >= 6 => AllParameters(d)
    /\ d.rev >= 9 => AllLinked(d)

\* The databases there are when the system starts have the catalogs that the
\* migrations to their revision seed (20260730_000001 and 20260731_000003).
Cataloged == \A d \in Databases : Complete(d)

\* What create_all and the seeds have done when a process is at a stage: a
\* crash between two of them leaves a catalog empty or whole, never half.
SeededAt(d, stage) ==
    /\ d.parameters = {} \/ AllParameters(d)
    /\ d.parameterUnits = {} \/ AllLinked(d)
    /\ stage \in Initialised \ {"seed_parameters"} => AllParameters(d)
    /\ stage \in {"ping", "serving"} => AllLinked(d)
\* The inductive invariant: a migrated database is complete at every revision,
\* in the open transaction too, and one that is created is as far as its process.
CInv ==
    ~edited => IF env.migrated THEN Complete(db) /\ Complete(work)
                               ELSE SeededAt(db, proc)

\* A seed is associated when its parameter and its unit are there.
LEMMA AssociationMade ==
    ASSUME NEW P, NEW U, NEW a \in SeedParameterUnits, NEW p \in P, NEW u \in U,
           p.slug = a[1], u.unit = a[2]
    PROVE  [parameter |-> p.id, unit |-> u.id, canonical |-> a[3]]
             \in Associations(P, U)
<1> DEFINE y == <<p, u, a[3]>>
<1>1. y \in P \X U \X BOOLEAN
  BY SeedsListed
<1>2. <<y[1].slug, y[2].unit, y[3]>> = a
  <2>1. y[1] = p /\ y[2] = u /\ y[3] = a[3]
    OBVIOUS
  <2> HIDE DEF y
  <2> QED  BY <2>1, SeedsListed
<1>3. y[1] = p /\ y[2] = u /\ y[3] = a[3]
  OBVIOUS
<1> HIDE DEF y
<1>4. y \in {x \in P \X U \X BOOLEAN :
              <<x[1].slug, x[2].unit, x[3]>> \in SeedParameterUnits}
  BY <1>1, <1>2
<1>5. [parameter |-> y[1].id, unit |-> y[2].id, canonical |-> y[3]]
        \in Associations(P, U)
  BY <1>4, Zenon DEF Associations
<1> QED  BY <1>3, <1>5

\* Associations stay while parameters, units and associations do.
LEMMA LinksStay ==
    ASSUME NEW d, NEW e, d.parameters \subseteq e.parameters,
           d.units \subseteq e.units, d.parameterUnits \subseteq e.parameterUnits,
           \A u \in d.units : Notation(e, u) = Notation(d, u), AllLinked(d)
    PROVE  AllLinked(e)
<1> SUFFICES ASSUME NEW a \in Seeds PROVE Linked(e, a)
  BY DEF AllLinked
<1>1. PICK r \in d.parameterUnits, p \in d.parameters, u \in d.units :
        /\ r.parameter = p.id /\ p.slug = a[1]
        /\ r.unit = u.id /\ Physical(Notation(d, u)) = Physical(a[2])
        /\ r.canonical = a[3]
  BY Zenon DEF AllLinked, Linked
<1>2. Notation(e, u) = Notation(d, u)
  OBVIOUS
<1> QED  BY <1>1, <1>2, Zenon DEF Linked

\* Units that are rewritten keep their ids and what they stand for.
LEMMA LinksRewritten ==
    ASSUME NEW d, NEW e, NEW f, e.parameters = d.parameters,
           e.parameterUnits = d.parameterUnits, e.units = {f[u] : u \in d.units},
           \A u \in d.units :
             /\ f[u].id = u.id
             /\ Physical(Notation(e, f[u])) = Physical(Notation(d, u)),
           AllLinked(d)
    PROVE  AllLinked(e)
<1> SUFFICES ASSUME NEW a \in Seeds PROVE Linked(e, a)
  BY DEF AllLinked
<1>1. PICK r \in d.parameterUnits, p \in d.parameters, u \in d.units :
        /\ r.parameter = p.id /\ p.slug = a[1]
        /\ r.unit = u.id /\ Physical(Notation(d, u)) = Physical(a[2])
        /\ r.canonical = a[3]
  BY Zenon DEF AllLinked, Linked
<1>2. f[u] \in e.units /\ f[u].id = u.id
  OBVIOUS
<1>3. Physical(Notation(e, f[u])) = Physical(a[2])
  BY <1>1, Zenon
<1> QED  BY <1>1, <1>2, <1>3, Zenon DEF Linked

\* An upgrade keeps the catalogs, and seeds those of the next revision.
LEMMA UpgradeComplete ==
    ASSUME NEW d, WellFormed(d), Complete(d), d.rev < Latest, Legal(Upgraded(d))
    PROVE  Complete(Upgraded(d))
<1> DEFINE e == Upgraded(d)
<1> SUFFICES Complete(e)
  OBVIOUS
<1>1. Fields(d) /\ Typed(d.rev, d) /\ d.rev \in 0..10
  BY WellFormedParts DEF Latest
<1>2. e.rev = d.rev + 1
  BY Upgrades
<1>3. CASE d.rev \in 0..4
  <2> HIDE DEF e
  <2> QED  BY <1>2, <1>3 DEF Complete
<1>4. CASE d.rev = 5
  <2>1. e.parameters = SeededParameters(Slugs)
    BY <1>1, <1>4, UpgradeCatalogColumns
  <2> HIDE DEF e
  <2>2. AllParameters(e)
    BY <2>1, SeededParametersAll DEF AllParameters
  <2> QED  BY <1>2, <1>4, <2>2 DEF Complete
<1>5. CASE d.rev \in {6, 7}
  <2>1. Only({"rev", "uuids"}, d, e) \/ Only({"rev", "readings", "thresholds"}, d, e)
    BY <1>1, <1>5, UpgradeUuidsColumns, UpgradeParameterFkColumns
  <2> HIDE DEF e
  <2>2. e.parameters = d.parameters
    BY <2>1, OnlyKeeps
  <2>3. AllParameters(d)
    BY <1>5 DEF Complete
  <2> QED  BY <1>2, <1>5, <2>2, <2>3 DEF Complete, AllParameters
<1>6. CASE d.rev = 8
  <2> DEFINE f == [u \in SeededUnits(Slugs) |->
                     [id |-> u.id, slug |-> u.unit, unit |-> NoName]]
  <2>1. /\ Only({"rev", "tables", "units", "parameterUnits"}, d, e)
        /\ e.units = {f[u] : u \in SeededUnits(Slugs)}
        /\ e.parameterUnits = Associations(d.parameters, SeededUnits(Slugs))
    BY <1>1, <1>6, UpgradeUnitCatalogColumns
  <2>2. \A u \in SeededUnits(Slugs) : f[u].slug = u.unit /\ f[u].id = u.id
    OBVIOUS
  <2> HIDE DEF e, f
  <2>3. e.parameters = d.parameters
    BY <2>1, OnlyKeeps
  <2>4. AllParameters(d)
    BY <1>6 DEF Complete
  <2>5. ASSUME NEW a \in Seeds PROVE Linked(e, a)
    <3>1. a \in SeedParameterUnits /\ a[1] \in Slugs
      BY DEF Seeds
    <3>2. PICK p \in d.parameters : p.slug = a[1]
      BY <2>4, <3>1 DEF AllParameters
    <3>3. a[2] \in UsedUnits(Slugs)
      BY <3>1, Zenon DEF UsedUnits
    <3>4. PICK u \in SeededUnits(Slugs) : u.unit = a[2]
      BY <3>3, UsedAreSeeded
    <3> DEFINE r == [parameter |-> p.id, unit |-> u.id, canonical |-> a[3]]
    <3>5. r \in e.parameterUnits
      BY <2>1, <3>1, <3>2, <3>4, AssociationMade
    <3>6. r.parameter = p.id /\ r.unit = u.id /\ r.canonical = a[3]
      OBVIOUS
    <3> HIDE DEF r
    <3>7. f[u] \in e.units /\ f[u].id = u.id
      BY <2>1, <2>2
    <3>8. Notation(e, f[u]) = a[2]
      BY <1>2, <1>6, <2>2, <3>4 DEF Notation, Latest
    <3> QED  BY <2>3, <3>2, <3>5, <3>6, <3>7, <3>8, Zenon DEF Linked
  <2> QED  BY <2>3, <2>4, <2>5 DEF Complete, AllParameters, AllLinked
<1>7. CASE d.rev = 9
  <2>1. Only({"rev", "readings"}, d, e)
    BY <1>1, <1>7, UpgradeMeasurementFkColumns
  <2> HIDE DEF e
  <2>2. /\ e.parameters = d.parameters /\ e.units = d.units
        /\ e.parameterUnits = d.parameterUnits
    BY <2>1, OnlyKeeps
  <2>3. \A u \in d.units : Notation(e, u) = Notation(d, u)
    BY <1>2, <1>7 DEF Notation, Latest
  <2>4. AllParameters(d) /\ AllLinked(d)
    BY <1>7 DEF Complete
  <2>5. AllLinked(e)
    BY <2>2, <2>3, <2>4, LinksStay
  <2> QED  BY <2>2, <2>4, <2>5 DEF Complete, AllParameters
<1>8. CASE d.rev = 10
  <2> DEFINE f == [u \in d.units |->
                     [u EXCEPT !.unit = Renamed(u.slug), !.slug = SlugifyUnit[@]]]
  <2>1. /\ Only({"rev", "units"}, d, e)
        /\ e.units = {[u EXCEPT !.unit = Renamed(u.slug), !.slug = SlugifyUnit[@]] :
                        u \in d.units}
    BY <1>1, <1>8, UpgradeSlugsColumns
  <2> HIDE DEF e
  <2>2. e.units = {f[u] : u \in d.units}
    BY <2>1
  <2>3. \A u \in d.units : /\ f[u].id = u.id /\ f[u].unit = Renamed(u.slug)
                           /\ u.slug \in AllNotations
    <3> TAKE u \in d.units
    <3>1. f[u] = [u EXCEPT !.unit = Renamed(u.slug), !.slug = SlugifyUnit[@]]
      OBVIOUS
    <3> HIDE DEF f
    <3>2. u \in [id : Nat \ {0}, slug : AllNotations, unit : {NoName}]
      BY <1>1, <1>8 DEF Typed, UnitRows, Latest
    <3> QED  BY <3>1, <3>2
  <2> HIDE DEF f
  <2>4. Only({"rev", "units"}, d, e)
    BY <2>1
  <2>5. e.parameters = d.parameters /\ e.parameterUnits = d.parameterUnits
    BY <2>4, OnlyKeeps
  <2>6. \A u \in d.units : Physical(Notation(e, f[u])) = Physical(Notation(d, u))
    <3> TAKE u \in d.units
    <3>1. Notation(e, f[u]) = Renamed(u.slug) /\ Notation(d, u) = u.slug
      BY <1>2, <1>8, <2>3 DEF Notation, Latest
    <3>2. u.slug \in AllNotations
      BY <2>3
    <3> QED  BY <3>1, <3>2, RenamedMeans
  <2>7. AllParameters(d) /\ AllLinked(d)
    BY <1>8 DEF Complete
  <2>8. \A u \in d.units : f[u].id = u.id
    BY <2>3
  <2>9. AllLinked(e)
    BY <2>2, <2>5, <2>6, <2>7, <2>8, LinksRewritten
  <2> QED  BY <2>5, <2>7, <2>9 DEF Complete, AllParameters
<1>9. \/ d.rev \in 0..4 \/ d.rev = 5 \/ d.rev \in {6, 7}
      \/ d.rev = 8 \/ d.rev = 9 \/ d.rev = 10
  BY <1>1
<1> QED  BY <1>3, <1>4, <1>5, <1>6, <1>7, <1>8, <1>9

\* A downgrade keeps the catalogs of the revision below.
LEMMA DowngradeComplete ==
    ASSUME NEW d, WellFormed(d), Complete(d), d.rev > 0, Legal(Downgraded(d))
    PROVE  Complete(Downgraded(d))
<1> DEFINE e == Downgraded(d)
<1> SUFFICES Complete(e)
  OBVIOUS
<1>1. Fields(d) /\ Typed(d.rev, d) /\ d.rev \in 0..11
  BY WellFormedParts
<1>2. e.rev = d.rev - 1
  BY Downgrades
<1>3. CASE d.rev \in 1..6
  <2> HIDE DEF e
  <2> QED  BY <1>2, <1>3 DEF Complete
<1>4. CASE d.rev \in {7, 8, 9}
  <2>1. \/ Only({"rev", "uuids"}, d, e)
        \/ Only({"rev", "readings", "thresholds"}, d, e)
        \/ Only({"rev", "tables", "units", "parameterUnits"}, d, e)
    BY <1>1, <1>4, DowngradeUuidsColumns, DowngradeParameterFkColumns,
        DowngradeUnitCatalogColumns
  <2> HIDE DEF e
  <2>2. e.parameters = d.parameters
    BY <2>1, OnlyKeeps
  <2>3. AllParameters(d)
    BY <1>4 DEF Complete
  <2> QED  BY <1>2, <1>4, <2>2, <2>3 DEF Complete, AllParameters
<1>5. CASE d.rev = 10
  <2>1. Only({"rev", "readings"}, d, e)
    BY <1>1, <1>5, DowngradeMeasurementFkColumns
  <2> HIDE DEF e
  <2>2. /\ e.parameters = d.parameters /\ e.units = d.units
        /\ e.parameterUnits = d.parameterUnits
    BY <2>1, OnlyKeeps
  <2>3. \A u \in d.units : Notation(e, u) = Notation(d, u)
    BY <1>2, <1>5 DEF Notation, Latest
  <2>4. AllParameters(d) /\ AllLinked(d)
    BY <1>5 DEF Complete
  <2>5. AllLinked(e)
    BY <2>2, <2>3, <2>4, LinksStay
  <2> QED  BY <2>2, <2>4, <2>5 DEF Complete, AllParameters
<1>6. CASE d.rev = 11
  <2> DEFINE f == [u \in d.units |-> [u EXCEPT !.slug = u.unit, !.unit = NoName]]
  <2>1. /\ Only({"rev", "units"}, d, e)
        /\ e.units = {[u EXCEPT !.slug = u.unit, !.unit = NoName] : u \in d.units}
    BY <1>1, <1>6, DowngradeSlugsColumns
  <2> HIDE DEF e
  <2>2. e.units = {f[u] : u \in d.units}
    BY <2>1
  <2>3. \A u \in d.units : f[u].id = u.id /\ f[u].slug = u.unit
    <3> TAKE u \in d.units
    <3>1. f[u] = [u EXCEPT !.slug = u.unit, !.unit = NoName]
      OBVIOUS
    <3> HIDE DEF f
    <3>2. u \in [id : Nat \ {0}, slug : AllNotations, unit : AllNotations]
      BY <1>1, <1>6 DEF Typed, UnitRows, Latest
    <3> QED  BY <3>1, <3>2
  <2> HIDE DEF f
  <2>4. Only({"rev", "units"}, d, e)
    BY <2>1
  <2>5. e.parameters = d.parameters /\ e.parameterUnits = d.parameterUnits
    BY <2>4, OnlyKeeps
  <2>6. \A u \in d.units : Notation(e, f[u]) = Notation(d, u)
    BY <1>2, <1>6, <2>3 DEF Notation, Latest
  <2>7. AllParameters(d) /\ AllLinked(d)
    BY <1>6 DEF Complete
  <2>8. AllLinked(e)
    BY <2>2, <2>3, <2>5, <2>6, <2>7, LinksRewritten
  <2> QED  BY <2>5, <2>7, <2>8 DEF Complete, AllParameters
<1>7. d.rev \in 1..6 \/ d.rev \in {7, 8, 9} \/ d.rev = 10 \/ d.rev = 11
  BY <1>1
<1> QED  BY <1>3, <1>4, <1>5, <1>6, <1>7

-----------------------------------------------------------------------------
(* Every step keeps them so.                                               *)

\* Completeness is that of the database, whatever the state it is in.
LEMMA CatalogOf ==
    ASSUME NEW e
    PROVE  /\ db' = e => /\ Complete(db)' = Complete(e)
                         /\ SeededAt(db, proc)' = SeededAt(e, proc')
           /\ work' = e => Complete(work)' = Complete(e)
<1>1. ASSUME db' = e
      PROVE  Complete(db)' = Complete(e) /\ SeededAt(db, proc)' = SeededAt(e, proc')
  <2>1. Complete(db)' = Complete(db') /\ SeededAt(db, proc)' = SeededAt(db', proc')
    OBVIOUS
  <2> QED  BY <1>1, <2>1, Zenon
<1>2. ASSUME work' = e PROVE Complete(work)' = Complete(e)
  <2>1. Complete(work)' = Complete(work')
    OBVIOUS
  <2> QED  BY <1>2, <2>1, Zenon
<1> QED  BY <1>1, <1>2

\* A process that goes on with the database as it is.
LEMMA CatalogGoesOn ==
    ASSUME CInv, db' = db, work' = work \/ work' = db, UNCHANGED <<env, edited>>,
           ~edited /\ ~env.migrated => SeededAt(db, proc')
    PROVE  CInv'
<1>1. /\ Complete(db)' = Complete(db) /\ SeededAt(db, proc)' = SeededAt(db, proc')
      /\ Complete(work)' = Complete(work) \/ Complete(work)' = Complete(db)
  BY CatalogOf
<1>2. env.migrated' = env.migrated /\ edited' = edited
  OBVIOUS
<1> QED  BY <1>1, <1>2 DEF CInv

\* A statement that commits and leaves the catalogs complete.
LEMMA CatalogStored ==
    ASSUME CInv, NEW e, Store(e), UNCHANGED env,
           ~edited' => IF env.migrated THEN Complete(e) ELSE SeededAt(e, proc')
    PROVE  CInv'
<1>1. /\ Complete(db)' = Complete(e) /\ SeededAt(db, proc)' = SeededAt(e, proc')
      /\ Complete(work)' = Complete(e)
  BY CatalogOf DEF Store
<1>2. env.migrated' = env.migrated
  OBVIOUS
<1> QED  BY <1>1, <1>2 DEF CInv

\* A process that is not initialising asks less of the seeds.
LEMMA SeededBefore ==
    ASSUME NEW d, NEW s, NEW t, SeededAt(d, s), t \notin Initialised
    PROVE  SeededAt(d, t)
BY DEF SeededAt, Initialised

\* The migrations keep the catalogs complete.
LEMMA MigratesComplete ==
    ASSUME SInv, CInv,
           UpgradeOne \/ UpgradeRefused \/ CommitUpgrade
             \/ DowngradeOne \/ DowngradeRefused \/ CommitDowngrade
    PROVE  CInv'
<1>1. UNCHANGED <<env, edited>> /\ env.migrated' = env.migrated
  BY DEF UpgradeOne, UpgradeRefused, CommitUpgrade, DowngradeOne, DowngradeRefused,
         CommitDowngrade, Exit
<1>2. env.migrated
  BY DEF UpgradeOne, UpgradeRefused, CommitUpgrade, DowngradeOne, DowngradeRefused,
         CommitDowngrade, SInv, Migrating
<1>3. CASE UpgradeRefused \/ DowngradeRefused
  <2>1. db' = db /\ work' = db
    BY <1>3 DEF UpgradeRefused, DowngradeRefused, Exit
  <2> QED  BY <1>1, <1>2, <2>1, CatalogGoesOn
<1>4. CASE CommitUpgrade \/ CommitDowngrade
  <2>1. db' = work /\ work' = work
    BY <1>4 DEF CommitUpgrade, CommitDowngrade
  <2>2. Complete(db)' = Complete(work) /\ Complete(work)' = Complete(work)
    BY <2>1, CatalogOf
  <2> QED  BY <1>1, <1>2, <2>2 DEF CInv
<1>5. ASSUME NEW e, work' = e, db' = db, ~edited => Complete(e) PROVE CInv'
  <2>1. Complete(db)' = Complete(db) /\ Complete(work)' = Complete(e)
    BY <1>5, CatalogOf
  <2> QED  BY <1>1, <1>2, <1>5, <2>1 DEF CInv
<1>6. CASE UpgradeOne
  <2> DEFINE e == Upgraded(work)
  <2>1. WellFormed(work) /\ work.rev < Latest /\ Legal(e) /\ work' = e /\ db' = db
    BY <1>6 DEF UpgradeOne, SInv
  <2>2. ~edited => Complete(e)
    BY <1>2, <2>1, UpgradeComplete DEF CInv
  <2> HIDE DEF e
  <2> QED  BY <1>5, <2>1, <2>2
<1>7. CASE DowngradeOne
  <2> DEFINE e == Downgraded(work)
  <2>1. WellFormed(work) /\ work.rev > target /\ Legal(e) /\ work' = e /\ db' = db
    BY <1>7 DEF DowngradeOne, SInv
  <2>2. work.rev > 0
    <3>1. work.rev \in 0..Latest
      BY <2>1, Zenon DEF WellFormed
    <3>2. target \in 0..Latest
      BY StartupAssumption DEF SInv, Latest
    <3> QED  BY <2>1, <3>1, <3>2 DEF Latest
  <2>3. ~edited => Complete(e)
    BY <1>2, <2>1, <2>2, DowngradeComplete DEF CInv
  <2> HIDE DEF e
  <2> QED  BY <1>5, <2>1, <2>3
<1> QED  BY <1>3, <1>4, <1>6, <1>7

\* The steps that store nothing.
LEMMA OthersComplete ==
    ASSUME SettingsFit, SInv, CInv,
           \/ Start \/ CheckConfig \/ Ping \/ Crash
           \/ \E to \in Targets : BeginDowngrade(to)
    PROVE  CInv'
<1>1. /\ db' = db /\ (work' = work \/ work' = db) /\ UNCHANGED <<env, edited>>
      /\ proc' \notin Initialised \/ proc' = "ping" \/ proc = "ping"
  BY DEF Start, CheckConfig, Ping, Crash, BeginDowngrade, Exit, Goto, Initialised, Down
<1>2. CASE env.migrated
  BY <1>1, <1>2, CatalogGoesOn
<1>3. CASE ~env.migrated
  <2>1. env.seeds
    BY <1>3 DEF SInv, SettingsFit
  <2>2. \/ proc' \notin Initialised
        \/ proc = "ping" /\ proc' = "serving"
    <3>1. ASSUME CheckConfig PROVE proc' \in {"stopped", "create_all"}
      BY <2>1, <3>1 DEF CheckConfig, Exit, Goto
    <3>2. ASSUME Start \/ Crash \/ \E to \in Targets : BeginDowngrade(to)
          PROVE  proc' \in {"upgrade", "config", "killed", "downgrade"}
      BY <3>2 DEF Start, Crash, BeginDowngrade, Goto
    <3>3. ASSUME Ping PROVE proc = "ping" /\ proc' = "serving"
      BY <3>3 DEF Ping, Goto
    <3> QED  BY <3>1, <3>2, <3>3 DEF Initialised
  <2>3. ~edited => SeededAt(db, proc)
    BY <1>3 DEF CInv
  <2>4. ~edited => SeededAt(db, proc')
    <3>1. CASE proc' \notin Initialised
      BY <2>3, <3>1, SeededBefore
    <3>2. CASE proc = "ping" /\ proc' = "serving"
      BY <2>3, <3>2 DEF SeededAt, Initialised
    <3> QED  BY <2>2, <3>1, <3>2
  <2> QED  BY <1>1, <2>4, CatalogGoesOn
<1> QED  BY <1>2, <1>3

\* create_all leaves the catalogs empty: they are seeded next.
LEMMA CreateAllComplete ==
    ASSUME SInv, CInv, CreateAll PROVE CInv'
<1> DEFINE e == Created(db)
<1>1. Store(e) /\ UNCHANGED <<env, edited>> /\ proc' = "seed_parameters"
  BY DEF CreateAll, Goto
<1>2. CASE db.rev = Latest
  <2>1. db.tables # {}
    BY <1>2, WellFormedParts DEF Latest, SInv
  <2>2. e = db
    BY <2>1, Zenon DEF Created
  <2>3. SeededAt(db, proc) => SeededAt(db, proc')
    BY <1>1 DEF SeededAt
  <2>4. Store(db)
    BY <1>1, <2>2
  <2> QED  BY <1>1, <2>3, <2>4, CatalogStored DEF CInv
<1>3. CASE db = EmptyDatabase
  <2>1. e.parameters = {} /\ e.parameterUnits = {}
    BY <1>3 DEF Created, EmptyDatabase
  <2>2. ~env.migrated
    BY <1>3 DEF CreateAll, SInv, EmptyDatabase, Latest
  <2> HIDE DEF e
  <2>3. SeededAt(e, proc')
    BY <1>1, <2>1 DEF SeededAt
  <2> QED  BY <1>1, <2>2, <2>3, CatalogStored
<1> QED  BY <1>2, <1>3 DEF SInv, CreateAll

\* All parameters are seeded in one transaction.
LEMMA SeedParametersComplete ==
    ASSUME SInv, CInv, SeedParametersStep PROVE CInv'
<1> DEFINE A == SeededParameters(Slugs)
           f == [db EXCEPT !.parameters = A]
           e == IF db.parameters # {} THEN db ELSE f
<1>1. Store(e) /\ UNCHANGED <<env, edited>> /\ proc' = "seed_units"
  BY Zenon DEF SeedParametersStep, Goto
<1>2. db.rev = Latest /\ Fields(db)
  BY WellFormedParts DEF SInv, SeedParametersStep, Initialised
<1>3. CASE db.parameters # {}
  <2>1. Store(db)
    BY <1>1, <1>3
  <2>2. SeededAt(db, proc) => SeededAt(db, proc')
    BY <1>1, <1>3 DEF SeededAt
  <2> QED  BY <1>1, <2>1, <2>2, CatalogStored DEF CInv
<1>4. CASE db.parameters = {}
  <2>1. Store(f)
    BY <1>1, <1>4
  <2> HIDE DEF A
  <2>2. Only({"parameters"}, db, f) /\ f.parameters = A
    BY <1>2, Edited
  <2> HIDE DEF f
  <2>3. /\ f.units = db.units /\ f.parameterUnits = db.parameterUnits /\ f.rev = db.rev
    BY <2>2, OnlyKeeps
  <2>4. AllParameters(f)
    BY <2>2, SeededParametersAll DEF AllParameters, A
  <2>5. \A u \in db.units : Notation(f, u) = Notation(db, u)
    BY <2>3 DEF Notation
  <2>6. AllLinked(db) => AllLinked(f)
    BY <1>4, <2>3, <2>5, LinksStay
  <2>7. Complete(db) => Complete(f)
    BY <1>2, <2>3, <2>4, <2>6 DEF Complete
  <2>8. SeededAt(db, proc) => SeededAt(f, proc')
    BY <1>1, <2>3, <2>4, <2>6 DEF SeededAt
  <2> QED  BY <1>1, <2>1, <2>7, <2>8, CatalogStored DEF CInv
<1> QED  BY <1>3, <1>4

\* Seeding the units keeps the associations there are.
LEMMA SeedUnitsComplete ==
    ASSUME SInv, CInv, SeedUnitsStep PROVE CInv'
<1> DEFINE A == SeededUnits(Slugs)
           f == [db EXCEPT !.units = A]
           e == IF db.units # {} THEN db ELSE f
<1>1. Store(e) /\ UNCHANGED <<env, edited>> /\ proc = "seed_units"
      /\ proc' = "seed_parameter_units"
  BY Zenon DEF SeedUnitsStep, Goto
<1>2. db.rev = Latest /\ Fields(db)
  BY WellFormedParts DEF SInv, SeedUnitsStep, Initialised
<1>3. SeededAt(db, proc) => SeededAt(db, proc')
  BY <1>1 DEF SeededAt, Initialised
<1>4. CASE db.units # {}
  <2>1. Store(db)
    BY <1>1, <1>4
  <2> QED  BY <1>1, <1>3, <2>1, CatalogStored DEF CInv
<1>5. CASE db.units = {}
  <2>1. Store(f)
    BY <1>1, <1>5
  <2> HIDE DEF A
  <2>2. Only({"units"}, db, f)
    BY <1>2, Edited
  <2> HIDE DEF f
  <2>3. /\ f.parameters = db.parameters /\ f.parameterUnits = db.parameterUnits
        /\ f.rev = db.rev
    BY <2>2, OnlyKeeps
  <2>4. AllLinked(db) => AllLinked(f)
    BY <1>5, <2>3, LinksStay
  <2>5. Complete(db) => Complete(f)
    BY <2>3, <2>4 DEF Complete, AllParameters
  <2>6. SeededAt(db, proc) => SeededAt(f, proc')
    BY <1>3, <2>3, <2>4 DEF SeededAt, AllParameters
  <2> QED  BY <1>1, <2>1, <2>5, <2>6, CatalogStored DEF CInv
<1> QED  BY <1>4, <1>5

\* With all parameters and all units there, every association is seeded.
LEMMA SeedParameterUnitsComplete ==
    ASSUME SInv, CInv, SeedParameterUnitsStep PROVE CInv'
<1> DEFINE A == {SeedRow(a) : a \in Seeds}
           e == [db EXCEPT !.parameterUnits = A]
<1>1. WellFormed(db) /\ db.rev = Latest /\ work = db /\ proc = "seed_parameter_units"
  BY DEF SInv, SeedParameterUnitsStep, Initialised, Migrating
<1>2. CASE /\ db.parameterUnits # {} /\ proc' = "ping"
           /\ UNCHANGED <<env, db, work, target, recorded, edited>>
  <2>1. SeededAt(db, proc) => SeededAt(db, proc')
    BY <1>1, <1>2 DEF SeededAt, Initialised
  <2> QED  BY <1>2, <2>1, CatalogGoesOn DEF CInv
<1>3. CASE Exit
  <2>1. db' = db /\ work' = db /\ UNCHANGED <<env, edited>> /\ proc' = "stopped"
    BY <1>3 DEF Exit
  <2>2. SeededAt(db, proc) => SeededAt(db, proc')
    BY <2>1, SeededBefore DEF Initialised
  <2> QED  BY <2>1, <2>2, CatalogGoesOn DEF CInv
<1>4. CASE /\ \A a \in Seeds : Seedable(a)
           /\ Store(e) /\ proc' = "ping"
           /\ UNCHANGED <<env, target, recorded, edited>>
  <2>1. Fields(db) /\ Typed(11, db)
    BY <1>1, WellFormedParts DEF Latest
  <2>2. \A a \in Seeds : SeedRow(a) \in A
    OBVIOUS
  <2> HIDE DEF A
  <2>3. Only({"parameterUnits"}, db, e) /\ e.parameterUnits = A
    BY <2>1, Edited
  <2>4. Store(e)
    BY <1>4
  <2> HIDE DEF e
  <2>5. e.parameters = db.parameters /\ e.units = db.units /\ e.rev = db.rev
    BY <2>3, OnlyKeeps
  <2>6. ASSUME NEW a \in Seeds PROVE Linked(e, a)
    <3> DEFINE found == {u \in db.units : u.unit = a[2]}
    <3>1. PICK p \in db.parameters : p.slug = a[1]
      BY <1>4 DEF Seedable
    <3>2. ParameterId(db, a[1]) = p.id
      BY <2>1, <3>1, ParametersFound DEF Typed
    <3>3. Cardinality(found) = 1
      BY <1>4, Zenon DEF Seedable
    <3>4. found # {}
      <4> HIDE DEF found
      <4> QED  BY <3>3, FS_EmptySet
    <3>5. PICK u \in db.units : /\ u.unit = a[2]
                                /\ u = CHOOSE v \in db.units : v.unit = a[2]
      BY <3>4
    <3>6. /\ SeedRow(a).parameter = p.id /\ SeedRow(a).unit = u.id
          /\ SeedRow(a).canonical = a[3]
      BY <3>2, <3>5 DEF SeedRow
    <3>7. Notation(e, u) = a[2]
      BY <1>1, <2>5, <3>5 DEF Notation
    <3>8. SeedRow(a) \in e.parameterUnits
      BY <2>2, <2>3
    <3> QED  BY <2>5, <3>1, <3>6, <3>7, <3>8, Zenon DEF Linked
  <2>7. AllLinked(e)
    BY <2>6 DEF AllLinked
  <2>8. Complete(db) => Complete(e)
    BY <2>5, <2>7 DEF Complete, AllParameters
  <2>9. SeededAt(db, proc) => SeededAt(e, proc')
    BY <1>1, <1>4, <2>5, <2>7 DEF SeededAt, AllParameters, Initialised
  <2> QED  BY <1>4, <2>4, <2>8, <2>9, CatalogStored DEF CInv
<1> QED  BY <1>2, <1>3, <1>4, Zenon DEF SeedParameterUnitsStep, Goto, Seeds

\* What is complete while it serves stays so as long as rows are added.
LEMMA ServedComplete ==
    ASSUME SInv, CInv, proc = "serving", ~edited
    PROVE  /\ AllParameters(db) /\ AllLinked(db)
           /\ Fields(db) /\ db.rev = Latest
<1>1. db.rev = Latest /\ Fields(db)
  BY WellFormedParts DEF SInv, Initialised
<1>2. CASE env.migrated
  BY <1>1, <1>2 DEF CInv, Complete, Latest
<1>3. CASE ~env.migrated
  <2>1. SeededAt(db, "serving")
    BY <1>3 DEF CInv
  <2> QED  BY <1>1, <2>1 DEF SeededAt, Initialised
<1> QED  BY <1>1, <1>2, <1>3

\* A request that adds a reading or a unit.
LEMMA AddsComplete ==
    ASSUME SInv, CInv, proc = "serving", NEW e, Store(e), UNCHANGED <<env, proc>>,
           e.rev = db.rev, e.parameters = db.parameters, db.units \subseteq e.units,
           e.parameterUnits = db.parameterUnits, ~edited' => ~edited
    PROVE  CInv'
<1> SUFFICES ASSUME ~edited' PROVE Complete(e) /\ SeededAt(e, proc')
  BY CatalogStored
<1>1. AllParameters(db) /\ AllLinked(db)
  BY ServedComplete
<1>2. \A u \in db.units : Notation(e, u) = Notation(db, u)
  BY DEF Notation
<1>3. AllLinked(e)
  BY <1>1, <1>2, LinksStay
<1> QED  BY <1>1, <1>3 DEF Complete, SeededAt, AllParameters

\* The requests that are served: deleting a catalog's row is an edit.
LEMMA ServeComplete ==
    ASSUME SInv, CInv, Serve PROVE CInv'
<1>1. CASE \E p \in db.parameters, u \in db.units : TakeReading(p, u.id)
  <2>1. PICK A : /\ Store([db EXCEPT !.readings = A]) /\ UNCHANGED <<env, proc, edited>>
                 /\ proc = "serving"
    BY <1>1, Zenon DEF TakeReading
  <2> DEFINE e == [db EXCEPT !.readings = A]
  <2>2. Only({"readings"}, db, e)
    BY WellFormedParts, Edited DEF SInv
  <2>3. Store(e)
    BY <2>1
  <2> HIDE DEF e
  <2>4. /\ e.rev = db.rev /\ e.parameters = db.parameters /\ e.units = db.units
        /\ e.parameterUnits = db.parameterUnits
    BY <2>2, OnlyKeeps
  <2> QED  BY <2>1, <2>3, <2>4, AddsComplete
<1>2. CASE \E n \in NewUnits : CreateUnit(n)
  <2>1. PICK u : /\ Store([db EXCEPT !.units = db.units \cup {u}])
                 /\ UNCHANGED <<env, proc, edited>> /\ proc = "serving"
    BY <1>2, Zenon DEF CreateUnit
  <2> DEFINE A == db.units \cup {u}
             e == [db EXCEPT !.units = A]
  <2>2. Store(e) /\ db.units \subseteq A
    BY <2>1
  <2> HIDE DEF A
  <2>3. Only({"units"}, db, e) /\ e.units = A
    BY WellFormedParts, Edited DEF SInv
  <2> HIDE DEF e
  <2>4. /\ e.rev = db.rev /\ e.parameters = db.parameters
        /\ e.parameterUnits = db.parameterUnits
    BY <2>3, OnlyKeeps
  <2> QED  BY <2>1, <2>2, <2>3, <2>4, AddsComplete
<1>3. CASE \E u \in db.units : DeleteUnit(u)
  <2>1. PICK A : /\ Store([db EXCEPT !.units = A]) /\ edited' = TRUE /\ UNCHANGED env
    BY <1>3, Zenon DEF DeleteUnit
  <2> QED  BY <2>1, CatalogStored
<1>4. CASE \E p \in db.parameters : DeleteParameter(p)
  <2>1. PICK A, B : /\ Store([db EXCEPT !.parameters = A, !.parameterUnits = B])
                    /\ edited' = TRUE /\ UNCHANGED env
    BY <1>4, Zenon DEF DeleteParameter
  <2> QED  BY <2>1, CatalogStored
<1>5. CASE \E p \in SeededParameters(Slugs) : CreateParameter(p)
  <2>1. PICK p \in SeededParameters(Slugs) : CreateParameter(p)
    BY <1>5
  <2>2. PICK A : Store([db EXCEPT !.parameters = A])
    BY <2>1, Zenon DEF CreateParameter
  <2>3. UNCHANGED <<env, edited>> /\ proc = "serving"
    BY <2>1 DEF CreateParameter
  <2>4. \A q \in db.parameters : q.slug # p.slug
    BY <2>1 DEF CreateParameter
  <2>5. p.slug \in Slugs
    BY SeededParameterRows
  <2>6. ~AllParameters(db)
    BY <2>4, <2>5 DEF AllParameters
  <2>7. edited'
    BY <2>3, <2>6, ServedComplete
  <2> QED  BY <2>2, <2>3, <2>7, CatalogStored
<1> QED  BY <1>1, <1>2, <1>3, <1>4, <1>5 DEF Serve

\* Every step keeps CInv.
LEMMA CatalogKept ==
    ASSUME SettingsFit, SInv, CInv, [Next]_vars PROVE CInv'
<1>1. CASE UNCHANGED vars
  <2>1. db' = db /\ work' = work /\ UNCHANGED <<env, edited>> /\ proc' = proc
    BY <1>1 DEF vars
  <2> QED  BY <2>1, CatalogGoesOn DEF CInv
<1>2. CASE Boot
  BY <1>2, MigratesComplete, OthersComplete, CreateAllComplete, SeedParametersComplete,
     SeedUnitsComplete, SeedParameterUnitsComplete DEF Boot
<1>3. CASE Operator
  BY <1>3, MigratesComplete, OthersComplete DEF Operator
<1> QED  BY <1>1, <1>2, <1>3, OthersComplete, ServeComplete DEF Next

\* CInv holds when the first process starts.
LEMMA CatalogInitially ==
    ASSUME Cataloged, Init PROVE CInv
<1>1. env \in Environments /\ env.migrated \in BOOLEAN
  BY StartupAssumption DEF Init, Environment
<1>2. CASE env.migrated
  BY <1>2 DEF Init, Cataloged, CInv
<1>3. CASE ~env.migrated
  <2>1. db = EmptyDatabase /\ proc = "stopped"
    BY <1>3 DEF Init
  <2>2. db.parameters = {} /\ db.parameterUnits = {}
    BY <2>1 DEF EmptyDatabase
  <2> QED  BY <1>3, <2>1, <2>2 DEF CInv, SeededAt, Initialised
<1> QED  BY <1>2, <1>3

\* A process that serves finds every parameter and every association of its
\* catalogs, whichever way the database came about, unless an administrator has
\* deleted a row: no crash between the seeds, and no migration forth and back,
\* leaves a catalog that is never filled (src/src/db.py initialize and the seeds,
\* src/alembic/versions/20260730_000001 and 20260731_000003).
THEOREM AlwaysCataloged == SettingsFit /\ Cataloged /\ Spec => []CatalogComplete
<1> SUFFICES ASSUME SettingsFit, Cataloged PROVE Spec => []CatalogComplete
  OBVIOUS
<1>1. Init => CInv
  BY CatalogInitially
<1>2. SInv /\ CInv /\ [Next]_vars => CInv'
  BY CatalogKept
<1>3. SInv /\ CInv => CatalogComplete
  <2> SUFFICES ASSUME SInv, CInv, proc = "serving", ~edited
               PROVE  /\ {p.slug : p \in db.parameters} = Slugs
                      /\ \A a \in {b \in SeedParameterUnits : b[1] \in Slugs} :
                           \E r \in db.parameterUnits :
                              /\ ParameterSlug(db, r.parameter) = a[1]
                              /\ UnitMeant(db, r.unit) = Physical(a[2])
                              /\ r.canonical = a[3]
    BY Zenon DEF CatalogComplete
  <2>1. AllParameters(db) /\ AllLinked(db) /\ db.rev = 11
    BY ServedComplete DEF Latest
  <2>2. UnitsSound(db) /\ db.parameters \subseteq SeededParameters(Slugs)
    BY <2>1, WellFormedParts DEF SInv, Typed
  <2>3. ASSUME NEW a \in Seeds
        PROVE  \E r \in db.parameterUnits :
                  /\ ParameterSlug(db, r.parameter) = a[1]
                  /\ UnitMeant(db, r.unit) = Physical(a[2])
                  /\ r.canonical = a[3]
    <3>1. PICK r \in db.parameterUnits, p \in db.parameters, u \in db.units :
            /\ r.parameter = p.id /\ p.slug = a[1]
            /\ r.unit = u.id /\ Physical(Notation(db, u)) = Physical(a[2])
            /\ r.canonical = a[3]
      BY <2>1, Zenon DEF AllLinked, Linked
    <3>2. ParameterSlug(db, p.id) = p.slug
      BY <2>2, ParametersFound
    <3>3. UnitMeant(db, u.id) = Physical(u.unit) /\ Notation(db, u) = u.unit
      BY <2>1, <2>2, UnitIdSays DEF Notation, Latest
    <3> QED  BY <3>1, <3>2, <3>3, Zenon
  <2> QED  BY <2>1, <2>3 DEF AllParameters, Seeds
<1> QED  BY <1>1, <1>2, <1>3, AlwaysSound, PTL DEF Spec
=============================================================================
