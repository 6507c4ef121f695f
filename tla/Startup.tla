------------------------------ MODULE Startup -------------------------------
(***************************************************************************)
(* One container of the backend from its start to serving, again and again *)
(* on the same database: tools/entrypoint.sh, alembic/env.py, create_app   *)
(* with its lifespan (src/src/app.py) and init_database (src/src/db.py).   *)
(*                                                                         *)
(* The migrations run in one transaction; the three seeding functions      *)
(* commit one after the other and each leaves a table that has rows alone. *)
(* The container may stop anywhere.  While it is stopped the operator may  *)
(* downgrade the database; the next start upgrades it again.               *)
(***************************************************************************)
EXTENDS Migrations

CONSTANTS
    Databases,  \* databases a deployment may start from
    Targets,    \* revisions the operator may downgrade to
    NewUnits,   \* notations administrators add
    MaxReadings,\* bound on the readings ever taken
    Environments\* settings: [seeds, migrated, configured]

\* seeds: app_env is "test".  migrated: init_database opens the database that
\* Alembic migrates, not a test_database_url.  configured: the settings that
\* auth_mode needs are there.
Environment == [seeds : BOOLEAN, migrated : BOOLEAN, configured : BOOLEAN]

ASSUME StartupAssumption ==
    /\ Slugs \subseteq ParameterKey(0)
    /\ Environments \subseteq Environment
    /\ \A d \in Databases : WellFormed(d)
    /\ Targets \subseteq 0..Latest
    /\ NewUnits \subseteq AllNotations
    /\ MaxReadings \in Nat

VARIABLES
    env,        \* the settings
    db,         \* the committed database that is served
    work,       \* what the open transaction has made of it; db when none is
    proc,       \* the process: what it does next
    target,     \* where a downgrade ends
    recorded,   \* ghost: what the readings and thresholds said when stored
    edited      \* ghost: an administrator deleted a row of the catalogs

vars == <<env, db, work, proc, target, recorded, edited>>

\* The revision that seeds the units, 20260731_000003.
UnitsSeeded == 9

\* The process has ended by itself, or was killed.
Down == {"stopped", "killed"}

Stages == Down \cup
          {"upgrade", "config", "create_all", "seed_parameters",
           "seed_units", "seed_parameter_units", "ping", "serving", "downgrade"}

Meant(d) == <<ReadingsMeant(d), ThresholdsMeant(d)>>

Init ==
    /\ env \in Environments
    /\ db \in (IF env.migrated THEN Databases ELSE {EmptyDatabase})
    /\ work = db
    /\ proc = "stopped" /\ target = Latest
    /\ recorded = Meant(db)
    /\ edited = FALSE

Goto(stage) == proc' = stage

\* The process has ended; PostgreSQL rolls its transaction back.
Exit ==
    /\ proc' = "stopped"
    /\ work' = db
    /\ UNCHANGED <<env, db, target, recorded, edited>>

\* A statement that commits at once.
Store(d) == db' = d /\ work' = d

-----------------------------------------------------------------------------
(* entrypoint.sh: alembic upgrade head, and uvicorn when that succeeded.   *)
(* With a database of its own, a test deployment migrates another one.     *)

Start ==
    /\ proc \in Down
    /\ Goto(IF env.migrated THEN "upgrade" ELSE "config")
    /\ UNCHANGED <<env, db, work, target, recorded, edited>>

UpgradeOne ==
    /\ proc = "upgrade" /\ work.rev < Latest
    /\ Legal(Upgraded(work))
    /\ work' = Upgraded(work)
    /\ UNCHANGED <<env, db, proc, target, recorded, edited>>

\* A refused statement ends alembic, and set -e the container.
UpgradeRefused ==
    /\ proc = "upgrade" /\ work.rev < Latest
    /\ ~Legal(Upgraded(work))
    /\ Exit

\* Mutant of CommitUpgrade: no transaction is begun, and none committed.
CloseConnection ==
    /\ proc = "upgrade" /\ work.rev = Latest
    /\ work' = db
    /\ Goto("config")
    /\ UNCHANGED <<env, db, target, recorded, edited>>

CommitUpgrade ==
    /\ proc = "upgrade" /\ work.rev = Latest
    /\ db' = work
    /\ Goto("config")
    /\ UNCHANGED <<env, work, target, recorded, edited>>

\* ensure_auth_mode_configured, after the database has been migrated.
CheckConfig ==
    /\ proc = "config"
    /\ \/ /\ ~env.configured /\ Exit
       \/ /\ env.configured
          /\ Goto(IF env.seeds THEN "create_all" ELSE "ping")
          /\ UNCHANGED <<env, db, work, target, recorded, edited>>

-----------------------------------------------------------------------------
(* init_database, which is not awaited and which nothing runs beside. *)

\* The tables and constraints of the models, which are those of the latest
\* revision; what exists is left as it is.
Created(d) ==
    IF d.tables # {} THEN d
    ELSE [d EXCEPT !.rev = Latest, !.uuids = IdColumns, !.tables = Tables]

CreateAll ==
    /\ proc = "create_all"
    /\ Store(Created(db))
    /\ Goto("seed_parameters")
    /\ UNCHANGED <<env, target, recorded, edited>>

\* Mutant of SeedParametersStep: rows that are there already are not looked
\* for, and the unique slug refuses them.
SeedParametersAgain ==
    /\ proc = "seed_parameters"
    /\ \/ db.parameters # {} /\ Exit
       \/ /\ db.parameters = {}
          /\ Store([db EXCEPT !.parameters = SeededParameters(Slugs)])
          /\ Goto("seed_units")
          /\ UNCHANGED <<env, target, recorded, edited>>

SeedParametersStep ==
    /\ proc = "seed_parameters"
    /\ Store(IF db.parameters # {} THEN db
             ELSE [db EXCEPT !.parameters = SeededParameters(Slugs)])
    /\ Goto("seed_units")
    /\ UNCHANGED <<env, target, recorded, edited>>

SeedUnitsStep ==
    /\ proc = "seed_units"
    /\ Store(IF db.units # {} THEN db
             ELSE [db EXCEPT !.units = SeededUnits(Slugs)])
    /\ Goto("seed_parameter_units")
    /\ UNCHANGED <<env, target, recorded, edited>>

\* The rows are looked up by slug and by notation; a missing one, or a second
\* one of the notation, is an error at the latest when the row is inserted,
\* and ends the process: os._exit(1).
Seedable(a) ==
    /\ \E p \in db.parameters : p.slug = a[1]
    /\ Cardinality({u \in db.units : u.unit = a[2]}) = 1
SeedRow(a) ==
    [parameter |-> ParameterId(db, a[1]),
     unit |-> (CHOOSE u \in db.units : u.unit = a[2]).id, canonical |-> a[3]]

\* Mutant of SeedParameterUnitsStep: the commit is inside the loop.
SeedParameterUnitsRowByRow ==
    LET seeds == {a \in SeedParameterUnits : a[1] \in Slugs} IN
    /\ proc = "seed_parameter_units"
    /\ \/ /\ db.parameterUnits # {}
          /\ Goto("ping")
          /\ UNCHANGED <<env, db, work, target, recorded, edited>>
       \/ /\ db.parameterUnits = {}
          /\ \E a \in seeds : Store([db EXCEPT !.parameterUnits = {SeedRow(a)}])
          /\ UNCHANGED <<env, proc, target, recorded, edited>>

SeedParameterUnitsStep ==
    LET seeds == {a \in SeedParameterUnits : a[1] \in Slugs} IN
    /\ proc = "seed_parameter_units"
    /\ \/ /\ db.parameterUnits # {}
          /\ Goto("ping")
          /\ UNCHANGED <<env, db, work, target, recorded, edited>>
       \/ /\ db.parameterUnits = {} /\ \A a \in seeds : Seedable(a)
          /\ Store([db EXCEPT !.parameterUnits = {SeedRow(a) : a \in seeds}])
          /\ Goto("ping")
          /\ UNCHANGED <<env, target, recorded, edited>>
       \/ /\ db.parameterUnits = {} /\ \E a \in seeds : ~Seedable(a)
          /\ Exit

\* SELECT 1; is_ready is set, and uvicorn begins to accept connections.
Ping ==
    /\ proc = "ping"
    /\ Goto("serving")
    /\ UNCHANGED <<env, db, work, target, recorded, edited>>

\* The container is stopped, or fails, at any point; a connection that fails
\* while starting ends the process as well.
Crash ==
    /\ proc \notin Down
    /\ Goto("killed")
    /\ work' = db
    /\ UNCHANGED <<env, db, target, recorded, edited>>

-----------------------------------------------------------------------------
(* The operator, while the container is stopped. *)

BeginDowngrade(to) ==
    /\ proc \in Down /\ env.migrated /\ to < db.rev
    /\ target' = to
    /\ Goto("downgrade")
    /\ UNCHANGED <<env, db, work, recorded, edited>>

DowngradeOne ==
    /\ proc = "downgrade" /\ work.rev > target
    /\ Legal(Downgraded(work))
    /\ work' = Downgraded(work)
    /\ UNCHANGED <<env, db, proc, target, recorded, edited>>

DowngradeRefused ==
    /\ proc = "downgrade" /\ work.rev > target
    /\ ~Legal(Downgraded(work))
    /\ Exit

CommitDowngrade ==
    /\ proc = "downgrade" /\ work.rev = target
    /\ db' = work
    /\ Goto("stopped")
    /\ UNCHANGED <<env, work, target, recorded, edited>>

-----------------------------------------------------------------------------
(* What the served API does to the database, as far as migrations and      *)
(* seeding can tell: each request in one step.                             *)

\* No row refers to a deleted row, so its id may stand for the next one's.
NextId(S) == CHOOSE n \in 1..(Cardinality(S) + 1) : \A x \in S : x.id # n

\* Seeds of associations, not the rules, name the units a client may send.
TakeReading(p, raw) ==
    LET canonical == CHOOSE u \in db.units :
                       LowerCase[u.unit] = LowerCase[ParameterRules[p.slug].canonical]
        free == {n \in 1..MaxReadings : \A m \in db.readings : m.id # n}
        new == [id |-> CHOOSE n \in free : TRUE, parameter |-> p.id,
                unit |-> canonical.id, raw |-> raw] IN
    /\ proc = "serving"
    /\ free # {}
    /\ \E u \in db.units : LowerCase[u.unit] = LowerCase[ParameterRules[p.slug].canonical]
    /\ \E a \in db.parameterUnits : a.parameter = p.id /\ a.unit = raw
    /\ Store([db EXCEPT !.readings = @ \cup {new}])
    /\ recorded' = Meant(db')
    /\ UNCHANGED <<env, proc, target, edited>>

CreateUnit(notation) ==
    /\ proc = "serving"
    /\ \A u \in db.units : u.slug # SlugifyUnit[notation]
    /\ Store([db EXCEPT !.units = @ \cup {[id |-> NextId(db.units),
                  slug |-> SlugifyUnit[notation], unit |-> notation]}])
    /\ UNCHANGED <<env, proc, target, recorded, edited>>

DeleteUnit(u) ==
    /\ proc = "serving"
    /\ \A a \in db.parameterUnits : a.unit # u.id
    /\ \A m \in db.readings : u.id \notin {m.unit, m.raw}
    /\ Store([db EXCEPT !.units = @ \ {u}])
    /\ edited' = TRUE
    /\ UNCHANGED <<env, proc, target, recorded>>

\* Mutant of DeleteParameter: thresholds do not restrict it.
DeleteParameterWithThreshold(p) ==
    /\ proc = "serving"
    /\ \A m \in db.readings : m.parameter # p.id
    /\ Store([db EXCEPT !.parameters = @ \ {p},
                        !.parameterUnits = {a \in @ : a.parameter # p.id}])
    /\ edited' = TRUE
    /\ UNCHANGED <<env, proc, target, recorded>>

DeleteParameter(p) ==
    /\ proc = "serving"
    /\ \A m \in db.readings : m.parameter # p.id
    /\ \A t \in db.thresholds : t.parameter # p.id
    /\ Store([db EXCEPT !.parameters = @ \ {p},
                        !.parameterUnits = {a \in @ : a.parameter # p.id}])
    /\ edited' = TRUE
    /\ UNCHANGED <<env, proc, target, recorded>>

\* The id is that of the seed: no row refers to a deleted one's.
CreateParameter(p) ==
    /\ proc = "serving"
    /\ \A q \in db.parameters : q.slug # p.slug
    /\ Store([db EXCEPT !.parameters = @ \cup {p}])
    /\ UNCHANGED <<env, proc, target, recorded, edited>>

-----------------------------------------------------------------------------
Boot ==
    \/ UpgradeOne \/ UpgradeRefused \/ CommitUpgrade \/ CheckConfig \/ CreateAll
    \/ SeedParametersStep \/ SeedUnitsStep \/ SeedParameterUnitsStep \/ Ping

Operator ==
    \/ \E to \in Targets : BeginDowngrade(to)
    \/ DowngradeOne \/ DowngradeRefused \/ CommitDowngrade

Serve ==
    \/ \E p \in db.parameters, u \in db.units : TakeReading(p, u.id)
    \/ \E n \in NewUnits : CreateUnit(n)
    \/ \E u \in db.units : DeleteUnit(u)
    \/ \E p \in db.parameters : DeleteParameter(p)
    \/ \E p \in SeededParameters(Slugs) : CreateParameter(p)

Next == Start \/ Boot \/ Crash \/ Operator \/ Serve

Spec == Init /\ [][Next]_vars

\* A process that runs goes on.  Nothing restarts the container by itself: the
\* operator does, and finishes the downgrades that were begun.
FairSpec ==
    /\ Spec
    /\ WF_vars(Boot) /\ WF_vars(Start)
    /\ WF_vars(DowngradeOne \/ DowngradeRefused \/ CommitDowngrade)

-----------------------------------------------------------------------------
(* Properties *)

\* Whatever is committed satisfies the constraints of its revision, and a
\* transaction is open only while the schema is being migrated.
TypeOK ==
    /\ env \in Environments
    /\ proc \in Stages
    /\ target \in 0..Latest
    /\ edited \in BOOLEAN
    /\ db.rev \in 0..Latest /\ work.rev \in 0..Latest
    /\ Legal(db) /\ Legal(work)
    /\ proc \notin {"upgrade", "downgrade"} => work = db

\* No migration, in either direction and however often, loses a reading or a
\* threshold or changes the parameter or the units it was stored with
\* (alembic/versions, 20260731_000002 to 000005), whatever casing the legacy
\* code stored and in whatever order starts, crashes and downgrades came.
MeaningKept == Meant(work) = recorded

Refused == proc = "upgrade" /\ work.rev < Latest /\ ~Legal(Upgraded(work))

\* The upgrade a start needs is never refused by the data it finds: otherwise
\* the container could not start any more (entrypoint.sh:3 and 12).
UpgradePossible == ~Refused

\* It is refused at most after a downgrade to before the revision that seeds
\* the units: no other sequence of starts, crashes, downgrades, readings and
\* catalog requests leaves data that a revision's joins, NOT NULL columns or
\* unique indexes reject.
RefusedOnlyBelowUnits == Refused => target < UnitsSeeded

\* Requests are only served by code and schema that fit (entrypoint.sh:12).
ServesAtLatest == proc = "serving" => db.rev = Latest

\* The catalog is complete before the first request, although it is written
\* in three commits and the process may end between any two, and stays so
\* until an administrator deletes from a catalog (db.py:128-221).
CatalogComplete ==
    proc = "serving" /\ ~edited =>
        /\ {p.slug : p \in db.parameters} = Slugs
        /\ \A a \in {b \in SeedParameterUnits : b[1] \in Slugs} :
             \E r \in db.parameterUnits :
                /\ ParameterSlug(db, r.parameter) = a[1]
                /\ UnitMeant(db, r.unit) = Physical(a[2])
                /\ r.canonical = a[3]

\* A configured deployment serves in the end, unless it is stopped for ever,
\* was downgraded to before the unit catalog, or an administrator has deleted
\* from a catalog that seeding looks at.
Served ==
    (/\ env.configured
     /\ <>[][~Crash]_vars
     /\ <>[][\A to \in Targets : ~BeginDowngrade(to)]_vars
     /\ [](target >= UnitsSeeded)
     /\ [](env.seeds => ~edited))
    => <>[](proc = "serving")
=============================================================================
