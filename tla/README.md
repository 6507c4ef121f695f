# Aqualog backend: specification, model checking and proofs

TLA+ models of the Aqualog backend (`src/src`, a FastAPI application over
SQLAlchemy and PostgreSQL or SQLite), the TLC configurations that check them on
small instances, and proofs, checked by TLAPS, of their safety for every size.
Line numbers are those of the repository at the commit this directory belongs to;
`PROJECT.json` names, for each definition, the lines it stands for.

## 1. The system

| Component | State | Operations | Interacts with |
|---|---|---|---|
| relational store (`models.py`) | seven tables, their foreign keys and unique constraints | single-statement commits | every repository |
| request workers (`db.get_session`, `auth.get_current_user`) | per request: session, identity map, user | open, read, commit, rollback, close | store, pool |
| aquariums (`routers/aquariums.py`) | rows of `aquariums` | list, get, create, update, delete (cascades) | thresholds and measurements by cascade |
| thresholds (`routers/aquarium_parameter_thresholds.py`) | one row per aquarium and parameter | PUT, GET | aquarium owner, parameter, rule |
| measurements (`routers/aquarium_measurements.py`) | rows in canonical and raw unit | create, list, delete | aquarium owner, parameter, unit, association, rule |
| catalog (`routers/parameters.py`, `routers/units.py`) | parameters, units, associations | create, update, delete of the first two | restricted by thresholds, measurements, associations |
| seeds, rules (`db.py`, `services/parameter_rules.py`, `unit_slug.py`) | constants compiled into the code | seeding, lookup, conversion, range check | the catalog rows they must agree with |
| identity, profile (`user_service.py`, `user_repository.py`, `routers/profile.py`) | rows of `users` | resolve or create, PATCH /me | token claims |
| token validation (`auth.py`) | process-wide JWKS cache | fetch, refresh, validate | OAuth provider, over HTTP |
| sessions and pool (`db.py`) | engine, pooled connections | check out, return | event loop, dependency threads |
| startup, health (`app.py`, `routers/health.py`, `tools/entrypoint.sh`) | readiness flag | migrate, configure, seed, serve, stop | migrations, other replicas |
| migrations (`alembic/versions`) | schema and catalog version | eleven revisions, both ways | data already stored |
| mail proxy (`mail_proxy/index.js`) | messages in delivery, SMTP server | receive, deliver, shut down | mail API |
| dose calculation, envelope, logging | none | pure | |

What makes each of them correct:

* store: no row outlives what it refers to; keys are never reused;
* aquariums, thresholds, measurements: a tenant's data changes only by the
  tenant's requests; stored thresholds are ordered and within range; a stored
  measurement is in a unit its parameter allows, and in its canonical unit;
  a 409 means the duplicate its message speaks of;
* catalog: nothing in use is deleted; a lookup by notation is unambiguous, except
  where a migration renamed a notation; what the rules in the code name stays in
  the catalog if it was there;
* identity: one account per identity for ever, and nobody served as another;
* every request that starts is answered;
* token validation: no key outlives its withdrawal by more than the cache's
  lifetime, a rotated key is accepted in the end, a provider that hangs keeps
  nobody waiting;
* pool: every connection comes back, nobody waits for a connection while holding
  one;
* startup and migrations: no revision changes what a stored reading means, the
  upgrade is not refused by the data, a crash at any point leaves a database the
  next start can complete;
* mail proxy: success is reported only for a mail the provider took, and a signal
  always ends the process.

### What is hard here

A route handler is a series of SELECTs and one commit.  What an early SELECT saw
may be gone or changed when the commit comes: ownership, the association of unit
and parameter, the threshold that is to be replaced, the user that does not exist
yet.  Only constraints of the database hold across statements, and an
`IntegrityError` or a `StaleDataError` does not say which of several things went
wrong.  The hazards are listed one by one, with their lines, under `hazards` in
`PROJECT.json`.

The other parts are hard in other ways: a process-wide cache written after two
awaits, a lock (the pool) waited for by the loop its holders need, three commits
that each skip a table with rows, string joins over notations that three
revisions rewrite, a callback with a path that never calls it.

### Concurrency, as the code has it

* Route handlers are `async def` with synchronous SQLAlchemy calls and no `await`
  in their bodies.  A process therefore runs one handler at a time, from its first
  statement to its last: a **worker** of the models is a process.  The entry point
  starts one (`entrypoint.sh:13`); more than one runs as soon as there are
  replicas, `--workers`, or an old process draining while its successor starts.
  Runs with one worker say what a single process adds to what the code guarantees
  by itself, which runs with two workers say.
* The isolation level is the default, READ COMMITTED: each statement sees the
  latest commits.  Every commit of the repositories carries a single INSERT, UPDATE
  or DELETE, so a commit is one atomic step and row locks make commits serial.  No
  lock outlives the commit.  SQLite, which the tests use, serialises writers and
  allows fewer interleavings.
* An UPDATE writes the columns whose values differ from those loaded, and none if
  none differs.  An UPDATE that matches no row raises `StaleDataError`; a DELETE
  that matches none only warns.  A `refresh` of a row that is gone raises
  `InvalidRequestError`.  No handler of `app.py` translates any of these: 500.
* Two things of a request run outside its handler: its session is made and closed
  in a thread, and its token is validated before the first statement, with awaits.
  They are models of their own (`SessionPool`, `JwksCache`); what they share with
  the handlers is that a request reaches its first statement, or does not.
* `uuid4` keys are modelled as numbers in the order they are minted.  The models
  rely on them never coming back, and on nothing else.

## 2. Modules

| Module | Models | Extends |
|---|---|---|
| `Store` | tables as sets of rows, constraints, and the statements | |
| `Api` | a worker: the current request, the next statement, what was read, the answer; statements shared by the aquarium-scoped routes | `Store` |
| `AquariumApi`, `ThresholdApi`, `MeasurementApi`, `CatalogApi` | the routes of one router each, with its repository | `Api` |
| `Aqualog` | all routes, any number of workers; the properties across components; the refinement of `Tenancy` | the four above |
| `Tenancy` | abstract: who owns which aquarium, which records it holds, who may change it | |
| `Readings` | values of measurements: schema, the ten rules, conversion, what is stored and served | |
| `Catalog` | seeds, migrated notations, slugs and rules, as constants for TLC | |
| `Identity` | claims to user row, PATCH /me; the refinement of `IdentityMap` | |
| `IdentityMap` | abstract: a write-once map from identities to accounts | |
| `JwksCache` | the cache of signing keys, the requests that fetch them, the provider, a clock | |
| `SessionPool` | sessions, the bounded pool and the event loop of one process | |
| `Migrations` | the eleven revisions as functions on databases, and the constraints of each | `Catalog` |
| `Startup` | one container from `entrypoint.sh` to serving, crashes, downgrades | `Migrations` |
| `MailProxy` | the handler `onData`, applications, provider, signals; the refinement of `Relay` | |
| `Relay` | abstract: what the proxy promises whoever hands it a mail | |
| `MCAqualog`, `MCIdentity`, `MCReadings`, `MCJwks`, `MCDeploy`, `MCMail` | instances for TLC; `pool` needs none | the module they instantiate |
| `AqualogProofs`, `RequestProofs`, `IdentityProofs`, `JwksProofs`, `PoolProofs`, `StartupProofs`, `MailProofs`, `ReadingsProofs` | section 5 | the module they are about |

How state and actions correspond to the code:

* `aquariums`, `parameters`, `units`, `parameterUnits`, `thresholds`,
  `measurements` hold the rows, with the columns some constraint or decision
  reads; `minted` counts the keys of each table.  `pc[w]` names the statement the
  handler in `w` executes next, `req[w]` is its validated path and body, `loc[w]`
  what it has read, `ans[w]` the status it answers, 0 while there is none.
* One action is one SQL statement together with the Python up to the next one.
  `POST .../measurements/{parameter}` is the longest: aquarium, parameter and rule,
  unit by notation, association and range, canonical unit by notation, owner
  again, INSERT, then refresh or, when the INSERT is refused, the parameter once more
  for the message of the 409 (`ReportDuplicate`).  `PUT .../thresholds/{parameter}` is body validation,
  aquarium, parameter and range, owner, SELECT, INSERT or UPDATE, refresh.
* A disjunct of an action is a way the statement can end: no row, the row, several
  rows for `one_or_none`, refused by a constraint, no row matched.
* In `MeasurementApi` a measurement's value is two Booleans: `plausible`, what the
  rule's `validate_value` says of it, and `finite`, whether an answer can render it;
  `Readings` computes both, in whole thousandths and with exact conversions.  An
  explicit null of a column that is NOT NULL is `NULL` for a name and `nulled` for
  the aquarium's `type` and the catalog's `display_name`.  Range checks of thresholds are modelled with numbers.
* In `JwksCache` everything between two awaits of `get_jwks_keys` is one action.
  Time is relative (`life`, `age`, `waited`), since the code only subtracts and
  compares instants.  A failed or garbled answer of the provider is an action.
* In `SessionPool` `loop` is the handler that runs on the loop; a checkout that
  finds the pool empty keeps it.  `held` are the sessions that have a connection.
* `Startup.db` is the committed database and `work` what the open transaction of
  Alembic has made of it: `env.py` runs all pending revisions in one transaction.
  `recorded` and `edited` are ghosts: what the rows meant when they were stored,
  and whether an administrator has deleted from a catalog.
* In `MailProxy` `job[a]` is how far the handler of one attempt is, `conn[m]` the
  connection of a mail's last attempt.
* `Catalog` and `Migrations` are the only places with concrete notations: what is
  claimed of them depends on which strings fold to which.
* A definition whose comment begins with *Mutant* stands beside the one it distorts
  and is part of no specification; it shows what error a property detects.

### Not faithful on purpose

* Accepting a request of `Aqualog` stands for everything before the first statement
  of the handler: routing, token, session, user.
* `Knows` lets a client name only ids that exist or existed; other ids behave as
  deleted ones do.
* Lazy loads of `unit` and `raw_unit` in a list are one look at the units, since a
  unit once deleted does not come back.
* Two inputs the schemas admit are left out: an infinite volume (`gt=0`), which is
  stored and makes every answer that renders the aquarium a 500, and an instant at the
  ends of the calendar that has no UTC equivalent, which is a 500 by itself.
* The unauthenticated catalog reads and `GET /aquariums` are single SELECTs that
  decide nothing.
* The statements of a request are one step in `Startup`, where only what they do to
  the catalogs and the readings counts.  Units created while revision 9 or 10 was
  served by the code of that time are not modelled.
* `Readings` computes with exact numbers where the program rounds doubles.
* `JwksCache.Fetched` is the whole of what follows the second GET: the write of the
  cache (`auth.py:69`), the close of the HTTP client, awaited on the way out of the
  `async with`, and the verdict on the request's own token.  If the close yields,
  others may use the new cache before this verdict, and the verdict is later than
  `WithdrawnKeyRefused` has it by as long as closing an idle connection takes.
* The 10 s of `httpx` apply to each phase of a GET; `JwksCache` gives the whole GET
  one timeout.

## 3. What the runs check

| Run | Distinct states | Question |
|---|---|---|
| `one_worker` | 110 thousand | One process, every route in every order, on the catalog the migrations leave for salinity, with explicit nulls, NaN and rejected readings: ordered thresholds (`ThresholdOrdered`), a PUT replaces the whole of a threshold (`PutReplaces`), a 409 is a real duplicate or an explicit null (`ConflictIsDuplicate`).  It does not claim that no request ends in a 500 |
| `catalog_race` | 397 thousand | Two workers on the migrated catalog, parameters and units deleted and re-created under measurements, a second unit of a renamed notation: `ReferencesResolve`, `RawUnitAssociated`, `StoredUnitCanonical`, `RuleUnitFound`, `NotationUnambiguous` |
| `tenant_race` | 174 thousand | Two workers, two tenants: `ThresholdWithinRange`, `TenantIsolation`, the refinement `ImplementsTenancy`, and `Answered`: handlers that lose rows half-way still answer |
| `identity` | 450 thousand | One identity in two spellings of its issuer, a second issuer, a token without subject: `ServedAsHolder`, `RaceIsResolved`, `OnlyNamedFields`, `Answered`, and the refinement `ImplementsMap` |
| `pool` | 7 thousand | Four requests, two connections: `HoldersAreDone`; `Answered` although clients that do not read keep every connection; `ConnectionsReturn` when they read |
| `jwks` | 280 thousand | Two overlapping fetches, rotation, timeouts, garbage: `CachedKeysRecent`, `WithdrawnKeyRefused`, `Answered`, `RotatedKeyAdmitted` |
| `deploy` | 770 thousand | Starts, crashes and downgrades from an empty database, from revision 5 and from revision 8: `MeaningKept`, `RefusedOnlyBelowUnits`, `ServesAtLatest`, `CatalogComplete`, `Served` |
| `mail` | 137 thousand | Three mails, one unparsable, one with a repeated header, two attempts each: `AcceptedWasTaken`, `ShutdownEnds`, `AnswersWhenProviderDoes`, and the refinement `ImplementsRelay` |

Runs that are expected to find a violation, each a disagreement between the
code and what the repository says of it:

| Run | What the counterexample shows |
|---|---|
| `threshold_mixed` | Two workers: two valid PUTs load the same row; each UPDATE writes only the column it changes; the row ends with `min` above `max`.  With one worker this cannot happen (`one_worker`). |
| `migrated_temperature` | One worker: after the last migration no unit has the notation `celsius` that schema and rules use; temperatures are refused with 422. |
| `rollback` | A temperature that older code stored at revision 8 is carried up to head and down again to `20260731_000002`, where it is left with a degree sign; the seeds of `000003` do not have it, `unit_id` stays NULL, and the next start is refused by SET NOT NULL. |
| `nan_salinity` | A salinity of NaN ppt passes schema and rule and is stored; listing the parameter is answered 500 from then on. |

Seen while modelling, and not kept as runs: on two workers the second of two
first PUTs is answered 500, and a measurement whose aquarium is deleted under it
409 as a duplicate; with two workers also, the message of a 409 for a reading is a 500 if the parameter
is deleted after the refused INSERT; on any deployment `PATCH /aquariums` with
`{"name": null}` or `{"type": null}` is answered 409 as a duplicate name, a null
`display_name` of a catalog row 500, and so is a list with a stored NaN and an
aquarium with an infinite volume; deleting and creating a parameter loses its associations, which no
route can create; a test deployment whose last association was deleted with its
parameter, and which has another parameter since, ends at every start
(`_seed_parameter_units` finds an empty table and no row to refer to, which
`Served` excludes by `edited`); a downgrade of `000005` is refused
if an administrator created a unit spelled as a renamed one, and a second upgrade
after it leaves slugs such as `us gal`, which are not URL-safe as `000005:24` says;
an outage of the provider, or a garbled key set for up to an hour, is answered 401
to holders of valid tokens.

### Bounds

`MaxRows` bounds the keys minted per table; `HasRoom` turns it into a guard on
accepting a create.  `Arrivals` is the set of requests of a run.

* Two workers: every hazard of the API is between one handler's SELECT and its
  commit and one commit of another.  The theorems of section 5 hold for any number.
* `one_worker` starts from the migrated catalog of salinity alone, since what it asks
  is about one aquarium and one parameter; `catalog_race` adds temperature, whose
  notations the migrations rename.
* Two parameter keys: one that is deleted, and the one re-created under the same
  slug.  Three units: `ppt`, `sg` and one more.  Two aquariums: the contested one and
  one whose name collides.  Two measurements: the second collides with the first in
  aquarium, parameter and instant.
* Threshold values are picked around each other and around the range 0..100 of
  salinity: 20, 30 and the out-of-range 101.
* `identity` has two workers, since a first request loses to at most one other
  before the row is there for good; four tokens cover equal, respelled and
  different issuers.
* `pool`: two connections and four requests, so that holders and one waiting handler
  fit beside one that has not begun; `Timeout` 3 ticks, so that a connection may come
  back before it or not.  The code has SQLAlchemy's defaults, 5 + 10 and 30 s.
* `jwks`: two fetches that overlap in either order, keys `old` and `new`, `TTL` 2 and
  `Timeout` 1 tick, so that a fetch may be as old as its expiry allows.  `JwksProofs`
  has no such bounds.
* `deploy`: `MaxReadings` 2; the slugs `salinity`, `temperature`, `ammonia` are those
  whose notations differ in casing, by renaming, or have a `/`; `Targets` is
  where the operator may downgrade to, revisions 8 to 10 in `deploy`, 8 in `rollback`.
* `mail`: `MaxTries` 2, since a second attempt can overlap with the first; `Grace` 2.
* `Readings`: zero, values on both sides of the bounds of salinity, temperature and
  phosphate, and NaN; the theorem covers all numbers.

### Fairness

* `Aqualog`, `Identity`: weak fairness of the next statement of the handler a worker
  is in: it awaits nothing, holds the only thread of its event loop, and waits only
  for row locks, which are released by the commit they protect.  Nothing is assumed
  of `Accept`: clients need not send anything.
* `SessionPool`: weak fairness for the threads (`Enter`, `Close`), for a checkout and
  for the pool's clock; strong for `Run`, since the loop resumes ready tasks first in,
  first out, and for the end of a handler, which has finitely many statements.  None
  for `Sent`: clients need not read, and `ConnectionsReturn` says what follows if they
  do.
* `JwksCache`: a GET ends, by its timeout if not otherwise, and the loop resumes its
  caller; the clock ticks.  None for the provider.
* `Startup`: a running process goes on, and the operator restarts it.  `Served` assumes
  in its premise that crashes and downgrades end and none went below `000003`.
* `MailProxy`: handlers and the timer run.  None for the provider: `axios` has no
  timeout here, so `AnswersWhenProviderDoes` has posts that end as its premise, while
  `ShutdownEnds` has none.

A database that stops answering is outside the models.

## 4. Abstract specifications

* `Tenancy` promises that an aquarium, once deleted, takes its records with it and
  never returns; that records come and go only while a request of the owner is
  served; and that thresholds are replaced but never dropped while the aquarium
  lives.  `Aqualog` implements it under the mapping in `Tenants`: owned aquariums by
  owner, records by aquarium, deleted keys as `retired`, users of busy workers as
  `serving`.  The hard case is a catalog DELETE by another user, which would drop
  a tenant's records if the foreign keys cascaded.
* `IdentityMap` promises a write-once map from identities to accounts, one-to-one,
  of which every request is told the entry of its own identity.  `Identity`
  implements it: the unique constraint makes a single row, and the second look-up
  after a refused INSERT finds it.
* `Relay` promises that an attempt is answered at most once, with success only
  after the provider took it, and that the provider takes no attempt that was
  answered.  It does not promise that a refused attempt was not taken: a mail
  tried again may be delivered twice.  `MailProxy` implements it; a post on its
  way when the process ends is the hard case.

## 5. What is proved

Every theorem is for all values of the constants, under the named assumptions of
the module it is about, which TLC evaluates in the runs.

| Module | Theorem | States |
|---|---|---|
| `AqualogProofs` | `TypesHold` | `Spec => []TypeOK` |
| | `NoDanglingReference` | `Spec => []ReferencesResolve` |
| | `MeasurementsInAllowedUnits` | `Spec => []RawUnitAssociated` |
| `RequestProofs` | `ThresholdsInRange` | `Spec => []ThresholdWithinRange` |
| | `ReadingsInCanonicalUnits` | `Spec => []StoredUnitCanonical` |
| | `TenantsAreIsolated` | `Spec => TenantIsolation` |
| | `OneUnitPerNotation` | `Spec => []NotationUnambiguous` |
| | `RuleUnitsAreFound` | `Spec => []RuleUnitFound` |
| | `ThresholdsOrderedAlone` | `Spec => []ThresholdOrdered`, for one worker |
| | `PutReplacesAlone` | `Spec => PutReplaces`, for one worker |
| | `ConflictsAreDuplicatesAlone` | `Spec => ConflictIsDuplicate`, for one worker |
| | `BackendImplementsTenancy` | `Spec => ImplementsTenancy` |
| `IdentityProofs` | `IdentityTypeCorrect` | `Spec => []TypeOK` |
| | `EverybodyIsServedAsHolder` | `Spec => []ServedAsHolder` |
| | `LostRacesAreResolved` | `Spec => []RaceIsResolved` |
| | `OnlyNamedFieldsChange` | `Spec => OnlyNamedFields` |
| | `AuthenticationImplementsMap` | `Spec => ImplementsMap` |
| `JwksProofs` | `JwksTypeCorrect` | `Spec => []TypeOK` |
| | `CachedKeysAreRecent` | `Spec => []CachedKeysRecent` |
| | `WithdrawnKeysAreRefused` | `Spec => WithdrawnKeyRefused` |
| `PoolProofs` | `NoConnectionLeaks` | `Spec => []TypeOK` |
| | `NoHoldAndWait` | `Spec => []HoldersAreDone` |
| `StartupProofs` | `AlwaysTyped` | `SettingsFit /\ Spec => []TypeOK` |
| | `AlwaysServesAtLatest` | `SettingsFit /\ Spec => []ServesAtLatest` |
| | `AlwaysKeepsMeaning` | `SettingsFit /\ KeepsRecords /\ Spec => []MeaningKept` |
| | `RefusedBelowUnits` | `SettingsFit /\ LegacyRows /\ Spec => []RefusedOnlyBelowUnits` |
| | `AlwaysCataloged` | `SettingsFit /\ Cataloged /\ Spec => []CatalogComplete` |
| `MailProofs` | `MailTypeCorrect` | `Spec => []TypeOK` |
| | `SuccessIsTrue` | `Spec => []AcceptedWasTaken` |
| | `ProxyImplementsRelay` | `Spec => ImplementsRelay` |
| `ReadingsProofs` | `FiniteReadingsInRange` | `Spec => []StoredInRange`, if no value is NaN |

`AqualogProofs`.  Assumptions: `SeedAssumption` (the initial rows respect the
constraints of `models.py`, their keys are numbered from 1), `NotationAssumption`
(`Lower` is a function on notations), `ArrivalsAssumption` (requests have the shape
their schemas enforce) and `SlugifyAssumption`.  `RawUnitAssociated` is not
inductive: the check and the INSERT are statements apart, and the catalog may
change in between.  `IInv` adds `ValidatedAssociated`: a handler past its association
check either holds a parameter that is gone, and then the foreign key refuses the
INSERT, or the association is still there.  This is preserved because keys are not
reused (`KeysMinted`), because an association disappears only together with its
parameter (`StatementAssociations`), and because a parameter a measurement refers to
is not deleted.  The first half proves what any statement preserves; `Step` states
what a step of one worker looks like to the store and to the others; one lemma per
action shows it is a `Step`; `StepInv` draws the conclusion once.

`RequestProofs`.  Further assumptions: `RulesAssumption` (a rule's canonical unit is
a notation), `BoundsAssumption` (finitely many workers; the bounds `MaxRows` leave
room for the initial rows), `CatalogAssumption` (rules and initial catalog `Agree`:
a lookup by a rule's notation can only find the unit marked canonical, and a unit of
the parameter occupies the slug that a second one of that notation would have).
`Agree` holds of the seeds of `db.py` and of what the migrations leave.

The properties are not inductive, because a handler writes what it checked statements
ago.  `RInv` adds `Relies(w)`, what a handler may rely on whatever the other workers
do: the aquarium it looked up is gone or still has that owner, the parameter is gone or
still has that slug, the measurement it is about to delete is gone or still in that
aquarium, and the unit it found is, unless the parameter is gone, the one marked
canonical.  All this is so because keys are minted once and no statement changes owner,
slug or aquarium of a row (`StatementKeeps`); the foreign keys turn "gone" into a
refusal.  `OthersRely` shows that no step of another worker takes any of it away,
`OwnRelies` that a worker's own steps keep it up, `StepEffect` what each write does
given it: owner only, values in range, canonical units, derived slugs.  `Agree` itself
is preserved (`CatalogStillAgrees`): no route creates an association, a new unit cannot
take the slug of the unit that keeps its place, and an associated unit is not deleted.

`OneUnitPerNotation` rests on `SlugsKnown`: every unit has the slug its notation
derives, or is one of the initial units whose notation a migration rewrote
(`SlugLeft`); two of the first kind would share a slug, which is UNIQUE.  On the
migrated catalog a second unit of a renamed notation can be created, and the run
`catalog_race` does create one; the property excludes exactly that.

`RuleUnitsAreFound` is about the units the rules do find in the initial catalog, all
that `db.py` seeds and, of those the migrations leave, all but celsius: neither a DELETE nor
a POST of any worker takes them away.  `RuledParameter` shows that a parameter which has
units keeps them, and that no new unit takes the notation of its rule; `Agree` makes the
unit found an associated one.

*One worker.*  `tools/entrypoint.sh` starts one uvicorn process, so `Workers = {x}` is
the deployment of the repository.  `SInv` adds `Sees(w)`, the same facts without "or is
gone": the owned aquarium, the parameter, the units are there; the threshold a PUT
loaded is the stored one, and after its UPDATE the stored one is the body
(`OverlayLoaded`); the row a handler holds is in its table; a refused INSERT has met its
duplicate.  TLC checked `SInv` on the instance of `one_worker` before it was proved.
From `SInv` follow the properties that `one_worker` checks and that several workers
break (`threshold_mixed` shows it for `ThresholdOrdered`).
`ConflictsAreDuplicatesAlone` has the exception the property names: a PATCH with an
explicit null for name or type violates NOT NULL and is answered as a duplicate name.
That no request ends in a 500 is not proved, because it is not so: section 3 lists
requests that do.

*Tenancy.*  The refinement maps a committed statement to the step of `Tenancy`
its user takes.  `BInv` adds that a busy worker serves a request of `Arrivals` and that the
keys of each table, counting the creates under way (`Pending`), stay within `MaxRows`
(`Fits`), which the refinement needs because `Tenancy` ranges over sets of keys.
`KeysDense` relates retired keys to the mint; one lemma per statement gives the
abstract step, and `TenantIsolation`'s reasoning the owner.

`IdentityProofs`.  Assumption: `IdentityAssumption` (the shapes of tokens and bodies).
`IInv` adds `KeysUnique` (one row an identity, one an id, no id beyond those minted)
and for every worker `Progress`: past the claims check the token has a subject; a
handler that lost the race, or is about to refresh the row it created, finds a row of
its identity, because no statement deletes a user or changes its identity
(`RowsKept`); from then on it holds the id of that row.  For the refinement an INSERT
is `Enroll`, the step that resolves a request is `Tell`, and an UPDATE changes
nothing that `IdentityMap` can see.

`JwksProofs`.  `CachedKeysRecent` says nothing of key sets on their way to a request,
which become the cache.  `IInv` adds `Arriving`: such a set is not older than the
request's `now`, so that a key withdrawn since has been gone for at most the
request's age; what the request writes expires TTL minus that age later.

`PoolProofs`.  `TypeOK` bounds the pool and says who is on the loop, `HoldersAreDone`
who has connections; together they are inductive.  Cardinalities change by one at a
time (`OneMore`, `OneLess`).

`MailProofs`.  `IInv` adds `Accounted`, which ties `taken` to how far each handler is:
an attempt whose success is yet to be told is in it, one that has not ended its post is
not.  Each action is then a step of `Relay` or a stutter, and the posts that are under way when
the process ends are one `Take`.

`ReadingsProofs`.  `PlausibleIsInRange` shows for each kind of rule that what passes
in the unit it was sent in is within the canonical range after conversion.

`StartupProofs`.  Assumption: `StartupAssumption`.  Beside the shapes of the constants it
says that the databases a deployment starts from are `WellFormed`: they have the columns
of their revision, and what its keys, foreign keys and indexes demand, which PostgreSQL
sees to.  Nothing bounds readings, units, crashes or downgrades.

The invariants of `Startup` look at one revision at a time, while the code moves between
twelve, so each of the 22 migrations gets a lemma that says which columns it rewrites and
what that does to what the rows say.  `SInv` says that the committed database and the one
of the open transaction are well formed, differ only while one migrates, and from the
check of the settings on are at the latest revision; well-formedness is what makes the
rewritten references resolve, because a revision that leaves one unresolved is refused.
`Kept` adds to it the meaning of the rows, in both databases.  `LInv` adds what an upgrade
joins: `Keyed`, that slugs stay keys of the units though revision 11 rewrites notations
and leaves some slugs, and `Known`, that readings name what the seeds of revision 9 have,
which a downgrade below revision 9 takes away.  `CInv` adds how far the catalogs are:
complete at every revision of a migrated database, in the open transaction too, and in a
created one as far as its process, each table empty or whole (`SeededAt`).

Three hypotheses are about deployments.  `SettingsFit`: `db.py:89` lets
`TEST_DATABASE_URL` select, with `app_env` other than `test`, a database that no migration
and no `create_all` has touched; such a process serves from an empty database.
`KeepsRecords`: a downgrade below revision 5 drops the tables of the records.
`LegacyRows`, `Cataloged`: the databases a deployment starts from hold no row that names
what no revision seeds, and have the catalogs their revisions have seeded; older code
stored only names of its own lists.  The instance of `deploy` satisfies all of them, and
TLC checked `SInv`, `Kept`, `LInv` and `CInv` on it before they were proved.

Only model-checked: all liveness (`Answered`, `ConnectionsReturn`, `RotatedKeyAdmitted`,
`Served`, `ShutdownEnds`, `AnswersWhenProviderDoes`), since liveness under fairness is
outside what the prover supports.  Every safety property of the passing runs is the
conclusion of a theorem.

## 6. Not modelled, and the plan

Not modelled, because they hold no state and decide nothing: response envelope
and wording, logging, the dose formula, `/live` and `/ready` (which read a flag that is
set before the server accepts connections), tests, build files.  The impersonation mode
resolves one configured id and writes nothing.  Two containers that migrate the same
database at once are not modelled: the repository starts one.

What is left: an atomic specification of the API, one step a request, which a single
worker implements; the difference to several workers is then what section 3 lists.
