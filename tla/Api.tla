--------------------------------- MODULE Api ---------------------------------
(***************************************************************************)
(* Worker processes that serve requests over the shared store.             *)
(*                                                                         *)
(* Each uvicorn worker is one event loop.  A route handler is an async     *)
(* function whose SQLAlchemy calls are synchronous and that awaits nothing *)
(* in its body, so a worker has at most one handler between its first and  *)
(* its last statement: Cardinality(Workers) = 1 is the process started by  *)
(* tools/entrypoint.sh, more workers are replicas, `--workers`, or an old  *)
(* process that drains while a new one starts.  Statements of two workers  *)
(* interleave; each statement sees the latest commits (READ COMMITTED).    *)
(*                                                                         *)
(* pc[w] names the statement the handler is about to execute, req[w] the   *)
(* validated path and body, loc[w] what it has read so far, ans[w] the     *)
(* status it answers.  The session is closed when the answer is sent       *)
(* (db.get_session), which forgets everything the handler read.            *)
(***************************************************************************)
EXTENDS Store

CONSTANTS
    Workers,
    Arrivals,           \* requests a client may send
    MaxRows,            \* bound: primary keys minted per table
    Rules,              \* PARAMETER_RULES: slug |-> [canonical, low, high]
    Unset               \* an optional body field the client left out

VARIABLES pc, req, loc, ans

worker == <<pc, req, loc, ans>>
vars == <<aquariums, parameters, units, parameterUnits, thresholds,
          measurements, minted, pc, req, loc, ans>>

\* Path and body of a request that passed its schema, with the user the token
\* was resolved to.  An explicit null passes the schema of a PATCH for columns
\* that are NOT NULL: a name, a `type` (update_aquarium's `nulled`), a
\* display_name (the catalog's).  Left out are other bodies Python cannot carry
\* through: an infinite volume, an instant with no UTC equivalent.
Request ==
    [route : {"create_aquarium"}, user : Users, name : Names]
      \cup [route : {"get_aquarium", "delete_aquarium"}, user : Users,
            aquarium : Nat]
      \cup [route : {"update_aquarium"}, user : Users, aquarium : Nat,
            name : Optional(Names) \cup {Unset}, nulled : BOOLEAN]
      \cup [route : {"set_threshold"}, user : Users, aquarium : Nat,
            slug : Slugs, target : Optional(Values), min : Optional(Values),
            max : Optional(Values)]
      \cup [route : {"get_threshold", "list_measurements"}, user : Users,
            aquarium : Nat, slug : Slugs]
      \cup [route : {"create_measurement"}, user : Users, aquarium : Nat,
            slug : Slugs, unit : Notations, plausible : BOOLEAN,
            finite : BOOLEAN, at : Instants]
      \cup [route : {"delete_measurement"}, user : Users, aquarium : Nat,
            slug : Slugs, measurement : Nat]
      \cup [route : {"create_parameter", "delete_parameter"}, user : Users,
            slug : Slugs]
      \cup [route : {"update_parameter"}, user : Users, slug : Slugs,
            nulled : BOOLEAN]
      \cup [route : {"create_unit"}, user : Users, unit : Notations]
      \cup [route : {"delete_unit"}, user : Users, slug : UnitSlugs]
      \cup [route : {"update_unit"}, user : Users, slug : UnitSlugs,
            nulled : BOOLEAN]
NoRequest == [route |-> "none"]

ASSUME ArrivalsAssumption == Arrivals \subseteq Request

ASSUME RulesAssumption == \A slug \in DOMAIN Rules : Rules[slug].canonical \in Notations

ASSUME BoundsAssumption ==
    /\ IsFiniteSet(Workers)
    /\ MaxRows \in Minted
    /\ Cardinality(InitAquariums) <= MaxRows.aquarium
    /\ Cardinality(InitParameters) <= MaxRows.parameter
    /\ Cardinality(InitUnits) <= MaxRows.unit

\* What a handler has read: ids (0 is the id of no row), the name and the
\* threshold it loaded and may write back, the measurements it lists.
Locals ==
    [parameter : Nat, unit : Nat, canonical : Nat, row : Nat,
     name : Optional(Names), threshold : Optional(Threshold),
     rows : SUBSET Measurement]
NoLocals ==
    [parameter |-> 0, unit |-> 0, canonical |-> 0, row |-> 0,
     name |-> NULL, threshold |-> NULL, rows |-> {}]

AquariumRoutes == {"get_aquarium", "create_aquarium", "update_aquarium",
                   "delete_aquarium"}
ThresholdRoutes == {"set_threshold", "get_threshold"}
MeasurementRoutes == {"create_measurement", "list_measurements",
                      "delete_measurement"}
ScopedRoutes == ThresholdRoutes \cup MeasurementRoutes
CatalogRoutes == {"create_parameter", "update_parameter", "delete_parameter",
                  "create_unit", "update_unit", "delete_unit"}
Routes == AquariumRoutes \cup ScopedRoutes \cup CatalogRoutes

Labels == {"idle", "body", "aquarium", "parameter", "unit", "association",
           "canonical", "owned", "select", "units", "commit", "refused",
           "refresh", "answered"}
Statuses == {200, 201, 404, 409, 422, 500}

At(w, route, label) == pc[w] = label /\ req[w].route = route

Goto(w, label) == pc' = [pc EXCEPT ![w] = label] /\ UNCHANGED ans
Answer(w, status) ==
    /\ pc' = [pc EXCEPT ![w] = "answered"]
    /\ ans' = [ans EXCEPT ![w] = status]

\* The statement after the request is bound to its handler.
Entry(route) ==
    CASE route = "set_threshold" -> "body"
      [] route \in ScopedRoutes \ {"set_threshold"} -> "aquarium"
      [] route \in {"create_aquarium", "create_parameter", "create_unit"} -> "commit"
      [] OTHER -> "select"

\* Tables a request may mint a key in.
Mints(route) ==
    CASE route = "create_aquarium" -> {"aquarium"}
      [] route = "create_parameter" -> {"parameter"}
      [] route = "create_unit" -> {"unit"}
      [] route = "create_measurement" -> {"measurement"}
      [] OTHER -> {}

\* A client names only ids some earlier answer gave it.
Knows(r) ==
    /\ "aquarium" \in DOMAIN r => r.aquarium <= minted.aquarium
    /\ "measurement" \in DOMAIN r => r.measurement <= minted.measurement

\* MaxRows bounds the keys: a create is accepted while its table has room for
\* it and for the creates in flight.
HasRoom(r) ==
    \A t \in Mints(r.route) :
        minted[t] + Cardinality({w \in Workers : t \in Mints(req[w].route)})
          < MaxRows[t]

Accept(w) ==
    /\ pc[w] = "idle"
    /\ \E r \in Arrivals :
         /\ Knows(r) /\ HasRoom(r)
         /\ req' = [req EXCEPT ![w] = r]
         /\ pc' = [pc EXCEPT ![w] = Entry(r.route)]
    /\ UNCHANGED <<tables, loc, ans>>

\* Mutant: the answer of the last request survives.
CloseKeepingAnswer(w) ==
    /\ pc[w] = "answered"
    /\ pc' = [pc EXCEPT ![w] = "idle"]
    /\ req' = [req EXCEPT ![w] = NoRequest]
    /\ loc' = [loc EXCEPT ![w] = NoLocals]
    /\ UNCHANGED <<tables, ans>>

\* get_session's `finally: session.close()`.
Close(w) ==
    /\ pc[w] = "answered"
    /\ pc' = [pc EXCEPT ![w] = "idle"]
    /\ req' = [req EXCEPT ![w] = NoRequest]
    /\ loc' = [loc EXCEPT ![w] = NoLocals]
    /\ ans' = [ans EXCEPT ![w] = 0]
    /\ UNCHANGED tables

-----------------------------------------------------------------------------
(* The statements that open every aquarium-scoped handler.                 *)

\* Mutant: a lookup by id alone.
FindAnyAquarium(w) ==
    /\ pc[w] = "aquarium"
    /\ IF req[w].aquarium \in IdsOf(aquariums)
         THEN Goto(w, "parameter") ELSE Answer(w, 404)
    /\ UNCHANGED <<tables, req, loc>>

\* AquariumRepository.get_by_id_and_owner, 404 for a foreign or absent id.
FindAquarium(w) ==
    /\ pc[w] = "aquarium"
    /\ IF Owned(req[w].aquarium, req[w].user)
         THEN Goto(w, "parameter") ELSE Answer(w, 404)
    /\ UNCHANGED <<tables, req, loc>>

\* The field checks of set_threshold run on the parameter that was found.
InRange(slug, v) == v = NULL \/ (Rules[slug].low <= v /\ v <= Rules[slug].high)
\* Mutant: the loop over the fields forgets max.
TargetAndMinInRange(r) == InRange(r.slug, r.target) /\ InRange(r.slug, r.min)
ThresholdInRange(r) ==
    InRange(r.slug, r.target) /\ InRange(r.slug, r.min) /\ InRange(r.slug, r.max)

AfterParameter(route) ==
    CASE route = "create_measurement" -> "unit"
      [] route = "delete_measurement" -> "select"
      [] OTHER -> "owned"

\* normalize_parameter: a slug needs a catalog row and a rule in the code.
FindParameter(w) ==
    /\ pc[w] = "parameter"
    /\ LET r == req[w]
           found == ParametersBySlug(r.slug)
       IN IF \/ found = {} \/ r.slug \notin DOMAIN Rules
             \/ r.route = "set_threshold" /\ ~ThresholdInRange(r)
            THEN Answer(w, 422) /\ UNCHANGED loc
            ELSE /\ Goto(w, AfterParameter(r.route))
                 /\ \E p \in found : loc' = [loc EXCEPT ![w].parameter = p.id]
    /\ UNCHANGED <<tables, req>>

\* _is_owned_aquarium: the repositories check the owner a second time, and
\* their ValueError has no handler.
CheckOwned(w) ==
    /\ pc[w] = "owned"
    /\ IF Owned(req[w].aquarium, req[w].user)
         THEN Goto(w, IF req[w].route = "create_measurement"
                        THEN "commit" ELSE "select")
         ELSE Answer(w, 500)
    /\ UNCHANGED <<tables, req, loc>>

ApiInit ==
    /\ StoreInit
    /\ pc = [w \in Workers |-> "idle"]
    /\ req = [w \in Workers |-> NoRequest]
    /\ loc = [w \in Workers |-> NoLocals]
    /\ ans = [w \in Workers |-> 0]

TypeOKWorkers ==
    /\ pc \in [Workers -> Labels]
    /\ req \in [Workers -> Arrivals \cup {NoRequest}]
    /\ loc \in [Workers -> Locals]
    /\ ans \in [Workers -> Statuses \cup {0}]
    /\ \A w \in Workers :
         /\ loc[w].parameter \in 0..minted.parameter
         /\ loc[w].unit \in 0..minted.unit
         /\ loc[w].canonical \in 0..minted.unit
         /\ ans[w] = 0 <=> pc[w] # "answered"
=============================================================================
