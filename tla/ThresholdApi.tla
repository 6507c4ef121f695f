---------------------------- MODULE ThresholdApi -----------------------------
(***************************************************************************)
(* /aquariums/{aquarium_id}/thresholds/{parameter}:                        *)
(* src/src/routers/aquarium_parameter_thresholds.py over                   *)
(* aquarium_parameter_threshold_repository.py.  A PUT is a SELECT followed *)
(* by an INSERT or an UPDATE, not one upsert statement.                    *)
(***************************************************************************)
EXTENDS Api

\* SetThresholdRequest.validate_ordering, pairwise because each is optional.
NotAbove(x, y) == x # NULL /\ y # NULL => x <= y
Ordered(t) ==
    /\ NotAbove(t.min, t.target)
    /\ NotAbove(t.target, t.max)
    /\ NotAbove(t.min, t.max)

ValidateOrdering(w) ==
    /\ At(w, "set_threshold", "body")
    /\ IF Ordered(req[w]) THEN Goto(w, "aquarium") ELSE Answer(w, 422)
    /\ UNCHANGED <<tables, req, loc>>

Body(w) ==
    [aquarium |-> req[w].aquarium, parameter |-> loc[w].parameter,
     target |-> req[w].target, min |-> req[w].min, max |-> req[w].max]

StoredThresholds(w) ==
    {t \in thresholds : /\ t.aquarium = req[w].aquarium
                        /\ t.parameter = loc[w].parameter}

SelectThreshold(w) ==
    /\ At(w, "set_threshold", "select")
    /\ \/ /\ StoredThresholds(w) = {} /\ UNCHANGED loc
       \/ \E t \in StoredThresholds(w) : loc' = [loc EXCEPT ![w].threshold = t]
    /\ Goto(w, "commit")
    /\ UNCHANGED <<tables, req>>

\* No row was found: INSERT.  The IntegrityError of a lost race is re-raised,
\* and nothing translates it.
CreateThreshold(w) ==
    /\ At(w, "set_threshold", "commit") /\ loc[w].threshold = NULL
    /\ \/ /\ ThresholdRefused(Body(w).aquarium, Body(w).parameter)
          /\ Answer(w, 500)
          /\ UNCHANGED tables
       \/ /\ InsertThreshold(Body(w))
          /\ Goto(w, "refresh")
    /\ UNCHANGED <<req, loc>>

\* Mutant: the UPDATE waits for the row it loaded.
ReplaceStoredThreshold(w) ==
    /\ At(w, "set_threshold", "commit") /\ loc[w].threshold # NULL
    /\ StoredThresholds(w) # {}
    /\ UpdateThreshold(loc[w].threshold, Body(w))
    /\ Goto(w, "refresh")
    /\ UNCHANGED <<req, loc>>

\* A row was found: UPDATE of the columns that change, none if none does.
ReplaceThreshold(w) ==
    /\ At(w, "set_threshold", "commit") /\ loc[w].threshold # NULL
    /\ \/ /\ Body(w) # loc[w].threshold
          /\ StoredThresholds(w) = {}
          /\ Answer(w, 500)
          /\ UNCHANGED tables
       \/ /\ Body(w) = loc[w].threshold \/ StoredThresholds(w) # {}
          /\ UpdateThreshold(loc[w].threshold, Body(w))
          /\ Goto(w, "refresh")
    /\ UNCHANGED <<req, loc>>

RefreshThreshold(w) ==
    /\ At(w, "set_threshold", "refresh")
    /\ Answer(w, IF StoredThresholds(w) = {} THEN 500 ELSE 200)
    /\ UNCHANGED <<tables, req, loc>>

\* A threshold never set is answered with an empty payload, not with a 404.
GetThreshold(w) ==
    /\ At(w, "get_threshold", "select")
    /\ Answer(w, 200)
    /\ UNCHANGED <<tables, req, loc>>

ThresholdStep(w) ==
    \/ ValidateOrdering(w)
    \/ SelectThreshold(w)
    \/ CreateThreshold(w)
    \/ ReplaceThreshold(w)
    \/ RefreshThreshold(w)
    \/ GetThreshold(w)
=============================================================================
