----------------------------- MODULE CatalogApi ------------------------------
(***************************************************************************)
(* /parameters and /units: src/src/routers/parameters.py and units.py over *)
(* parameter_repository.py and unit_repository.py.  Any authenticated user *)
(* administers the shared catalog; no route creates an association.        *)
(*                                                                         *)
(* A PATCH changes display_name or description, which no other route       *)
(* reads: `nulled` says that display_name is an explicit null.             *)
(***************************************************************************)
EXTENDS Api

CONSTANT Slugify        \* slugify_unit, a function on notations

\* The slug of a notation does not depend on its case.
ASSUME SlugifyAssumption ==
    /\ Slugify \in [Notations -> UnitSlugs]
    /\ \A m, n \in Notations : Lower[m] = Lower[n] => Slugify[m] = Slugify[n]

CreateParameter(w) ==
    /\ At(w, "create_parameter", "commit")
    /\ \/ /\ SlugTaken(req[w].slug)
          /\ Answer(w, 409)
          /\ UNCHANGED <<tables, loc>>
       \/ /\ InsertParameter(req[w].slug)
          /\ loc' = [loc EXCEPT ![w].row = minted.parameter + 1]
          /\ Goto(w, "refresh")
    /\ UNCHANGED req

\* Mutant: the slug keeps the case of the notation.
CreateUnitUnfolded(w) ==
    /\ At(w, "create_unit", "commit")
    /\ \/ /\ UnitSlugTaken(req[w].unit)
          /\ Answer(w, 409)
          /\ UNCHANGED <<tables, loc>>
       \/ /\ InsertUnit(req[w].unit, req[w].unit)
          /\ loc' = [loc EXCEPT ![w].row = minted.unit + 1]
          /\ Goto(w, "refresh")
    /\ UNCHANGED req

CreateUnit(w) ==
    /\ At(w, "create_unit", "commit")
    /\ LET slug == Slugify[req[w].unit] IN
       \/ /\ UnitSlugTaken(slug)
          /\ Answer(w, 409)
          /\ UNCHANGED <<tables, loc>>
       \/ /\ InsertUnit(slug, req[w].unit)
          /\ loc' = [loc EXCEPT ![w].row = minted.unit + 1]
          /\ Goto(w, "refresh")
    /\ UNCHANGED req

\* get_by_slug, before a PATCH or a DELETE.
SelectParameter(w) ==
    /\ pc[w] = "select" /\ req[w].route \in {"update_parameter", "delete_parameter"}
    /\ \/ /\ ParametersBySlug(req[w].slug) = {}
          /\ Answer(w, 404)
          /\ UNCHANGED loc
       \/ \E p \in ParametersBySlug(req[w].slug) :
            /\ loc' = [loc EXCEPT ![w].row = p.id]
            /\ Goto(w, "commit")
    /\ UNCHANGED <<tables, req>>

SelectUnit(w) ==
    /\ pc[w] = "select" /\ req[w].route \in {"update_unit", "delete_unit"}
    /\ LET found == {u \in units : u.slug = req[w].slug} IN
       \/ /\ found = {}
          /\ Answer(w, 404)
          /\ UNCHANGED loc
       \/ \E u \in found :
            /\ loc' = [loc EXCEPT ![w].row = u.id]
            /\ Goto(w, "commit")
    /\ UNCHANGED <<tables, req>>

CatalogIds(w) ==
    IF req[w].route \in {"create_parameter", "update_parameter", "delete_parameter"}
      THEN IdsOf(parameters) ELSE IdsOf(units)

\* No `try` around this commit: a lost row and a null display_name are both 500.
\* A PATCH that changes nothing emits no UPDATE and meets a lost row at the
\* refresh, with the same answer.
UpdateCatalogRow(w) ==
    /\ pc[w] = "commit" /\ req[w].route \in {"update_parameter", "update_unit"}
    /\ IF req[w].nulled \/ loc[w].row \notin CatalogIds(w)
         THEN Answer(w, 500) ELSE Goto(w, "refresh")
    /\ UNCHANGED <<tables, req, loc>>

RefreshCatalogRow(w) ==
    /\ pc[w] = "refresh" /\ req[w].route \in CatalogRoutes
    /\ Answer(w, IF loc[w].row \notin CatalogIds(w) THEN 500
                 ELSE IF req[w].route \in {"create_parameter", "create_unit"}
                        THEN 201 ELSE 200)
    /\ UNCHANGED <<tables, req, loc>>

RemoveParameter(w) ==
    /\ At(w, "delete_parameter", "commit")
    /\ \/ /\ ParameterInUse(loc[w].row)
          /\ Answer(w, 409)
          /\ UNCHANGED tables
       \/ /\ DeleteParameter(loc[w].row)
          /\ Answer(w, 200)
    /\ UNCHANGED <<req, loc>>

RemoveUnit(w) ==
    /\ At(w, "delete_unit", "commit")
    /\ \/ /\ UnitInUse(loc[w].row)
          /\ Answer(w, 409)
          /\ UNCHANGED tables
       \/ /\ DeleteUnit(loc[w].row)
          /\ Answer(w, 200)
    /\ UNCHANGED <<req, loc>>

CatalogStep(w) ==
    \/ CreateParameter(w)
    \/ CreateUnit(w)
    \/ SelectParameter(w)
    \/ SelectUnit(w)
    \/ UpdateCatalogRow(w)
    \/ RefreshCatalogRow(w)
    \/ RemoveParameter(w)
    \/ RemoveUnit(w)
=============================================================================
