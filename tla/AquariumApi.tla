----------------------------- MODULE AquariumApi -----------------------------
(***************************************************************************)
(* /aquariums: src/src/routers/aquariums.py over aquarium_repository.py.   *)
(*                                                                         *)
(* An update carries a new name, NULL or Unset; `nulled` says that `type`  *)
(* is an explicit null.  Both columns are NOT NULL, and the schema lets    *)
(* both nulls through.  A `type` that is a string and the volume take part *)
(* in no constraint: a PATCH of them alone is an Unset one.                *)
(***************************************************************************)
EXTENDS Api

GetAquarium(w) ==
    /\ At(w, "get_aquarium", "select")
    /\ Answer(w, IF Owned(req[w].aquarium, req[w].user) THEN 200 ELSE 404)
    /\ UNCHANGED <<tables, req, loc>>

CreateAquarium(w) ==
    /\ At(w, "create_aquarium", "commit")
    /\ LET r == req[w] IN
       \/ /\ NameTaken(r.user, r.name)
          /\ Answer(w, 409)
          /\ UNCHANGED <<tables, loc>>
       \/ /\ InsertAquarium(r.user, r.name)
          /\ loc' = [loc EXCEPT ![w].row = minted.aquarium + 1]
          /\ Goto(w, "refresh")
    /\ UNCHANGED req

\* The row update_by_id_and_owner and delete_by_id_and_owner load first.
SelectAquarium(w) ==
    /\ pc[w] = "select" /\ req[w].route \in {"update_aquarium", "delete_aquarium"}
    /\ \/ /\ ~Owned(req[w].aquarium, req[w].user)
          /\ Answer(w, 404)
          /\ UNCHANGED loc
       \/ \E a \in aquariums :
            /\ a.id = req[w].aquarium /\ a.owner = req[w].user
            /\ loc' = [loc EXCEPT ![w].row = a.id, ![w].name = a.name]
            /\ Goto(w, "commit")
    /\ UNCHANGED <<tables, req>>

\* Only a column that differs from its loaded value is written; a null always
\* differs.  An UPDATE that matches no row is a StaleDataError (500); every
\* IntegrityError is answered as a duplicate name, NOT NULL violations too.
Renames(w) == req[w].name # Unset /\ req[w].name # loc[w].name
NullsColumn(r) == r.name = NULL \/ r.nulled
UpdateAquarium(w) ==
    /\ At(w, "update_aquarium", "commit")
    /\ LET r == req[w]
           row == loc[w].row
           written == Renames(w) \/ r.nulled
           present == row \in IdsOf(aquariums)
       IN \/ /\ written /\ ~present
             /\ Answer(w, 500) /\ UNCHANGED tables
          \/ /\ written /\ present
             /\ NullsColumn(r) \/ RenameRefused(row, r.name)
             /\ Answer(w, 409) /\ UNCHANGED tables
          \/ /\ written /\ present /\ ~NullsColumn(r)
             /\ RenameAquarium(row, r.name)
             /\ Goto(w, "refresh")
          \/ /\ ~written
             /\ Goto(w, "refresh") /\ UNCHANGED tables
    /\ UNCHANGED <<req, loc>>

RefreshAquarium(w) ==
    /\ pc[w] = "refresh" /\ req[w].route \in {"create_aquarium", "update_aquarium"}
    /\ Answer(w, IF loc[w].row \notin IdsOf(aquariums) THEN 500
                 ELSE IF req[w].route = "create_aquarium" THEN 201 ELSE 200)
    /\ UNCHANGED <<tables, req, loc>>

\* session.delete of a row another worker has deleted only logs a warning.
RemoveAquarium(w) ==
    /\ At(w, "delete_aquarium", "commit")
    /\ DeleteAquarium(loc[w].row)
    /\ Answer(w, 200)
    /\ UNCHANGED <<req, loc>>

AquariumStep(w) ==
    \/ GetAquarium(w)
    \/ CreateAquarium(w)
    \/ SelectAquarium(w)
    \/ UpdateAquarium(w)
    \/ RefreshAquarium(w)
    \/ RemoveAquarium(w)
=============================================================================
