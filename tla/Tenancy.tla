------------------------------- MODULE Tenancy -------------------------------
(***************************************************************************)
(* What the service promises a tenant, without catalog, SQL or workers.    *)
(* A user owns aquariums; an aquarium holds records: measurements, which   *)
(* can be discarded, and thresholds, which can only be replaced.  Only     *)
(* while a request of the owner is being served does any of it change.  An *)
(* aquarium that is deleted takes its records with it and never comes      *)
(* back.  In particular no administration of the shared catalog, which is  *)
(* open to every user, costs a tenant a record.                            *)
(***************************************************************************)
CONSTANTS Users, Aquariums, Thresholds, Measurements

VARIABLES
    owned,              \* user |-> the aquariums the user has
    records,            \* aquarium |-> its records
    retired,            \* aquariums that were deleted
    serving             \* users with a request in flight

tenancyVars == <<owned, records, retired, serving>>

TenancyInit ==
    /\ owned \in [Users -> SUBSET Aquariums]
    /\ records = [a \in Aquariums |-> {}]
    /\ retired = {}
    /\ serving = {}

Acquire(u, a) ==
    /\ a \notin retired /\ \A v \in Users : a \notin owned[v]
    /\ owned' = [owned EXCEPT ![u] = @ \cup {a}]
    /\ UNCHANGED <<records, retired>>

Dispose(u, a) ==
    /\ a \in owned[u]
    /\ owned' = [owned EXCEPT ![u] = @ \ {a}]
    /\ records' = [records EXCEPT ![a] = {}]
    /\ retired' = retired \cup {a}

Keep(u, a, r) ==
    /\ a \in owned[u] /\ r \notin records[a]
    /\ records' = [records EXCEPT ![a] = @ \cup {r}]
    /\ UNCHANGED <<owned, retired>>

Discard(u, a, r) ==
    /\ a \in owned[u] /\ r \in records[a]
    /\ records' = [records EXCEPT ![a] = @ \ {r}]
    /\ UNCHANGED <<owned, retired>>

\* Requests come and go in a step of their own.
Serve == serving' \in SUBSET Users /\ UNCHANGED <<owned, records, retired>>

TenancyNext ==
    \/ Serve
    \/ \E u \in serving, a \in Aquariums :
         /\ \/ Acquire(u, a)
            \/ Dispose(u, a)
            \/ \E r \in Thresholds \cup Measurements : Keep(u, a, r)
            \/ \E r \in Measurements : Discard(u, a, r)
         /\ UNCHANGED serving

TenancySpec == TenancyInit /\ [][TenancyNext]_tenancyVars
=============================================================================
