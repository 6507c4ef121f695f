----------------------------- MODULE IdentityMap -----------------------------
(***************************************************************************)
(* What authentication promises the rest of the backend: an identity of    *)
(* the OAuth provider has at most one account, for ever, two identities    *)
(* never share one, and whoever is told an account is told that one.       *)
(***************************************************************************)
EXTENDS Naturals

CONSTANTS Workers, Identities, Nobody

VARIABLES
    account,            \* identity |-> account id, 0 while it has none
    asked,              \* worker |-> identity whose account it wants
    told                \* worker |-> account id it was given, 0 for none

mapVars == <<account, asked, told>>

MapInit ==
    /\ account = [i \in Identities |-> 0]
    /\ asked = [w \in Workers |-> Nobody]
    /\ told = [w \in Workers |-> 0]

Ask(w, i) ==
    /\ asked[w] = Nobody
    /\ asked' = [asked EXCEPT ![w] = i]
    /\ UNCHANGED <<account, told>>

\* An account is opened on demand, under an id no identity has.
Enroll(w) ==
    /\ asked[w] # Nobody /\ account[asked[w]] = 0
    /\ LET id == account'[asked[w]] IN
         /\ id \in Nat \ {0}
         /\ \A i \in Identities : account[i] # id
         /\ account' = [account EXCEPT ![asked[w]] = id]
    /\ UNCHANGED <<asked, told>>

Tell(w) ==
    /\ asked[w] # Nobody /\ told[w] = 0 /\ account[asked[w]] # 0
    /\ told' = [told EXCEPT ![w] = account[asked[w]]]
    /\ UNCHANGED <<account, asked>>

Leave(w) ==
    /\ asked[w] # Nobody /\ told[w] # 0
    /\ asked' = [asked EXCEPT ![w] = Nobody]
    /\ told' = [told EXCEPT ![w] = 0]
    /\ UNCHANGED account

MapNext ==
    \E w \in Workers :
        \/ \E i \in Identities : Ask(w, i)
        \/ Enroll(w)
        \/ Tell(w)
        \/ Leave(w)

MapSpec == MapInit /\ [][MapNext]_mapVars
=============================================================================
