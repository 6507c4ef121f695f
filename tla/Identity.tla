------------------------------- MODULE Identity ------------------------------
(***************************************************************************)
(* From the claims of a valid token to a row of users, and the profile of  *)
(* that row: user_service.py, user_repository.py, routers/profile.py.      *)
(*                                                                         *)
(* As in Api, each worker runs at most one request, one statement a step,  *)
(* and statements of several workers interleave.  GET /me is a PATCH with  *)
(* an empty body.  No route deletes a user.                                *)
(***************************************************************************)
EXTENDS Naturals, FiniteSets

CONSTANTS
    Workers,
    Issuers,            \* spellings of `iss`
    Subjects,           \* values of `sub`
    Texts,              \* usernames, display names and bios
    NULL,
    Blank,              \* a claim that is missing or empty
    Trim,               \* spelling |-> issuer without trailing slashes
    Patches,            \* bodies of PATCH /me: field |-> new value
    Tokens              \* claims of the tokens clients present

Fields == {"display_name", "bio"}
Optional(S) == S \cup {NULL}
Token == [iss : Issuers, sub : Subjects \cup {Blank}, name : Optional(Texts)]

ASSUME IdentityAssumption ==
    /\ Blank \notin Subjects /\ NULL \notin Texts
    /\ Trim \in [Issuers -> Issuers]
    /\ Patches \subseteq UNION {[F -> Optional(Texts)] : F \in SUBSET Fields}
    /\ Tokens \subseteq Token

Identities == {[issuer |-> Trim[iss], subject |-> sub] :
                  iss \in Issuers, sub \in Subjects}
Nobody == [issuer |-> Blank, subject |-> Blank]

VARIABLES
    users, minted,      \* the table, and the number of ids minted
    pc, token, patch,   \* the statement to run, the claims, the body
    user,               \* id of the user the request was resolved to
    loaded,             \* the profile columns as this session loaded them
    ans

vars == <<users, minted, pc, token, patch, user, loaded, ans>>
request == <<token, patch>>

NoToken == [iss |-> Blank, sub |-> Blank, name |-> NULL]
NoPatch == [f \in {} |-> NULL]
Profile == [Fields -> Optional(Texts)]
EmptyProfile == [f \in Fields |-> NULL]
User == [id : Nat \ {0}, issuer : Issuers, subject : Subjects,
         username : Optional(Texts), profile : Profile]
Labels == {"idle", "claims", "lookup", "insert", "refresh", "again",
           "endpoint", "reload", "answered"}

\* The key of a token: issuer without trailing slashes, and subject.
\* Mutant: the query filters on the subject alone.
HoldersOfSubject(t) == {u \in users : u.subject = t.sub}
Holders(t) == {u \in users : u.issuer = Trim[t.iss] /\ u.subject = t.sub}

Goto(w, label) == pc' = [pc EXCEPT ![w] = label] /\ UNCHANGED ans
Answer(w, status) ==
    /\ pc' = [pc EXCEPT ![w] = "answered"]
    /\ ans' = [ans EXCEPT ![w] = status]

\* The session now holds the user's row.
Resolve(w, u) ==
    /\ user' = [user EXCEPT ![w] = u.id]
    /\ loaded' = [loaded EXCEPT ![w] = u.profile]
    /\ Goto(w, "endpoint")

Init ==
    /\ users = {} /\ minted = 0
    /\ pc = [w \in Workers |-> "idle"]
    /\ token = [w \in Workers |-> NoToken]
    /\ patch = [w \in Workers |-> NoPatch]
    /\ user = [w \in Workers |-> 0]
    /\ loaded = [w \in Workers |-> EmptyProfile]
    /\ ans = [w \in Workers |-> 0]

Arrive(w) ==
    /\ pc[w] = "idle"
    /\ \E t \in Tokens, p \in Patches :
         /\ token' = [token EXCEPT ![w] = t]
         /\ patch' = [patch EXCEPT ![w] = p]
    /\ Goto(w, "claims")
    /\ UNCHANGED <<users, minted, user, loaded>>

\* Mutant: a token without a subject is let through.
CheckNothing(w) ==
    /\ pc[w] = "claims"
    /\ Goto(w, "lookup")
    /\ UNCHANGED <<users, minted, request, user, loaded>>

\* A ValueError in here is answered 401.
CheckClaims(w) ==
    /\ pc[w] = "claims"
    /\ IF token[w].sub = Blank THEN Answer(w, 401) ELSE Goto(w, "lookup")
    /\ UNCHANGED <<users, minted, request, user, loaded>>

GetByIdentity(w) ==
    /\ pc[w] = "lookup"
    /\ \/ /\ Holders(token[w]) = {}
          /\ Goto(w, "insert") /\ UNCHANGED <<user, loaded>>
       \/ \E u \in Holders(token[w]) : Resolve(w, u)
    /\ UNCHANGED <<users, minted, request>>

\* Mutant: no unique constraint on the identity.
CreateUnchecked(w) ==
    /\ pc[w] = "insert"
    /\ users' = users \cup
         {[id |-> minted + 1, issuer |-> Trim[token[w].iss],
           subject |-> token[w].sub, username |-> token[w].name,
           profile |-> EmptyProfile]}
    /\ minted' = minted + 1
    /\ Goto(w, "refresh")
    /\ UNCHANGED <<request, user, loaded>>

\* Mutant: the INSERT of the loser waits for ever.
CreateWhenFree(w) ==
    /\ pc[w] = "insert" /\ Holders(token[w]) = {}
    /\ users' = users \cup
         {[id |-> minted + 1, issuer |-> Trim[token[w].iss],
           subject |-> token[w].sub, username |-> token[w].name,
           profile |-> EmptyProfile]}
    /\ minted' = minted + 1
    /\ Goto(w, "refresh")
    /\ UNCHANGED <<request, user, loaded>>

\* uq_users_oauth_issuer_subject decides between two first requests.
CreateForIdentity(w) ==
    /\ pc[w] = "insert"
    /\ \/ /\ Holders(token[w]) # {}
          /\ Goto(w, "again") /\ UNCHANGED <<users, minted>>
       \/ /\ Holders(token[w]) = {}
          /\ users' = users \cup
               {[id |-> minted + 1, issuer |-> Trim[token[w].iss],
                 subject |-> token[w].sub, username |-> token[w].name,
                 profile |-> EmptyProfile]}
          /\ minted' = minted + 1
          /\ Goto(w, "refresh")
    /\ UNCHANGED <<request, user, loaded>>

\* The row just inserted is read back.
RefreshCreated(w) ==
    /\ pc[w] = "refresh"
    /\ \E u \in Holders(token[w]) : Resolve(w, u)
    /\ UNCHANGED <<users, minted, request>>

\* Mutant: the lost race is not looked into.
GiveUp(w) ==
    /\ pc[w] = "again"
    /\ Answer(w, 500)
    /\ UNCHANGED <<users, minted, request, user, loaded>>

\* After the rollback: "Another request may have created this mapping
\* concurrently."  Were it still missing, the error would be raised (500).
GetAgain(w) ==
    /\ pc[w] = "again"
    /\ IF Holders(token[w]) = {} THEN Answer(w, 500) /\ UNCHANGED <<user, loaded>>
       ELSE \E u \in Holders(token[w]) : Resolve(w, u)
    /\ UNCHANGED <<users, minted, request>>

\* Mutant: the row is written back whole.
MergeLoaded(profile, old, new) ==
    [f \in Fields |-> IF f \in DOMAIN new THEN new[f] ELSE old[f]]

\* update_profile writes the columns that differ from what was loaded.
Merge(profile, old, new) ==
    [f \in Fields |->
       IF f \in DOMAIN new /\ new[f] # old[f] THEN new[f] ELSE profile[f]]

GetProfile(w) ==
    /\ pc[w] = "endpoint" /\ patch[w] = NoPatch
    /\ Answer(w, 200)
    /\ UNCHANGED <<users, minted, request, user, loaded>>

UpdateProfile(w) ==
    /\ pc[w] = "endpoint" /\ patch[w] # NoPatch
    /\ users' = {IF u.id = user[w]
                   THEN [u EXCEPT !.profile = Merge(@, loaded[w], patch[w])]
                   ELSE u : u \in users}
    /\ Goto(w, "reload")
    /\ UNCHANGED <<minted, request, user, loaded>>

\* The refresh that follows the commit.
ReloadProfile(w) ==
    /\ pc[w] = "reload"
    /\ \E u \in users :
         /\ u.id = user[w]
         /\ loaded' = [loaded EXCEPT ![w] = u.profile]
    /\ Answer(w, 200)
    /\ UNCHANGED <<users, minted, request, user>>

Close(w) ==
    /\ pc[w] = "answered"
    /\ pc' = [pc EXCEPT ![w] = "idle"]
    /\ token' = [token EXCEPT ![w] = NoToken]
    /\ patch' = [patch EXCEPT ![w] = NoPatch]
    /\ user' = [user EXCEPT ![w] = 0]
    /\ loaded' = [loaded EXCEPT ![w] = EmptyProfile]
    /\ ans' = [ans EXCEPT ![w] = 0]
    /\ UNCHANGED <<users, minted>>

Handle(w) ==
    \/ CheckClaims(w)
    \/ GetByIdentity(w)
    \/ CreateForIdentity(w)
    \/ RefreshCreated(w)
    \/ GetAgain(w)
    \/ GetProfile(w)
    \/ UpdateProfile(w)
    \/ ReloadProfile(w)
    \/ Close(w)

Next == \E w \in Workers : Arrive(w) \/ Handle(w)

Spec == Init /\ [][Next]_vars
FairSpec == Spec /\ \A w \in Workers : WF_vars(Handle(w))
-----------------------------------------------------------------------------
TypeOK ==
    /\ users \subseteq User
    /\ minted \in Nat
    /\ pc \in [Workers -> Labels]
    /\ token \in [Workers -> Tokens \cup {NoToken}]
    /\ patch \in [Workers -> Patches \cup {NoPatch}]
    /\ user \in [Workers -> Nat]
    /\ loaded \in [Workers -> Profile]
    /\ ans \in [Workers -> {0, 200, 401, 500}]

Serves(w) == pc[w] \in {"endpoint", "reload"} \/ ans[w] = 200

\* A request is served as the one user that holds the identity in its token,
\* whichever of several first requests created the row.
ServedAsHolder ==
    \A w \in Workers : Serves(w) =>
        \E u \in users :
            /\ u.id = user[w]
            /\ \A v \in users :
                 v.issuer = Trim[token[w].iss] /\ v.subject = token[w].sub
                   <=> v = u

\* Losing the race for the first row is not an error: the comment on line 51 of
\* user_repository.py.
RaceIsResolved == \A w \in Workers : ans[w] # 500

\* A step changes nothing of an existing user but the fields that the body of
\* its own request names, in its own row: the username keeps the value of the
\* first token, and a concurrent PATCH of the other field survives.
Untouched(w, u) ==
    \E v \in users' :
        /\ v.id = u.id /\ v.issuer = u.issuer /\ v.subject = u.subject
        /\ v.username = u.username
        /\ \A f \in Fields : v.profile[f] = u.profile[f]
             \/ (user[w] = u.id /\ f \in DOMAIN patch[w])
OnlyNamedFields ==
    [][\A w \in Workers : pc'[w] # pc[w] => \A u \in users : Untouched(w, u)]_vars

\* Every request that arrives is answered, by no more than its own statements.
Answered == \A w \in Workers : (pc[w] # "idle") ~> (pc[w] = "idle")

IdentityOf(w) ==
    IF pc[w] = "idle" \/ token[w].sub = Blank THEN Nobody
    ELSE [issuer |-> Trim[token[w].iss], subject |-> token[w].sub]

Map == INSTANCE IdentityMap WITH
    account <- [i \in Identities |->
        IF \E u \in users : u.issuer = i.issuer /\ u.subject = i.subject
          THEN (CHOOSE u \in users :
                  u.issuer = i.issuer /\ u.subject = i.subject).id
          ELSE 0],
    asked <- [w \in Workers |-> IdentityOf(w)],
    told <- user

ImplementsMap == Map!MapSpec
=============================================================================
