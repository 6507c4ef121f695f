--------------------------- MODULE IdentityProofs ---------------------------
(***************************************************************************)
(* For any workers, issuers, tokens and bodies: one account an identity,   *)
(* every request served as its holder, a lost race resolved, and a profile *)
(* changed only where the body of the request says so.                     *)
(***************************************************************************)
EXTENDS Identity, TLAPS

Resolved == {"endpoint", "reload"}

\* The unique constraint, and the primary key with ids that are never reused.
KeysUnique ==
    /\ \A u, v \in users : u.issuer = v.issuer /\ u.subject = v.subject => u = v
    /\ \A u, v \in users : u.id = v.id => u = v
    /\ \A u \in users : u.id <= minted

\* The row the request was resolved to has the identity in its token.
Served(w) == \E u \in users : u.id = user[w] /\ u \in Holders(token[w])

\* What a handler relies on from one statement to the next.
Progress(w) ==
    /\ pc[w] \notin {"idle", "claims", "answered"} =>
         token[w] \in Token /\ token[w].sub # Blank
    /\ pc[w] \in {"refresh", "again"} => Holders(token[w]) # {}
    /\ pc[w] \in Resolved \/ ans[w] = 200 => Served(w)
    /\ pc[w] # "answered" => ans[w] = 0
    /\ ans[w] # 500
    /\ pc[w] \notin Resolved \cup {"answered"} => user[w] = 0
    /\ pc[w] = "answered" =>
         \/ ans[w] = 200 /\ token[w].sub # Blank
         \/ user[w] = 0 /\ token[w].sub = Blank

IInv == TypeOK /\ KeysUnique /\ \A w \in Workers : Progress(w)

LEMMA InitInv == Init => IInv
<1> SUFFICES ASSUME Init PROVE IInv
  OBVIOUS
<1> USE DEF Init
<1>1. TypeOK
  BY DEF TypeOK, Labels, Profile, EmptyProfile, Optional
<1>2. KeysUnique
  BY DEF KeysUnique
<1>3. \A w \in Workers : Progress(w)
  BY DEF Progress, Resolved
<1> QED BY <1>1, <1>2, <1>3 DEF IInv

-----------------------------------------------------------------------------
(* What statements do to the table. *)

\* A row as an UPDATE by worker w leaves it.
Written(w, u) ==
    IF u.id = user[w] THEN [u EXCEPT !.profile = Merge(@, loaded[w], patch[w])] ELSE u

LEMMA PatchType ==
    ASSUME TypeOK, NEW w \in Workers, NEW f \in DOMAIN patch[w], f \in Fields
    PROVE  patch[w][f] \in Optional(Texts)
<1>1. CASE patch[w] = NoPatch
  BY <1>1 DEF NoPatch
<1>2. CASE patch[w] \in Patches
  <2>1. PICK F \in SUBSET Fields : patch[w] \in [F -> Optional(Texts)]
    BY <1>2, IdentityAssumption
  <2> QED BY <2>1
<1> QED BY <1>1, <1>2 DEF TypeOK

LEMMA WrittenRow ==
    ASSUME TypeOK, NEW w \in Workers, NEW u \in users
    PROVE  /\ Written(w, u) \in User
           /\ Written(w, u).id = u.id
           /\ Written(w, u).issuer = u.issuer
           /\ Written(w, u).subject = u.subject
           /\ Written(w, u).username = u.username
           /\ \A f \in Fields : Written(w, u).profile[f] = u.profile[f]
                \/ (user[w] = u.id /\ f \in DOMAIN patch[w])
<1>1. u \in User /\ u.profile \in Profile
  BY DEF TypeOK, User
<1>2. Merge(u.profile, loaded[w], patch[w]) \in Profile
  BY <1>1, PatchType DEF Merge, Profile
<1>3. \A f \in Fields : Merge(u.profile, loaded[w], patch[w])[f] = u.profile[f]
                          \/ f \in DOMAIN patch[w]
  BY DEF Merge
<1> QED BY <1>1, <1>2, <1>3 DEF Written, User

LEMMA UpdateRows ==
    ASSUME NEW w \in Workers, UpdateProfile(w)
    PROVE  users' = {Written(w, u) : u \in users}
BY DEF UpdateProfile, Written

\* The row that CreateForIdentity inserts.
Created(w) ==
    [id |-> minted + 1, issuer |-> Trim[token[w].iss],
     subject |-> token[w].sub, username |-> token[w].name,
     profile |-> EmptyProfile]

LEMMA CreatedRow ==
    ASSUME TypeOK, NEW w \in Workers, token[w] \in Token, token[w].sub # Blank
    PROVE  Created(w) \in User
BY IdentityAssumption DEF Created, User, Token, TypeOK, Profile, EmptyProfile, Optional

-----------------------------------------------------------------------------
(* What a step of worker w means to its own request and to the others: rows *)
(* keep their keys, and the others keep their requests.                     *)

RowsKept == \A u \in users : \E v \in users' :
    v.id = u.id /\ v.issuer = u.issuer /\ v.subject = u.subject

OthersKept(w) == \A x \in Workers \ {w} :
    /\ pc'[x] = pc[x] /\ token'[x] = token[x] /\ user'[x] = user[x]
    /\ ans'[x] = ans[x]

LEMMA OthersProgress ==
    ASSUME IInv, NEW w \in Workers, RowsKept, OthersKept(w), NEW x \in Workers \ {w}
    PROVE  Progress(x)'
<1>1. Progress(x)
  BY DEF IInv
<1>2. Holders(token[x]) # {} => Holders(token[x])' # {}
  BY DEF RowsKept, OthersKept, Holders
<1>3. Served(x) => Served(x)'
  BY DEF RowsKept, OthersKept, Served, Holders
<1> QED BY <1>1, <1>2, <1>3 DEF Progress, OthersKept, Resolved, Holders

-----------------------------------------------------------------------------
LEMMA TokenType == TypeOK => \A w \in Workers : token[w] \in Token \cup {NoToken}
BY IdentityAssumption DEF TypeOK

LEMMA TypeStep == IInv /\ [Next]_vars => TypeOK'
<1> SUFFICES ASSUME IInv, [Next]_vars PROVE TypeOK'
  OBVIOUS
<1> USE DEF TypeOK, Labels, Answer, Goto, request
<1>0. TypeOK
  BY DEF IInv
<1>1. ASSUME NEW w \in Workers, Arrive(w) PROVE TypeOK'
  BY <1>0, <1>1 DEF Arrive
<1>2. ASSUME NEW w \in Workers, CheckClaims(w) PROVE TypeOK'
  BY <1>0, <1>2 DEF CheckClaims
<1>3. ASSUME NEW w \in Workers, NEW u \in users, Resolve(w, u),
             UNCHANGED <<users, minted, request>>
      PROVE  TypeOK'
  BY <1>0, <1>3 DEF Resolve, User
<1>4. ASSUME NEW w \in Workers, GetByIdentity(w) PROVE TypeOK'
  <2>1. CASE Goto(w, "insert") /\ UNCHANGED <<users, minted, request, user, loaded>>
    BY <1>0, <2>1
  <2> QED BY <1>3, <1>4, <2>1 DEF GetByIdentity, Holders
<1>5. ASSUME NEW w \in Workers, CreateForIdentity(w) PROVE TypeOK'
  <2>1. Created(w) \in User
    BY <1>0, <1>5, CreatedRow DEF CreateForIdentity, IInv, Progress
  <2>2. users' \in SUBSET User /\ minted' \in Nat
    BY <1>0, <1>5, <2>1 DEF CreateForIdentity, Created
  <2> QED BY <1>0, <1>5, <2>2 DEF CreateForIdentity
<1>6. ASSUME NEW w \in Workers, RefreshCreated(w) PROVE TypeOK'
  BY <1>3, <1>6 DEF RefreshCreated, Holders
<1>7. ASSUME NEW w \in Workers, GetAgain(w) PROVE TypeOK'
  <2>1. CASE Answer(w, 500) /\ UNCHANGED <<users, minted, request, user, loaded>>
    BY <1>0, <2>1
  <2> QED BY <1>3, <1>7, <2>1 DEF GetAgain, Holders
<1>8. ASSUME NEW w \in Workers, GetProfile(w) PROVE TypeOK'
  BY <1>0, <1>8 DEF GetProfile
<1>9. ASSUME NEW w \in Workers, UpdateProfile(w) PROVE TypeOK'
  <2>1. users' \subseteq User
    BY <1>0, <1>9, UpdateRows, WrittenRow
  <2> QED BY <1>0, <1>9, <2>1 DEF UpdateProfile
<1>10. ASSUME NEW w \in Workers, ReloadProfile(w) PROVE TypeOK'
  BY <1>0, <1>10 DEF ReloadProfile, User
<1>11. ASSUME NEW w \in Workers, Close(w) PROVE TypeOK'
  BY <1>0, <1>11 DEF Close, Profile, EmptyProfile, Optional
<1>12. CASE UNCHANGED vars
  BY <1>0, <1>12 DEF vars
<1> QED BY <1>1, <1>2, <1>4, <1>5, <1>6, <1>7, <1>8, <1>9, <1>10, <1>11, <1>12
    DEF Next, Handle

\* Only an INSERT adds a row, and the constraint has then found none of its
\* identity; an UPDATE keeps the keys.
LEMMA KeysStep == IInv /\ [Next]_vars => KeysUnique' /\ RowsKept
<1> SUFFICES ASSUME IInv, [Next]_vars PROVE KeysUnique' /\ RowsKept
  OBVIOUS
<1>0. TypeOK /\ KeysUnique
  BY DEF IInv
<1>1. CASE UNCHANGED <<users, minted>>
  BY <1>0, <1>1 DEF KeysUnique, RowsKept
<1>2. ASSUME NEW w \in Workers, CreateForIdentity(w), Holders(token[w]) = {}
      PROVE  KeysUnique' /\ RowsKept
  <2>1. /\ users' = users \cup {Created(w)} /\ minted' = minted + 1
        /\ Holders(token[w]) = {}
    BY <1>2 DEF CreateForIdentity, Created
  <2>2. \A u \in users : u.id \in Nat /\ u.id <= minted
    BY <1>0 DEF KeysUnique, TypeOK, User
  <2>3. \A u \in users : u.id # Created(w).id
    BY <1>0, <2>2 DEF TypeOK, Created
  <2>4. \A u \in users :
          ~(u.issuer = Created(w).issuer /\ u.subject = Created(w).subject)
    BY <2>1 DEF Holders, Created
  <2>5. (\A u \in users : u.id <= minted)'
    BY <1>0, <2>1, <2>2 DEF TypeOK, Created
  <2>6. RowsKept
    BY <2>1 DEF RowsKept
  <2> QED BY <1>0, <2>1, <2>3, <2>4, <2>5, <2>6 DEF KeysUnique
<1>3. ASSUME NEW w \in Workers, UpdateProfile(w) PROVE KeysUnique' /\ RowsKept
  <2>1. users' = {Written(w, u) : u \in users} /\ minted' = minted
    BY <1>3, UpdateRows DEF UpdateProfile
  <2>2. \A u \in users : /\ Written(w, u).id = u.id
                         /\ Written(w, u).issuer = u.issuer
                         /\ Written(w, u).subject = u.subject
    BY <1>0, WrittenRow
  <2>3. KeysUnique'
    BY <1>0, <2>1, <2>2 DEF KeysUnique
  <2>4. RowsKept
    BY <2>1, <2>2 DEF RowsKept
  <2> QED BY <2>3, <2>4
<1>4. CASE UNCHANGED vars
  BY <1>1, <1>4 DEF vars
<1>5. ASSUME NEW w \in Workers, Arrive(w) \/ Handle(w)
      PROVE  UNCHANGED <<users, minted>> \/ UpdateProfile(w)
               \/ (CreateForIdentity(w) /\ Holders(token[w]) = {})
  BY <1>5 DEF Arrive, Handle, CheckClaims, GetByIdentity, CreateForIdentity,
     RefreshCreated, GetAgain, GetProfile, ReloadProfile, Close
<1> QED BY <1>1, <1>2, <1>3, <1>4, <1>5 DEF Next

-----------------------------------------------------------------------------
\* The request of the worker that makes the step.
LEMMA OwnProgress ==
    ASSUME IInv, NEW w \in Workers, Arrive(w) \/ Handle(w), RowsKept
    PROVE  Progress(w)' /\ OthersKept(w)
<1> USE DEF Progress, Resolved, Answer, Goto, OthersKept
<1>0. /\ TypeOK /\ Progress(w)
      /\ pc \in [Workers -> Labels] /\ ans \in [Workers -> {0, 200, 401, 500}]
      /\ token \in [Workers -> Tokens \cup {NoToken}] /\ user \in [Workers -> Nat]
  BY DEF IInv, TypeOK
<1>1. CASE Arrive(w)
  BY <1>0, <1>1, IdentityAssumption DEF Arrive
<1>2. CASE CheckClaims(w)
  <2>1. token[w].sub # Blank => token[w] \in Token
    BY <1>0, TokenType DEF NoToken
  <2> QED BY <1>0, <1>2, <2>1 DEF CheckClaims, request
<1>3. ASSUME NEW u \in Holders(token[w]), Resolve(w, u),
             UNCHANGED <<users, minted, request>>, pc[w] \in {"lookup", "refresh", "again"}
      PROVE  Progress(w)' /\ OthersKept(w)
  <2>1. Served(w)'
    BY <1>0, <1>3 DEF Resolve, Served, Holders, request
  <2> QED BY <1>0, <1>3, <2>1 DEF Resolve, request
<1>4. CASE GetByIdentity(w)
  BY <1>0, <1>3, <1>4 DEF GetByIdentity, request
<1>5. CASE CreateForIdentity(w)
  <2>1. Holders(token[w])' # {}
    <3>1. CASE Holders(token[w]) = {}
      <4>1. users' = users \cup {Created(w)} /\ token' = token
        BY <1>5, <3>1 DEF CreateForIdentity, Created, request
      <4>2. Created(w).issuer = Trim[token[w].iss] /\ Created(w).subject = token[w].sub
        BY DEF Created
      <4> QED BY <4>1, <4>2 DEF Holders
    <3>2. CASE Holders(token[w]) # {}
      BY <1>5, <3>2 DEF CreateForIdentity, Holders, request
    <3> QED BY <3>1, <3>2
  <2>2. /\ \E label \in {"again", "refresh"} : pc' = [pc EXCEPT ![w] = label]
        /\ pc[w] = "insert" /\ ans' = ans /\ token' = token /\ user' = user
    BY <1>5 DEF CreateForIdentity, request
  <2> QED BY <1>0, <2>1, <2>2
<1>6. CASE RefreshCreated(w)
  BY <1>3, <1>6 DEF RefreshCreated
<1>7. CASE GetAgain(w)
  BY <1>0, <1>3, <1>7 DEF GetAgain
<1>8. CASE GetProfile(w)
  BY <1>0, <1>8 DEF GetProfile, Served, Holders, request
<1>9. CASE UpdateProfile(w)
  <2>1. /\ pc[w] = "endpoint" /\ pc' = [pc EXCEPT ![w] = "reload"]
        /\ ans' = ans /\ token' = token /\ user' = user
    BY <1>9 DEF UpdateProfile, request
  <2>2. Served(w)'
    BY <1>0, <2>1 DEF Served, Holders, RowsKept
  <2> QED BY <1>0, <2>1, <2>2
<1>10. CASE ReloadProfile(w)
  BY <1>0, <1>10 DEF ReloadProfile, Served, Holders, request
<1>11. CASE Close(w)
  BY <1>0, <1>11 DEF Close
<1> QED BY <1>1, <1>2, <1>4, <1>5, <1>6, <1>7, <1>8, <1>9, <1>10, <1>11 DEF Handle

LEMMA StepInv == IInv /\ [Next]_vars => IInv'
<1> SUFFICES ASSUME IInv, [Next]_vars PROVE IInv'
  OBVIOUS
<1>1. TypeOK' /\ KeysUnique' /\ RowsKept
  BY TypeStep, KeysStep
<1>2. ASSUME NEW x \in Workers PROVE Progress(x)'
  <2>1. CASE UNCHANGED vars
    BY <2>1 DEF vars, IInv, Progress, Served, Holders, Resolved
  <2>2. ASSUME NEW w \in Workers, Arrive(w) \/ Handle(w) PROVE Progress(x)'
    BY <1>1, <2>2, OwnProgress, OthersProgress
  <2> QED BY <2>1, <2>2 DEF Next
<1> QED BY <1>1, <1>2 DEF IInv

LEMMA InvHolds == Spec => []IInv
BY InitInv, StepInv, PTL DEF Spec

-----------------------------------------------------------------------------
\* Tables, claims, bodies, sessions and answers keep their types.
THEOREM IdentityTypeCorrect == Spec => []TypeOK
<1>1. IInv => TypeOK
  BY DEF IInv
<1> QED BY <1>1, InvHolds, PTL

\* A request is served as the one user that holds the identity in its token,
\* whichever of several first requests created the row
\* (user_repository.py:38-55).
THEOREM EverybodyIsServedAsHolder == Spec => []ServedAsHolder
<1>1. IInv => ServedAsHolder
  <2> SUFFICES ASSUME IInv, NEW w \in Workers, Serves(w)
               PROVE  \E u \in users :
                         /\ u.id = user[w]
                         /\ \A v \in users :
                              v.issuer = Trim[token[w].iss] /\ v.subject = token[w].sub
                                <=> v = u
    BY DEF ServedAsHolder
  <2>1. Served(w)
    BY DEF Serves, IInv, Progress, Resolved
  <2> QED BY <2>1 DEF Served, Holders, IInv, KeysUnique
<1> QED BY <1>1, InvHolds, PTL

\* Losing the race for the first row is never answered as an error
\* (user_repository.py:49-55).
THEOREM LostRacesAreResolved == Spec => []RaceIsResolved
<1>1. IInv => RaceIsResolved
  BY DEF IInv, Progress, RaceIsResolved
<1> QED BY <1>1, InvHolds, PTL

-----------------------------------------------------------------------------
\* What a step of worker w leaves of every row.
LEMMA RowsUntouched ==
    ASSUME TypeOK, NEW w \in Workers, Arrive(w) \/ Handle(w), NEW u \in users
    PROVE  Untouched(w, u)
<1>1. CASE u \in users'
  BY <1>1 DEF Untouched
<1>2. CASE UpdateProfile(w)
  <2>1. Written(w, u) \in users'
    BY <1>2, UpdateRows
  <2> QED BY <2>1, WrittenRow DEF Untouched
<1>3. users \subseteq users' \/ UpdateProfile(w)
  BY DEF Arrive, Handle, CheckClaims, GetByIdentity, CreateForIdentity,
     RefreshCreated, GetAgain, GetProfile, ReloadProfile, Close
<1> QED BY <1>1, <1>2, <1>3

\* No step changes of an existing user anything but the fields its own body
\* names, in its own row (user_repository.py:57-64).
THEOREM OnlyNamedFieldsChange == Spec => OnlyNamedFields
<1>1. IInv /\ [Next]_vars =>
        [\A w \in Workers : pc'[w] # pc[w] => \A u \in users : Untouched(w, u)]_vars
  <2> SUFFICES ASSUME IInv, [Next]_vars, ~UNCHANGED vars,
                      NEW w \in Workers, pc'[w] # pc[w], NEW u \in users
               PROVE  Untouched(w, u)
    OBVIOUS
  <2>1. PICK x \in Workers : Arrive(x) \/ Handle(x)
    BY DEF Next
  <2>2. x = w
    BY <2>1, KeysStep, OwnProgress DEF OthersKept
  <2> QED BY <2>1, <2>2, RowsUntouched DEF IInv
<1> QED BY <1>1, InvHolds, PTL DEF Spec, OnlyNamedFields
-----------------------------------------------------------------------------
(* The refinement of IdentityMap. *)

Has(u, i) == u.issuer = i.issuer /\ u.subject = i.subject

\* The accounts of a table S.
AccountIn(S) == [i \in Identities |->
    IF \E u \in S : Has(u, i) THEN (CHOOSE u \in S : Has(u, i)).id ELSE 0]

OneEach(S) == \A u, v \in S : u.issuer = v.issuer /\ u.subject = v.subject => u = v

Asked == [w \in Workers |-> IdentityOf(w)]

LEMMA AccountOf ==
    ASSUME NEW S, OneEach(S), NEW i \in Identities
    PROVE  /\ \A u \in S : Has(u, i) => AccountIn(S)[i] = u.id
           /\ (\A u \in S : ~Has(u, i)) => AccountIn(S)[i] = 0
<1>1. ASSUME NEW u \in S, Has(u, i) PROVE AccountIn(S)[i] = u.id
  <2>1. (CHOOSE v \in S : Has(v, i)) \in S /\ Has(CHOOSE v \in S : Has(v, i), i)
    BY <1>1
  <2>2. (CHOOSE v \in S : Has(v, i)) = u
    BY <1>1, <2>1 DEF OneEach, Has
  <2> QED BY <1>1, <2>2 DEF AccountIn
<1>2. ASSUME \A u \in S : ~Has(u, i) PROVE AccountIn(S)[i] = 0
  BY <1>2 DEF AccountIn
<1> QED BY <1>1, <1>2

\* An UPDATE leaves every identity its account.
LEMMA UpdateAccounts ==
    ASSUME IInv, KeysUnique', NEW w \in Workers, UpdateProfile(w)
    PROVE  AccountIn(users') = AccountIn(users)
<1>1. users' = {Written(w, u) : u \in users}
  BY UpdateRows
<1>2. \A u \in users : /\ Written(w, u).id = u.id
                       /\ Written(w, u).issuer = u.issuer
                       /\ Written(w, u).subject = u.subject
  BY WrittenRow DEF IInv
<1>3. OneEach(users) /\ OneEach(users')
  BY DEF OneEach, IInv, KeysUnique
<1>4. ASSUME NEW i \in Identities PROVE AccountIn(users')[i] = AccountIn(users)[i]
  <2>1. CASE \E u \in users : Has(u, i)
    <3>1. PICK u \in users : Has(u, i)
      BY <2>1
    <3>2. Written(w, u) \in users' /\ Has(Written(w, u), i) /\ Written(w, u).id = u.id
      BY <1>1, <1>2, <3>1 DEF Has
    <3> QED BY <1>3, <3>1, <3>2, AccountOf
  <2>2. CASE \A u \in users : ~Has(u, i)
    <3>1. \A v \in users' : ~Has(v, i)
      BY <1>1, <1>2, <2>2 DEF Has
    <3> QED BY <1>3, <2>2, <3>1, AccountOf
  <2> QED BY <2>1, <2>2
<1> QED BY <1>4 DEF AccountIn

\* An INSERT enrolls the identity of its token under the new id.
LEMMA InsertAccounts ==
    ASSUME IInv, KeysUnique', NEW w \in Workers, token[w] \in Token, token[w].sub # Blank,
           Holders(token[w]) = {}, users' = users \cup {Created(w)}
    PROVE  LET i == [issuer |-> Trim[token[w].iss], subject |-> token[w].sub]
           IN  /\ i \in Identities
               /\ AccountIn(users)[i] = 0
               /\ AccountIn(users') = [AccountIn(users) EXCEPT ![i] = minted + 1]
<1> DEFINE i == [issuer |-> Trim[token[w].iss], subject |-> token[w].sub]
<1>1. i \in Identities
  BY IdentityAssumption DEF Token, Identities
<1>2. OneEach(users) /\ OneEach(users')
  BY DEF OneEach, IInv, KeysUnique
<1>3. \A u \in users : ~Has(u, i)
  BY DEF Has, Holders
<1>4. Has(Created(w), i) /\ Created(w).id = minted + 1
  BY DEF Has, Created
<1>5. AccountIn(users)[i] = 0
  BY <1>1, <1>2, <1>3, AccountOf
<1>6. AccountIn(users')[i] = minted + 1
  BY <1>1, <1>2, <1>4, AccountOf
<1>7. ASSUME NEW j \in Identities, j # i PROVE AccountIn(users')[j] = AccountIn(users)[j]
  <2>1. ~Has(Created(w), j)
    BY <1>7 DEF Has, Created, Identities
  <2>2. CASE \E u \in users : Has(u, j)
    BY <1>2, <2>2, AccountOf
  <2>3. CASE \A u \in users : ~Has(u, j)
    <3>1. \A u \in users' : ~Has(u, j)
      BY <2>1, <2>3
    <3> QED BY <1>2, <2>3, <3>1, AccountOf
  <2> QED BY <2>2, <2>3
<1>8. AccountIn(users') = [AccountIn(users) EXCEPT ![i] = minted + 1]
  BY <1>1, <1>6, <1>7 DEF AccountIn
<1> QED BY <1>1, <1>5, <1>8

LEMMA MapInitHolds == Init => Map!MapInit
BY DEF Init, Map!MapInit, IdentityOf

MapStutter == UNCHANGED <<AccountIn(users), Asked, user>>

\* The steps of the map, in terms of AccountIn and Asked.
LEMMA MapSteps ==
    ASSUME NEW w \in Workers
    PROVE  /\ \A i \in Identities :
                /\ Asked[w] = Nobody /\ Asked' = [Asked EXCEPT ![w] = i]
                /\ users' = users /\ user' = user
                => Map!Ask(w, i)
           /\ \A id \in Nat \ {0} :
                /\ Asked[w] \in Identities /\ Asked[w] # Nobody
                /\ AccountIn(users)[Asked[w]] = 0
                /\ \A i \in Identities : AccountIn(users)[i] # id
                /\ AccountIn(users') = [AccountIn(users) EXCEPT ![Asked[w]] = id]
                /\ Asked' = Asked /\ user' = user
                => Map!Enroll(w)
           /\ /\ Asked[w] # Nobody /\ user[w] = 0 /\ AccountIn(users)[Asked[w]] # 0
              /\ user' = [user EXCEPT ![w] = AccountIn(users)[Asked[w]]]
              /\ users' = users /\ Asked' = Asked
              => Map!Tell(w)
           /\ /\ Asked[w] # Nobody /\ user[w] # 0
              /\ Asked' = [Asked EXCEPT ![w] = Nobody]
              /\ user' = [user EXCEPT ![w] = 0] /\ users' = users
              => Map!Leave(w)
<1>1. \A i \in Identities :
        /\ Asked[w] = Nobody /\ Asked' = [Asked EXCEPT ![w] = i]
        /\ users' = users /\ user' = user
        => Map!Ask(w, i)
  BY DEF Map!Ask, Asked
<1>2. ASSUME NEW id \in Nat \ {0},
             Asked[w] \in Identities, Asked[w] # Nobody,
             AccountIn(users)[Asked[w]] = 0,
             \A i \in Identities : AccountIn(users)[i] # id,
             AccountIn(users') = [AccountIn(users) EXCEPT ![Asked[w]] = id],
             Asked' = Asked, user' = user
      PROVE  Map!Enroll(w)
  <2>1. AccountIn(users')[Asked[w]] = id
    BY <1>2 DEF AccountIn
  <2> QED BY <1>2, <2>1 DEF Map!Enroll, AccountIn, Has, Asked
<1>3. /\ Asked[w] # Nobody /\ user[w] = 0 /\ AccountIn(users)[Asked[w]] # 0
      /\ user' = [user EXCEPT ![w] = AccountIn(users)[Asked[w]]]
      /\ users' = users /\ Asked' = Asked
      => Map!Tell(w)
  BY DEF Map!Tell, AccountIn, Has, Asked
<1>4. /\ Asked[w] # Nobody /\ user[w] # 0
      /\ Asked' = [Asked EXCEPT ![w] = Nobody]
      /\ user' = [user EXCEPT ![w] = 0] /\ users' = users
      => Map!Leave(w)
  BY DEF Map!Leave, Asked
<1> QED BY <1>1, <1>2, <1>3, <1>4

\* Whose account a request asks for changes when it arrives and when it ends.
LEMMA AskedStep ==
    ASSUME IInv, NEW w \in Workers, Arrive(w) \/ Handle(w), RowsKept
    PROVE  /\ Asked' = [Asked EXCEPT ![w] = IdentityOf(w)']
           /\ ~Arrive(w) /\ ~Close(w) => Asked' = Asked
<1>1. \A x \in Workers \ {w} : IdentityOf(x)' = IdentityOf(x)
  BY OwnProgress DEF OthersKept, IdentityOf
<1>2. Asked' = [Asked EXCEPT ![w] = IdentityOf(w)']
  BY <1>1 DEF Asked
<1>3. ASSUME ~Arrive(w), ~Close(w) PROVE IdentityOf(w)' = IdentityOf(w)
  <2>1. token'[w] = token[w] /\ pc[w] # "idle" /\ pc'[w] # "idle"
    BY <1>3 DEF Handle, CheckClaims, GetByIdentity, CreateForIdentity, RefreshCreated,
       GetAgain, GetProfile, UpdateProfile, ReloadProfile, Resolve, Goto, Answer,
       request, IInv, TypeOK
  <2> QED BY <2>1 DEF IdentityOf
<1> QED BY <1>1, <1>2, <1>3 DEF Asked

LEMMA AskedIdentity ==
    ASSUME TypeOK, NEW w \in Workers, pc[w] # "idle", token[w] \in Token,
           token[w].sub # Blank
    PROVE  /\ Asked[w] = [issuer |-> Trim[token[w].iss], subject |-> token[w].sub]
           /\ Asked[w] \in Identities /\ Asked[w] # Nobody
BY IdentityAssumption DEF Asked, IdentityOf, Identities, Nobody, Token

LEMMA MapStep == IInv /\ [Next]_vars => [Map!MapNext]_(Map!mapVars)
<1> SUFFICES ASSUME IInv, [Next]_vars PROVE Map!MapNext \/ MapStutter
  BY DEF Map!mapVars, MapStutter, AccountIn, Has, Asked
<1>0. TypeOK /\ KeysUnique /\ OneEach(users) /\ KeysUnique' /\ RowsKept
  BY KeysStep DEF IInv, KeysUnique, OneEach
<1>1. ASSUME NEW w \in Workers, Arrive(w) PROVE Map!MapNext \/ MapStutter
  <2>1. /\ users' = users /\ user' = user /\ IdentityOf(w) = Nobody
        /\ pc'[w] = "claims" /\ token'[w] \in Tokens
    BY <1>0, <1>1 DEF Arrive, Goto, IdentityOf, TypeOK
  <2>2. Asked[w] = Nobody /\ Asked' = [Asked EXCEPT ![w] = IdentityOf(w)']
    BY <1>0, <1>1, <2>1, AskedStep DEF Asked
  <2>3. CASE token'[w].sub = Blank
    <3>1. IdentityOf(w)' = Nobody
      BY <2>3 DEF IdentityOf
    <3>2. Asked' = Asked
      BY <2>2, <3>1 DEF Asked
    <3> QED BY <2>1, <3>2 DEF MapStutter
  <2>4. CASE token'[w].sub # Blank
    <3>1. IdentityOf(w)' \in Identities
      BY <2>1, <2>4, IdentityAssumption DEF IdentityOf, Identities, Token
    <3>2. Map!Ask(w, IdentityOf(w)')
      BY <2>1, <2>2, <3>1, MapSteps
    <3> QED BY <3>1, <3>2 DEF Map!MapNext
  <2> QED BY <2>3, <2>4
<1>2. ASSUME NEW w \in Workers, Close(w) PROVE Map!MapNext \/ MapStutter
  <2>1. /\ users' = users /\ user' = [user EXCEPT ![w] = 0] /\ pc[w] = "answered"
        /\ IdentityOf(w)' = Nobody
    BY <1>0, <1>2 DEF Close, IdentityOf, TypeOK
  <2>2. Asked' = [Asked EXCEPT ![w] = Nobody]
    BY <1>0, <1>2, <2>1, AskedStep DEF Handle
  <2>3. CASE token[w].sub = Blank
    <3>1. user[w] = 0 /\ IdentityOf(w) = Nobody
      BY <2>1, <2>3 DEF IInv, Progress, IdentityOf
    <3>2. user' = user
      BY <1>0, <2>1, <3>1 DEF TypeOK
    <3>3. Asked = [Asked EXCEPT ![w] = Nobody]
      BY <3>1 DEF Asked
    <3> QED BY <2>1, <2>2, <3>2, <3>3 DEF MapStutter
  <2>4. CASE token[w].sub # Blank
    <3>1. ans[w] = 200
      BY <2>1, <2>4 DEF IInv, Progress
    <3>2. user[w] # 0 /\ token[w] \in Token \cup {NoToken}
      <4>1. Served(w)
        BY <3>1 DEF IInv, Progress
      <4>2. \A u \in users : u.id # 0
        BY <1>0 DEF TypeOK, User
      <4> QED BY <1>0, <4>1, <4>2, TokenType DEF Served
    <3>3. Asked[w] # Nobody
      <4>1. token[w] \in Token
        BY <2>4, <3>2 DEF NoToken
      <4> QED BY <1>0, <2>1, <2>4, <4>1, AskedIdentity
    <3>4. Map!Leave(w)
      BY <2>1, <2>2, <3>2, <3>3, MapSteps
    <3> QED BY <3>4 DEF Map!MapNext
  <2> QED BY <2>3, <2>4
<1>3. ASSUME NEW w \in Workers, NEW u \in Holders(token[w]), Resolve(w, u),
             UNCHANGED <<users, minted, request>>, Handle(w), ~Close(w), ~Arrive(w),
             pc[w] \in {"lookup", "refresh", "again"}
      PROVE  Map!MapNext
  <2>1. user[w] = 0 /\ token[w] \in Token /\ token[w].sub # Blank
    BY <1>3 DEF IInv, Progress, Resolved
  <2>2. /\ Asked[w] = [issuer |-> Trim[token[w].iss], subject |-> token[w].sub]
        /\ Asked[w] \in Identities /\ Asked[w] # Nobody
    BY <1>0, <1>3, <2>1, AskedIdentity
  <2>3. u \in users /\ Has(u, Asked[w])
    BY <2>2 DEF Holders, Has
  <2>4. AccountIn(users)[Asked[w]] = u.id
    BY <1>0, <2>2, <2>3, AccountOf
  <2>5. u.id # 0
    BY <1>0, <2>3 DEF TypeOK, User
  <2>6. Asked' = Asked
    BY <1>0, <1>3, AskedStep
  <2>7. user' = [user EXCEPT ![w] = u.id] /\ users' = users
    BY <1>3 DEF Resolve
  <2>8. Map!Tell(w)
    BY <2>1, <2>2, <2>4, <2>5, <2>6, <2>7, MapSteps
  <2> QED BY <2>8 DEF Map!MapNext
<1>4. ASSUME NEW w \in Workers, Handle(w), ~Close(w), ~Arrive(w),
             users' = users, user' = user
      PROVE  MapStutter
  BY <1>0, <1>4, AskedStep DEF MapStutter
<1>5. ASSUME NEW w \in Workers, CreateForIdentity(w), Holders(token[w]) = {}
      PROVE  Map!MapNext
  <2>1. users' = users \cup {Created(w)} /\ user' = user /\ pc[w] = "insert"
    BY <1>5 DEF CreateForIdentity, Created
  <2>2. token[w] \in Token /\ token[w].sub # Blank
    BY <2>1 DEF IInv, Progress
  <2>3. /\ Asked[w] = [issuer |-> Trim[token[w].iss], subject |-> token[w].sub]
        /\ Asked[w] \in Identities /\ Asked[w] # Nobody
    BY <1>0, <2>1, <2>2, AskedIdentity
  <2>4. /\ AccountIn(users)[Asked[w]] = 0
        /\ AccountIn(users') = [AccountIn(users) EXCEPT ![Asked[w]] = minted + 1]
    BY <1>0, <1>5, <2>1, <2>2, <2>3, InsertAccounts
  <2>5. minted + 1 \in Nat \ {0}
    BY <1>0 DEF TypeOK
  <2>6. ASSUME NEW i \in Identities PROVE AccountIn(users)[i] # minted + 1
    <3>1. \A u \in users : u.id # minted + 1
      BY <1>0 DEF KeysUnique, TypeOK, User
    <3>2. 0 # minted + 1
      BY <2>5
    <3> QED BY <1>0, <3>1, <3>2, AccountOf
  <2>7. Asked' = Asked
    <3>1. ~Arrive(w) /\ ~Close(w) /\ Handle(w)
      BY <1>5, <2>1 DEF Arrive, Close, Handle
    <3> QED BY <1>0, <3>1, AskedStep
  <2>8. Map!Enroll(w)
    BY <2>1, <2>3, <2>4, <2>5, <2>6, <2>7, MapSteps
  <2> QED BY <2>8 DEF Map!MapNext
<1>6. ASSUME NEW w \in Workers, UpdateProfile(w) PROVE MapStutter
  <2>1. user' = user /\ ~Arrive(w) /\ ~Close(w) /\ Handle(w)
    BY <1>6 DEF UpdateProfile, Arrive, Close, Handle
  <2>2. Asked' = Asked
    BY <1>0, <2>1, AskedStep
  <2>3. AccountIn(users') = AccountIn(users)
    BY <1>0, <1>6, UpdateAccounts
  <2> QED BY <2>1, <2>2, <2>3 DEF MapStutter
<1>7. ASSUME NEW w \in Workers, Handle(w), ~Close(w), ~UpdateProfile(w),
             ~(CreateForIdentity(w) /\ Holders(token[w]) = {})
      PROVE  Map!MapNext \/ MapStutter
  <2>1. ~Arrive(w)
    BY <1>7 DEF Handle, Arrive, CheckClaims, GetByIdentity, CreateForIdentity,
       RefreshCreated, GetAgain, GetProfile, ReloadProfile
  <2>2. \/ users' = users /\ user' = user
        \/ /\ UNCHANGED <<users, minted, request>>
           /\ pc[w] \in {"lookup", "refresh", "again"}
           /\ \E u \in Holders(token[w]) : Resolve(w, u)
    BY <1>7 DEF Handle, CheckClaims, GetByIdentity, CreateForIdentity,
       RefreshCreated, GetAgain, GetProfile, ReloadProfile
  <2> QED BY <1>3, <1>4, <1>7, <2>1, <2>2
<1>8. CASE UNCHANGED vars
  BY <1>8 DEF vars, MapStutter, Asked, IdentityOf
<1> QED BY <1>1, <1>2, <1>5, <1>6, <1>7, <1>8 DEF Next

\* Authentication implements the write-once map from identities to accounts.
THEOREM AuthenticationImplementsMap == Spec => ImplementsMap
BY InvHolds, MapInitHolds, MapStep, PTL DEF Spec, ImplementsMap, Map!MapSpec
=============================================================================
