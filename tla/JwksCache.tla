------------------------------ MODULE JwksCache ------------------------------
(***************************************************************************)
(* Token validation against the provider's signing keys (src/src/auth.py), *)
(* for the requests one process handles at the same time.                  *)
(*                                                                         *)
(* get_jwks_keys gives up the event loop twice, while it awaits the        *)
(* discovery document and while it awaits the key set; everything between  *)
(* two awaits is one step.  The cache is process-wide and the fetches are  *)
(* not serialised: every request that finds the cache expired starts one.  *)
(*                                                                         *)
(* Time is relative: `life` is how long the cache is still valid,          *)
(* _jwks_expiry minus now or 0; `age[t]` how long ago request t read       *)
(* `now`; `waited[t]` how long it has waited for the current GET.  The     *)
(* code compares and subtracts instants, so no other part of them counts.  *)
(***************************************************************************)
EXTENDS Integers

CONSTANTS
    Tasks,      \* slots for requests handled concurrently
    Keys,       \* signing keys of the provider
    InitialKeys,\* those it publishes at first
    Tokens,     \* tokens presented: [key, sound, expires]
    None,       \* no token, no key set, no key that verifies a signature
    TTL,        \* JWKS_CACHE_TTL_SECONDS
    Timeout     \* the timeout of either GET

\* A token names the key its signature verifies with, whether issuer and
\* audience are the configured ones, and whether it has a non-zero `exp` claim.
Token == [key : Keys \cup {None}, sound : BOOLEAN, expires : BOOLEAN]

ASSUME JwksAssumption ==
    /\ None \notin Keys
    /\ None \notin Tokens
    /\ InitialKeys \subseteq Keys
    /\ Tokens \subseteq Token
    /\ Timeout \in Nat \ {0}
    /\ TTL \in Nat
    /\ Timeout < TTL

VARIABLES
    published,  \* keys the provider's JWKS endpoint serves
    withdrawn,  \* keys it has served and serves no more
    gone,       \* key |-> time since it was withdrawn, at most TTL
    lapsed,     \* tokens whose `exp` has passed
    keys,       \* _jwks_keys: a set of keys, None before the first fetch
    life,       \* time left until _jwks_expiry
    pc,         \* request |-> what it awaits
    token,      \* request |-> the bearer token
    age,        \* request |-> time since it read `now`, at most TTL
    waited,     \* request |-> time since it sent the GET it awaits
    got,        \* request |-> the key set on its way to it
    ans         \* request |-> status code, 0 while there is none

provider == <<published, withdrawn, lapsed>>
cache == <<keys, life>>
request == <<pc, token, age, waited, got, ans>>
vars == <<provider, gone, cache, request>>

Fetching(t) == pc[t] \in {"discovery", "jwks"}

TypeOK ==
    /\ published \subseteq Keys /\ withdrawn \subseteq Keys
    /\ gone \in [Keys -> 0..TTL]
    /\ lapsed \subseteq Tokens
    /\ keys # None => keys \subseteq Keys
    /\ life \in 0..TTL
    /\ pc \in [Tasks -> {"idle", "discovery", "jwks", "answered"}]
    /\ token \in [Tasks -> Tokens \cup {None}]
    /\ age \in [Tasks -> 0..TTL]
    /\ waited \in [Tasks -> 0..Timeout]
    /\ ans \in [Tasks -> {0, 200, 401}]
    /\ DOMAIN got = Tasks
    /\ \A t \in Tasks : /\ got[t] # None => got[t] \subseteq Keys /\ pc[t] = "jwks"
                        /\ Fetching(t) => token[t] # None

Init ==
    /\ published = InitialKeys
    /\ withdrawn = {} /\ lapsed = {}
    /\ gone = [k \in Keys |-> 0]
    /\ keys = None /\ life = 0
    /\ pc = [t \in Tasks |-> "idle"]
    /\ token = [t \in Tasks |-> None]
    /\ age = [t \in Tasks |-> 0]
    /\ waited = [t \in Tasks |-> 0]
    /\ got = [t \in Tasks |-> None]
    /\ ans = [t \in Tasks |-> 0]

-----------------------------------------------------------------------------
(* validate_token, after the keys are there.  The expiry is compared with  *)
(* a fresh `now`, and an `exp` that is absent or zero is no expiry at all. *)

Valid(tok, keyset) ==
    /\ tok.key \in keyset
    /\ tok.sound
    /\ tok \notin lapsed

Verdict(tok, keyset) == IF Valid(tok, keyset) THEN 200 ELSE 401

\* Mutant of Answer: what a failed fetch still receives is not dropped.
AnswerKeepingKeys(t, status) ==
    /\ pc' = [pc EXCEPT ![t] = "answered"]
    /\ ans' = [ans EXCEPT ![t] = status]
    /\ got' = got
    /\ age' = [age EXCEPT ![t] = 0]
    /\ waited' = [waited EXCEPT ![t] = 0]

\* The request is answered and leaves nothing behind.
Answer(t, status) ==
    /\ pc' = [pc EXCEPT ![t] = "answered"]
    /\ ans' = [ans EXCEPT ![t] = status]
    /\ got' = [got EXCEPT ![t] = None]
    /\ age' = [age EXCEPT ![t] = 0]
    /\ waited' = [waited EXCEPT ![t] = 0]

\* No bearer token in the request.
Unauthenticated(t) ==
    /\ pc[t] = "idle"
    /\ Answer(t, 401)
    /\ UNCHANGED <<provider, gone, cache, token>>

\* Mutant of Cached: the expiry is not compared.
CachedForEver == keys # None

Cached == keys # None /\ life > 0

\* The cache is valid: no await between its check and the verdict.
UseCached(t, tok) ==
    /\ pc[t] = "idle"
    /\ Cached
    /\ token' = [token EXCEPT ![t] = tok]
    /\ Answer(t, Verdict(tok, keys))
    /\ UNCHANGED <<provider, gone, cache>>

\* There is no valid cache: `now` was read, the first GET is sent.
BeginFetch(t, tok) ==
    /\ pc[t] = "idle"
    /\ ~Cached
    /\ token' = [token EXCEPT ![t] = tok]
    /\ pc' = [pc EXCEPT ![t] = "discovery"]
    /\ UNCHANGED <<provider, gone, cache, age, waited, got, ans>>

\* The discovery document names a jwks_uri: the second GET is sent.
Discovered(t) ==
    /\ pc[t] = "discovery"
    /\ pc' = [pc EXCEPT ![t] = "jwks"]
    /\ waited' = [waited EXCEPT ![t] = 0]
    /\ UNCHANGED <<provider, gone, cache, token, age, got, ans>>

\* Mutant of Fetched: the expiry counts from the end of the fetch.
FetchedFromNow(t) ==
    /\ got[t] # None
    /\ keys' = got[t]
    /\ life' = TTL
    /\ Answer(t, Verdict(token[t], got[t]))
    /\ UNCHANGED <<provider, gone, token>>

\* Mutant of Fetched: the first key set is kept for good.
FetchedOnce(t) ==
    /\ got[t] # None
    /\ keys' = IF keys = None THEN got[t] ELSE keys
    /\ life' = TTL - age[t]
    /\ Answer(t, Verdict(token[t], keys'))
    /\ UNCHANGED <<provider, gone, token>>

\* The key set arrives: it becomes the cache, valid for TTL from the `now`
\* read before both GETs, and decides about this request.
Fetched(t) ==
    /\ got[t] # None
    /\ keys' = got[t]
    /\ life' = TTL - age[t]
    /\ Answer(t, Verdict(token[t], got[t]))
    /\ UNCHANGED <<provider, gone, token>>

\* Mutant of GiveUp: the second GET has no timeout.
GiveUpDiscovery(t) ==
    /\ pc[t] = "discovery"
    /\ Answer(t, 401)
    /\ UNCHANGED <<provider, gone, cache, token>>

\* A GET fails or times out, or the discovery document names no jwks_uri.
\* Every exception leaves validate_token as a ValueError, which is a 401.
GiveUp(t) ==
    /\ Fetching(t)
    /\ Answer(t, 401)
    /\ UNCHANGED <<provider, gone, cache, token>>

\* The answer has been sent.
Close(t) ==
    /\ pc[t] = "answered"
    /\ pc' = [pc EXCEPT ![t] = "idle"]
    /\ token' = [token EXCEPT ![t] = None]
    /\ ans' = [ans EXCEPT ![t] = 0]
    /\ UNCHANGED <<provider, gone, cache, age, waited, got>>

-----------------------------------------------------------------------------
(* The provider and the clock. *)

\* The JWKS endpoint answers request t; the answer is then under way.
Respond(t) ==
    /\ pc[t] = "jwks"
    /\ got[t] = None
    /\ got' = [got EXCEPT ![t] = published]
    /\ UNCHANGED <<provider, gone, cache, pc, token, age, waited, ans>>

\* It answers 200 with JSON that names no usable key; nothing looks into the
\* body before it is cached (auth.py:66-70).
Garble(t) ==
    /\ pc[t] = "jwks"
    /\ got[t] = None
    /\ got' = [got EXCEPT ![t] = {}]
    /\ UNCHANGED <<provider, gone, cache, pc, token, age, waited, ans>>

Publish(k) ==
    /\ k \notin published \cup withdrawn
    /\ published' = published \cup {k}
    /\ UNCHANGED <<withdrawn, gone, lapsed, cache, request>>

Withdraw(k) ==
    /\ k \in published
    /\ published' = published \ {k}
    /\ withdrawn' = withdrawn \cup {k}
    /\ gone' = [gone EXCEPT ![k] = 0]
    /\ UNCHANGED <<lapsed, cache, request>>

Lapse(tok) ==
    /\ tok.expires
    /\ tok \notin lapsed
    /\ lapsed' = lapsed \cup {tok}
    /\ UNCHANGED <<published, withdrawn, gone, cache, request>>

Older(n) == IF n < TTL THEN n + 1 ELSE TTL

\* A GET that has used up its timeout ends before the clock moves on.
Tick ==
    /\ \A t \in Tasks : Fetching(t) => waited[t] < Timeout
    /\ life' = IF life > 0 THEN life - 1 ELSE 0
    /\ gone' = [k \in Keys |-> IF k \in withdrawn THEN Older(gone[k]) ELSE 0]
    /\ age' = [t \in Tasks |-> IF Fetching(t) THEN Older(age[t]) ELSE 0]
    /\ waited' = [t \in Tasks |-> IF Fetching(t) THEN waited[t] + 1 ELSE 0]
    /\ UNCHANGED <<provider, keys, pc, token, got, ans>>

-----------------------------------------------------------------------------
Handle(t) ==
    \/ Unauthenticated(t)
    \/ \E tok \in Tokens : UseCached(t, tok) \/ BeginFetch(t, tok)
    \/ Discovered(t) \/ Fetched(t) \/ GiveUp(t) \/ Close(t)

Environment ==
    \/ \E t \in Tasks : Respond(t) \/ Garble(t)
    \/ \E k \in Keys : Publish(k) \/ Withdraw(k)
    \/ \E tok \in Tokens : Lapse(tok)
    \/ Tick

Next == (\E t \in Tasks : Handle(t)) \/ Environment

Spec == Init /\ [][Next]_vars

\* A GET ends, by its timeout if not otherwise, and the loop resumes whom it
\* awaited; time passes.  Nothing is assumed of clients and of the provider.
Progress(t) == Discovered(t) \/ Fetched(t) \/ GiveUp(t)

FairSpec ==
    /\ Spec
    /\ \A t \in Tasks : WF_vars(Progress(t)) /\ WF_vars(Close(t))
    /\ WF_vars(Tick)

-----------------------------------------------------------------------------
(* Properties *)

\* The cache never outlives what it was made from: a key that was withdrawn
\* g ago is cached for at most TTL - g more, however slow the fetch was that
\* wrote it and in whatever order fetches ended.  (The expiry counts from
\* before the fetch, auth.py:36 and 70.)
CachedKeysRecent ==
    keys # None =>
        \A k \in keys \cap withdrawn : life > 0 => gone[k] + life <= TTL

\* Nobody is admitted with a key that was withdrawn a TTL ago or longer, nor
\* with an expired token, whether the cache or a fetch of the request's own
\* decided (auth.py:39, 72 and 129).
WithdrawnKeyRefused ==
    [][\A t \in Tasks :
         (ans[t] = 0 /\ ans'[t] = 200) =>
             /\ token'[t].key \in withdrawn => gone[token'[t].key] < TTL
             /\ token'[t] \notin lapsed]_vars

\* Every request is answered, although the provider may never answer: both
\* GETs have a timeout (auth.py:54 and 65).
Answered == \A t \in Tasks : Fetching(t) ~> pc[t] = "idle"

\* Key rotation: once a key stays published and fetches no longer fail or
\* bring garbage, its
\* tokens are in the end never refused again, whatever the cache and fetches
\* under way held before.
RotatedKeyAdmitted ==
    \A tok \in {u \in Tokens : u.key \in Keys /\ u.sound /\ ~u.expires} :
        /\ <>[](tok.key \in published)
        /\ <>[][\A t \in Tasks : ~GiveUp(t) /\ ~Garble(t)]_vars
        => <>[](\A t \in Tasks : token[t] = tok => ans[t] # 401)
=============================================================================
