----------------------------- MODULE JwksProofs -----------------------------
(***************************************************************************)
(* What holds of JwksCache for every number of requests, keys and tokens   *)
(* and every TTL and timeout: no cached key outlives its withdrawal by     *)
(* more than the TTL, and nobody is admitted with one that does.           *)
(***************************************************************************)
EXTENDS JwksCache, TLAPS

\* A key set on its way was published after its GET was sent, and so was
\* withdrawn no longer ago than the request has waited for it; that is no
\* longer than the time since `now` was read, which the expiry counts from.
Arriving ==
    /\ published \cap withdrawn = {}
    /\ \A t \in Tasks :
         /\ waited[t] <= age[t]
         /\ got[t] # None =>
              \A k \in got[t] \cap withdrawn : gone[k] <= waited[t]

IInv == TypeOK /\ Arriving /\ CachedKeysRecent

LEMMA InitIInv == Init => IInv
BY JwksAssumption DEF Init, IInv, TypeOK, Arriving, CachedKeysRecent, Fetching, Token

\* The provider's part of the state and the clocks of the keys are left alone
\* by a request, and the other way round.
LEMMA TypeStep == TypeOK /\ [Next]_vars => TypeOK'
<1> SUFFICES ASSUME TypeOK, [Next]_vars PROVE TypeOK'
  OBVIOUS
<1> USE JwksAssumption DEF TypeOK, Fetching, provider, cache, request
<1>1. ASSUME NEW t \in Tasks, Unauthenticated(t) PROVE TypeOK'
  BY <1>1 DEF Unauthenticated, Answer
<1>2. ASSUME NEW t \in Tasks, NEW tok \in Tokens, UseCached(t, tok) PROVE TypeOK'
  BY <1>2 DEF UseCached, Answer, Verdict
<1>3. ASSUME NEW t \in Tasks, NEW tok \in Tokens, BeginFetch(t, tok) PROVE TypeOK'
  BY <1>3 DEF BeginFetch
<1>4. ASSUME NEW t \in Tasks, Discovered(t) PROVE TypeOK'
  BY <1>4 DEF Discovered
<1>5. ASSUME NEW t \in Tasks, Fetched(t) PROVE TypeOK'
  <2>1. life' \in 0..TTL
    BY <1>5 DEF Fetched
  <2> QED BY <1>5, <2>1 DEF Fetched, Answer, Verdict
<1>6. ASSUME NEW t \in Tasks, GiveUp(t) PROVE TypeOK'
  BY <1>6 DEF GiveUp, Answer
<1>7. ASSUME NEW t \in Tasks, Close(t) PROVE TypeOK'
  BY <1>7 DEF Close
<1>8. ASSUME NEW t \in Tasks, Respond(t) \/ Garble(t) PROVE TypeOK'
  BY <1>8 DEF Respond, Garble
<1>9. ASSUME NEW k \in Keys, Publish(k) \/ Withdraw(k) PROVE TypeOK'
  BY <1>9 DEF Publish, Withdraw
<1>10. ASSUME NEW tok \in Tokens, Lapse(tok) PROVE TypeOK'
  BY <1>10 DEF Lapse
<1>11. CASE Tick
  <2>1. \A n \in 0..TTL : Older(n) \in 0..TTL
    BY DEF Older
  <2>2. waited' \in [Tasks -> 0..Timeout]
    BY <1>11 DEF Tick
  <2>3. age' \in [Tasks -> 0..TTL] /\ gone' \in [Keys -> 0..TTL] /\ life' \in 0..TTL
    BY <1>11, <2>1 DEF Tick
  <2> QED BY <1>11, <2>2, <2>3 DEF Tick
<1>12. CASE UNCHANGED vars
  BY <1>12 DEF vars
<1> QED BY <1>1, <1>2, <1>3, <1>4, <1>5, <1>6, <1>7, <1>8, <1>9, <1>10, <1>11, <1>12
        DEF Next, Handle, Environment

LEMMA RecentStep == IInv /\ [Next]_vars => (Arriving /\ CachedKeysRecent)'
<1> SUFFICES ASSUME IInv, [Next]_vars PROVE (Arriving /\ CachedKeysRecent)'
  OBVIOUS
<1> USE JwksAssumption DEF IInv, TypeOK, Arriving, CachedKeysRecent,
        Fetching, provider, cache, request
<1>1. ASSUME NEW t \in Tasks, Unauthenticated(t) PROVE (Arriving /\ CachedKeysRecent)'
  BY <1>1 DEF Unauthenticated, Answer
<1>2. ASSUME NEW t \in Tasks, NEW tok \in Tokens, UseCached(t, tok)
      PROVE (Arriving /\ CachedKeysRecent)'
  BY <1>2 DEF UseCached, Answer
<1>3. ASSUME NEW t \in Tasks, NEW tok \in Tokens, BeginFetch(t, tok)
      PROVE (Arriving /\ CachedKeysRecent)'
  BY <1>3 DEF BeginFetch
<1>4. ASSUME NEW t \in Tasks, Discovered(t) PROVE (Arriving /\ CachedKeysRecent)'
  <2>1. got[t] = None
    BY <1>4 DEF Discovered
  <2> QED BY <1>4, <2>1 DEF Discovered
<1>5. ASSUME NEW t \in Tasks, Fetched(t) PROVE (Arriving /\ CachedKeysRecent)'
  <2>1. Arriving'
    BY <1>5 DEF Fetched, Answer
  <2>2. \A k \in got[t] \cap withdrawn : gone[k] <= age[t]
    BY <1>5 DEF Fetched
  <2>3. CachedKeysRecent'
    BY <1>5, <2>2 DEF Fetched
  <2> QED BY <2>1, <2>3
<1>6. ASSUME NEW t \in Tasks, GiveUp(t) PROVE (Arriving /\ CachedKeysRecent)'
  BY <1>6 DEF GiveUp, Answer
<1>7. ASSUME NEW t \in Tasks, Close(t) PROVE (Arriving /\ CachedKeysRecent)'
  BY <1>7 DEF Close
<1>8. ASSUME NEW t \in Tasks, Respond(t) \/ Garble(t) PROVE (Arriving /\ CachedKeysRecent)'
  BY <1>8 DEF Respond, Garble
<1>9. ASSUME NEW k \in Keys, Publish(k) PROVE (Arriving /\ CachedKeysRecent)'
  BY <1>9 DEF Publish
<1>10. ASSUME NEW k \in Keys, Withdraw(k) PROVE (Arriving /\ CachedKeysRecent)'
  BY <1>10 DEF Withdraw
<1>11. ASSUME NEW tok \in Tokens, Lapse(tok) PROVE (Arriving /\ CachedKeysRecent)'
  BY <1>11 DEF Lapse
<1>12. CASE Tick
  <2>1. \A m, n \in 0..TTL : m <= n => Older(m) <= Older(n)
    BY DEF Older
  <2>2. \A n \in 0..TTL : Older(n) <= n + 1 /\ Older(n) \in 0..TTL
    BY DEF Older
  <2>3. \A t \in Tasks : waited'[t] <= age'[t]
    BY <1>12 DEF Tick, Older
  <2>4. ASSUME NEW t \in Tasks, got'[t] # None, NEW k \in got'[t] \cap withdrawn'
        PROVE gone'[k] <= waited'[t]
    BY <1>12, <2>2, <2>4 DEF Tick
  <2>5. CachedKeysRecent'
    BY <1>12, <2>2 DEF Tick
  <2> QED BY <1>12, <2>3, <2>4, <2>5 DEF Tick
<1>13. CASE UNCHANGED vars
  BY <1>13 DEF vars
<1> QED BY <1>1, <1>2, <1>3, <1>4, <1>5, <1>6, <1>7, <1>8, <1>9, <1>10, <1>11, <1>12, <1>13
        DEF Next, Handle, Environment

LEMMA StepIInv == IInv /\ [Next]_vars => IInv'
BY TypeStep, RecentStep DEF IInv

\* Every variable keeps its type: the clocks stay within the TTL and the
\* timeout, and a key set is only on its way to a request that awaits one.
THEOREM JwksTypeCorrect == Spec => []TypeOK
<1>1. IInv => TypeOK
  BY DEF IInv
<1> QED BY InitIInv, StepIInv, <1>1, PTL DEF Spec

\* However slow the fetches are and in whatever order they end
\* (get_jwks_keys), a cached key is withdrawn for less than the TTL.
THEOREM CachedKeysAreRecent == Spec => []CachedKeysRecent
<1>1. IInv => CachedKeysRecent
  BY DEF IInv
<1> QED BY InitIInv, StepIInv, <1>1, PTL DEF Spec

\* A step that admits a request is UseCached or Fetched; the first uses keys
\* the cache vouches for, the second keys that were on their way for less
\* than a timeout.
LEMMA AdmitStep ==
    IInv /\ [Next]_vars =>
        [\A t \in Tasks :
           (ans[t] = 0 /\ ans'[t] = 200) =>
               /\ token'[t].key \in withdrawn => gone[token'[t].key] < TTL
               /\ token'[t] \notin lapsed]_vars
<1> SUFFICES ASSUME IInv, [Next]_vars,
                    NEW u \in Tasks, ans[u] = 0, ans'[u] = 200
             PROVE  /\ token'[u].key \in withdrawn => gone[token'[u].key] < TTL
                    /\ token'[u] \notin lapsed
  OBVIOUS
<1> USE JwksAssumption DEF IInv, TypeOK, Arriving, CachedKeysRecent,
        Fetching, provider, cache, request
<1>1. ASSUME NEW t \in Tasks, Unauthenticated(t) \/ GiveUp(t) \/ Discovered(t) \/ Close(t)
      PROVE FALSE
  BY <1>1 DEF Unauthenticated, GiveUp, Discovered, Close, Answer
<1>2. ASSUME NEW t \in Tasks, NEW tok \in Tokens, BeginFetch(t, tok) PROVE FALSE
  BY <1>2 DEF BeginFetch
<1>3. ASSUME NEW t \in Tasks, NEW tok \in Tokens, UseCached(t, tok)
      PROVE /\ token'[u].key \in withdrawn => gone[token'[u].key] < TTL
            /\ token'[u] \notin lapsed
  <2>1. u = t /\ Valid(tok, keys) /\ token'[t] = tok
    BY <1>3 DEF UseCached, Answer, Verdict
  <2>2. keys # None /\ life > 0
    BY <1>3 DEF UseCached, Cached
  <2> QED BY <2>1, <2>2 DEF Valid
<1>4. ASSUME NEW t \in Tasks, Fetched(t)
      PROVE /\ token'[u].key \in withdrawn => gone[token'[u].key] < TTL
            /\ token'[u] \notin lapsed
  <2>1. u = t /\ Valid(token[t], got[t]) /\ token' = token /\ got[t] # None
    BY <1>4 DEF Fetched, Answer, Verdict
  <2>2. \A k \in got[t] \cap withdrawn : gone[k] < TTL
    BY <2>1
  <2> QED BY <2>1, <2>2 DEF Valid
<1>5. ASSUME Environment \/ UNCHANGED vars PROVE FALSE
  BY <1>5 DEF Environment, Respond, Garble, Publish, Withdraw, Lapse, Tick, vars
<1> QED BY <1>1, <1>2, <1>3, <1>4, <1>5 DEF Next, Handle

\* Nobody is admitted with a key withdrawn a TTL ago or longer, nor with an
\* expired token (validate_token).
THEOREM WithdrawnKeysAreRefused == Spec => WithdrawnKeyRefused
BY InitIInv, StepIInv, AdmitStep, PTL DEF Spec, WithdrawnKeyRefused
=============================================================================
