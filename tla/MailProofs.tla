----------------------------- MODULE MailProofs -----------------------------
(***************************************************************************)
(* What holds of MailProxy for every number of mails, attempts and ticks:  *)
(* it implements Relay, and so an application is only told of a success    *)
(* when the provider took the mail.                                        *)
(***************************************************************************)
EXTENDS MailProxy, TLAPS

\* Who is about to be told of a success has been taken; what is not posted
\* yet, or is under way, has not.
Accounted ==
    \A a \in Attempts :
        /\ job[a] \in {"taken", "accepted"} => a \in taken
        /\ job[a] \in {"none", "received", "posting"} => a \notin taken

IInv == TypeOK /\ Accounted

Told == [a \in Attempts |-> IF job[a] \in {"accepted", "refused"}
                            THEN job[a] ELSE "nothing"]

LEMMA InitIInv == Init => IInv
BY MailAssumption DEF Init, IInv, TypeOK, Accounted, Attempts, Running, Live

\* What a callback does to the handlers and connections of everybody.
LEMMA CallbackType ==
    ASSUME TypeOK, Running, NEW a \in Attempts, job[a] \in {"received", "taken", "failed"},
           NEW answer \in {"accepted", "refused"}, Callback(a, answer),
           UNCHANGED <<proxy, grace, tries, taken>>
    PROVE  TypeOK'
<1> USE DEF TypeOK, Running, Live
<1>1. a[1] \in Mails /\ a[2] \in 1..MaxTries /\ a = <<a[1], a[2]>>
  BY DEF Attempts
<1>2. job' \in [Attempts -> {"none", "received", "posting", "taken", "failed",
                             "done", "accepted", "refused"}]
  BY DEF Callback
<1>3. conn' \in [Mails -> {"closed", "waiting", "idle"}]
  BY <1>1 DEF Callback
<1>4. \A b \in Attempts : (job'[b] = "none") = (b[2] > tries'[b[1]])
  BY DEF Callback
<1>5. ASSUME NEW m \in Mails, conn'[m] = "waiting"
      PROVE Running' /\ Live(<<m, tries[m]>>)'
  <2>1. conn[m] = "waiting"
    BY <1>1, <1>5 DEF Callback
  <2>2. <<m, tries[m]>> # a
    BY <1>1, <1>5, <2>1 DEF Callback, Attached
  <2>3. job'[<<m, tries[m]>>] = job[<<m, tries[m]>>]
    <3>1. CASE <<m, tries[m]>> \in Attempts
      BY <2>2, <3>1 DEF Callback
    <3>2. CASE <<m, tries[m]>> \notin Attempts
      BY <2>2, <3>2 DEF Callback
    <3> QED BY <3>1, <3>2
  <2> QED BY <2>1, <2>3
<1> QED BY <1>2, <1>3, <1>4, <1>5

LEMMA ExitType == TypeOK /\ Exit => TypeOK'
<1> SUFFICES ASSUME TypeOK, Exit PROVE TypeOK'
  OBVIOUS
<1>1. job' \in [Attempts -> {"none", "received", "posting", "taken", "failed",
                             "done", "accepted", "refused"}]
      /\ \A a \in Attempts : (job'[a] = "none") = (job[a] = "none")
  BY DEF TypeOK, Exit, Live
<1>2. taken' \subseteq Attempts
  BY DEF TypeOK, Exit
<1>3. proxy' = "down" /\ grace' = 0 /\ 0 \in 0..Grace /\ tries' = tries
  BY MailAssumption DEF Exit
<1>4. conn' \in [Mails -> {"closed", "waiting", "idle"}]
      /\ \A m \in Mails : conn'[m] # "waiting"
  BY DEF Exit
<1> QED BY <1>1, <1>2, <1>3, <1>4 DEF TypeOK

LEMMA TypeStep == TypeOK /\ [Next]_vars => TypeOK'
<1> SUFFICES ASSUME TypeOK, [Next]_vars PROVE TypeOK'
  OBVIOUS
<1> USE MailAssumption
<1>1. ASSUME NEW a \in Attempts, ParseFails(a) \/ Acknowledge(a) \/ Report(a)
      PROVE TypeOK'
  <2>1. Running /\ job[a] \in {"received", "taken", "failed"}
        /\ UNCHANGED <<proxy, grace, tries, taken>>
        /\ \E answer \in {"accepted", "refused"} : Callback(a, answer)
    BY <1>1 DEF ParseFails, Acknowledge, Report
  <2> QED BY <2>1, CallbackType
<1>2. ASSUME NEW a \in Attempts, Post(a) \/ ProviderTakes(a) \/ PostFails(a)
      PROVE TypeOK'
  <2>1. Live(a) /\ job[a] # "none" /\ UNCHANGED <<proxy, grace, tries, conn>>
        /\ \E s \in {"posting", "taken", "failed"} : job' = [job EXCEPT ![a] = s]
    BY <1>2 DEF Post, ProviderTakes, PostFails, Live
  <2>2. taken' \subseteq Attempts
    BY <1>2 DEF Post, ProviderTakes, PostFails, TypeOK
  <2>3. \A b : Live(b) => Live(b)'
    BY <2>1 DEF Live, TypeOK
  <2>4. job' \in [Attempts -> {"none", "received", "posting", "taken", "failed",
                               "done", "accepted", "refused"}]
        /\ \A b \in Attempts : (job'[b] = "none") = (job[b] = "none")
    BY <2>1 DEF TypeOK
  <2> QED BY <2>1, <2>2, <2>3, <2>4 DEF TypeOK, Running
<1>3. ASSUME NEW a \in Attempts, Fault(a) PROVE TypeOK'
  BY <1>3, ExitType DEF Fault
<1>4. ASSUME NEW m \in Mails, Send(m) PROVE TypeOK'
  <2> DEFINE n == <<m, tries[m] + 1>>
  <2>1. n \in Attempts /\ tries' \in [Mails -> 0..MaxTries]
        /\ conn' \in [Mails -> {"closed", "waiting", "idle"}]
    BY <1>4 DEF Send, TypeOK, Attempts
  <2>2. job' = [job EXCEPT ![n] = "received"]
        /\ job' \in [Attempts -> {"none", "received", "posting", "taken", "failed",
                                  "done", "accepted", "refused"}]
    BY <1>4, <2>1 DEF Send, TypeOK
  <2>3. ASSUME NEW b \in Attempts
        PROVE (job'[b] = "none") = (b[2] > tries'[b[1]])
    <3>1. b[1] \in Mails /\ b[2] \in 1..MaxTries /\ b = <<b[1], b[2]>>
      BY DEF Attempts
    <3>2. CASE b = n
      BY <1>4, <2>1, <2>2, <3>2 DEF Send, TypeOK
    <3>3. CASE b # n /\ b[1] = m
      <4>1. b[2] # tries[m] + 1
        BY <3>1, <3>3
      <4>2. job'[b] = job[b] /\ tries'[b[1]] = tries[m] + 1
        BY <1>4, <2>2, <3>3 DEF Send, TypeOK
      <4> QED BY <3>1, <3>3, <4>1, <4>2 DEF TypeOK
    <3>4. CASE b[1] # m
      <4>1. job'[b] = job[b] /\ tries'[b[1]] = tries[b[1]]
        BY <1>4, <2>2, <3>1, <3>4 DEF Send, TypeOK
      <4> QED BY <4>1 DEF TypeOK
    <3> QED BY <3>2, <3>3, <3>4
  <2>4. ASSUME NEW k \in Mails, conn'[k] = "waiting"
        PROVE Running' /\ Live(<<k, tries[k]>>)'
    <3>1. CASE k = m
      BY <1>4, <2>1, <2>2, <3>1 DEF Send, TypeOK, Running, Live
    <3>2. CASE k # m
      <4>1. conn[k] = "waiting" /\ tries'[k] = tries[k] /\ proxy' = proxy
        BY <1>4, <2>4, <3>2 DEF Send, TypeOK
      <4>2. <<k, tries[k]>> # n /\ Live(<<k, tries[k]>>) /\ Running
        BY <3>2, <4>1 DEF TypeOK
      <4>3. job'[<<k, tries[k]>>] = job[<<k, tries[k]>>]
        BY <2>2, <4>2 DEF TypeOK, Live
      <4> QED BY <4>1, <4>2, <4>3 DEF Live, Running
    <3> QED BY <3>1, <3>2
  <2> QED BY <1>4, <2>1, <2>2, <2>3, <2>4 DEF Send, TypeOK
<1>5. ASSUME NEW m \in Mails, Leave(m) PROVE TypeOK'
  BY <1>5 DEF Leave, TypeOK, Running, Live
<1>6. CASE Shutdown \/ Tick \/ Restart
  BY <1>6 DEF Shutdown, Tick, Restart, TypeOK, Running, Live
<1>7. CASE CleanExit \/ ForcedExit
  BY <1>7, ExitType DEF CleanExit, ForcedExit
<1>8. CASE UNCHANGED vars
  BY <1>8 DEF vars, TypeOK, Running, Live
<1> QED BY <1>1, <1>2, <1>3, <1>4, <1>5, <1>6, <1>7, <1>8 DEF Next, Handler

LEMMA AccountedStep == IInv /\ [Next]_vars => Accounted'
<1> SUFFICES ASSUME IInv, [Next]_vars PROVE Accounted'
  OBVIOUS
<1> USE DEF IInv, TypeOK, Accounted
<1>1. ASSUME NEW a \in Attempts, ParseFails(a) \/ Acknowledge(a) \/ Report(a)
      PROVE Accounted'
  BY <1>1 DEF ParseFails, Acknowledge, Report, Callback
<1>2. ASSUME NEW a \in Attempts, Post(a) \/ ProviderTakes(a) \/ PostFails(a)
      PROVE Accounted'
  BY <1>2 DEF Post, ProviderTakes, PostFails
<1>3. ASSUME Exit PROVE Accounted'
  BY <1>3 DEF Exit, Live
<1>4. ASSUME NEW m \in Mails, Send(m) PROVE Accounted'
  <2> DEFINE n == <<m, tries[m] + 1>>
  <2>1. n \in Attempts /\ n[2] > tries[n[1]]
    BY <1>4, MailAssumption DEF Send, Attempts
  <2>2. n \notin taken
    BY <2>1
  <2> QED BY <1>4, <2>1, <2>2 DEF Send
<1>5. ASSUME NEW m \in Mails, Leave(m) PROVE Accounted'
  BY <1>5 DEF Leave
<1>6. CASE Shutdown \/ Tick \/ Restart \/ UNCHANGED vars
  BY <1>6 DEF Shutdown, Tick, Restart, vars
<1> QED BY <1>1, <1>2, <1>3, <1>4, <1>5, <1>6
        DEF Next, Handler, Fault, CleanExit, ForcedExit

LEMMA StepIInv == IInv /\ [Next]_vars => IInv'
BY TypeStep, AccountedStep DEF IInv

\* Every variable keeps its type, and nobody waits for a handler that ended.
THEOREM MailTypeCorrect == Spec => []TypeOK
<1>1. IInv => TypeOK
  BY DEF IInv
<1> QED BY InitIInv, StepIInv, <1>1, PTL DEF Spec

\* An application is told of a success only when the provider took this very
\* attempt (onData, index.js:53-61).
THEOREM SuccessIsTrue == Spec => []AcceptedWasTaken
<1>1. IInv => AcceptedWasTaken
  BY DEF IInv, Accounted, AcceptedWasTaken
<1> QED BY InitIInv, StepIInv, <1>1, PTL DEF Spec

-----------------------------------------------------------------------------
(* The refinement. *)

LEMMA RelayInit == Init => R!Init
BY DEF Init, R!Init, R!Attempts, Attempts

\* A step that answers nobody and takes only what is unanswered.
LEMMA RelayTake ==
    ASSUME IInv, NEW as \in SUBSET {a \in Attempts : job[a] = "posting"},
           taken' = taken \cup as, tries' = tries, Told' = Told
    PROVE  R!Next
<1>1. as \subseteq {a \in R!Begun \ taken : Told[a] = "nothing"}
  <2> SUFFICES ASSUME NEW a \in as
               PROVE a \in R!Begun /\ a \notin taken /\ Told[a] = "nothing"
    BY DEF R!Begun
  <2>1. a \in Attempts /\ job[a] = "posting"
    OBVIOUS
  <2>2. a[1] \in Mails /\ a[2] \in 1..MaxTries
    BY <2>1 DEF Attempts
  <2>3. ~(a[2] > tries[a[1]])
    BY <2>1 DEF IInv, TypeOK
  <2>4. a \in R!Begun
    BY <2>1, <2>2, <2>3, MailAssumption DEF IInv, TypeOK, R!Begun, R!Attempts, Attempts
  <2> QED BY <2>1, <2>4 DEF IInv, Accounted, Told
<1>2. R!Take(as)
  BY DEF R!Take, Told
<1> QED BY <1>1, <1>2 DEF R!Next, Told

LEMMA RelayStep == IInv /\ [Next]_vars => [R!Next]_(R!vars)
<1> SUFFICES ASSUME IInv, [Next]_vars PROVE R!Next \/ UNCHANGED <<tries, taken, Told>>
  BY DEF R!vars, Told
<1> USE DEF IInv, TypeOK
<1>1. ASSUME NEW a \in Attempts, ParseFails(a) \/ Acknowledge(a) \/ Report(a)
      PROVE R!Next \/ UNCHANGED <<tries, taken, Told>>
  <2>1. UNCHANGED <<tries, taken>> /\ Told[a] = "nothing" /\ a \in R!Begun
    BY <1>1 DEF ParseFails, Acknowledge, Report, Told, R!Begun, R!Attempts, Attempts
  <2>2. CASE ~Attached(a)
    BY <1>1, <2>1, <2>2 DEF ParseFails, Acknowledge, Report, Callback, Told
  <2>3. CASE Attached(a) /\ Acknowledge(a)
    <3>1. a \in taken
      BY <2>3 DEF Acknowledge, Accounted
    <3>2. Told' = [Told EXCEPT ![a] = "accepted"]
      BY <2>3 DEF Acknowledge, Callback, Told
    <3>3. R!Confirm(a)
      BY <2>1, <3>1, <3>2 DEF R!Confirm, Told
    <3> QED BY <3>3 DEF R!Next, R!Attempts, Attempts
  <2>4. CASE Attached(a) /\ (ParseFails(a) \/ Report(a))
    <3>1. Told' = [Told EXCEPT ![a] = "refused"]
      BY <2>4 DEF ParseFails, Report, Callback, Told
    <3>2. R!Refuse(a)
      BY <2>1, <3>1 DEF R!Refuse, Told
    <3> QED BY <3>2 DEF R!Next, R!Attempts, Attempts
  <2> QED BY <1>1, <2>2, <2>3, <2>4
<1>2. ASSUME NEW a \in Attempts, Post(a) PROVE UNCHANGED <<tries, taken, Told>>
  BY <1>2 DEF Post, Told
<1>3. ASSUME NEW a \in Attempts, ProviderTakes(a) \/ PostFails(a)
      PROVE R!Next \/ UNCHANGED <<tries, taken, Told>>
  <2>1. tries' = tries /\ Told' = Told /\ job[a] = "posting"
        /\ (taken' = taken \/ taken' = taken \cup {a})
    BY <1>3 DEF ProviderTakes, PostFails, Told
  <2> QED BY <2>1, RelayTake
<1>4. ASSUME Exit PROVE R!Next \/ UNCHANGED <<tries, taken, Told>>
  <2>1. tries' = tries /\ Told' = Told
    BY <1>4 DEF Exit, Live, Told
  <2>2. PICK as \in SUBSET {a \in Attempts : job[a] = "posting"} : taken' = taken \cup as
    BY <1>4 DEF Exit
  <2> QED BY <2>1, <2>2, RelayTake
<1>5. ASSUME NEW m \in Mails, Send(m) PROVE R!Next
  <2>1. <<m, tries[m] + 1>> \in Attempts /\ job[<<m, tries[m] + 1>>] = "none"
    BY <1>5, MailAssumption DEF Send, Attempts
  <2>2. Told' = Told
    BY <1>5, <2>1 DEF Send, Told
  <2>3. R!Try(m)
    BY <1>5, <2>2 DEF Send, R!Try, Told
  <2> QED BY <2>3 DEF R!Next
<1>6. ASSUME NEW m \in Mails, Leave(m) PROVE UNCHANGED <<tries, taken, Told>>
  BY <1>6 DEF Leave, Told
<1>7. CASE Shutdown \/ Tick \/ Restart \/ UNCHANGED vars
  BY <1>7 DEF Shutdown, Tick, Restart, vars, Told
<1> QED BY <1>1, <1>2, <1>3, <1>4, <1>5, <1>6, <1>7
        DEF Next, Handler, Fault, CleanExit, ForcedExit

\* The proxy implements the at-least-once relay.
THEOREM ProxyImplementsRelay == Spec => ImplementsRelay
BY InitIInv, StepIInv, RelayInit, RelayStep, PTL DEF Spec, ImplementsRelay, R!Spec
=============================================================================
