----------------------------- MODULE MailProxy ------------------------------
(***************************************************************************)
(* The SMTP-to-HTTP mail proxy (src/mail_proxy/index.js).                  *)
(*                                                                         *)
(* An application hands in a mail over a connection and waits; the handler *)
(* parses it, posts it to the provider and answers.  When the application  *)
(* gives up waiting it may try again on a new connection while the handler *)
(* of the earlier attempt still runs.  smtp-server, the applications, the  *)
(* provider and the operator are modelled from how index.js uses them.     *)
(***************************************************************************)
EXTENDS Naturals

CONSTANTS
    Mails,      \* mails, each handed in by an application of its own
    Unparsable, \* those simpleParser fails on
    Repeated,   \* those whose To or Cc header occurs twice
    MaxTries,   \* bound on the attempts for one mail
    Grace       \* the 5000 ms of the forced exit, in ticks

Attempts == Mails \X (1..MaxTries)

ASSUME MailAssumption ==
    /\ Unparsable \subseteq Mails
    /\ Repeated \subseteq Mails
    /\ Unparsable \cap Repeated = {}
    /\ MaxTries \in Nat
    /\ Grace \in Nat \ {0}

VARIABLES
    proxy,      \* the process: "up", "closing" after a signal, "down"
    grace,      \* time left until the forced exit
    tries,      \* mail |-> attempts begun
    conn,       \* mail |-> the connection of its last attempt
    job,        \* attempt |-> how far its handler is
    taken       \* attempts the provider took

vars == <<proxy, grace, tries, conn, job, taken>>

Running == proxy # "down"

\* The handler of an attempt has not called back.
Live(a) == job[a] \in {"received", "posting", "taken", "failed"}

\* Nobody waits for a handler that has ended.
TypeOK ==
    /\ proxy \in {"up", "closing", "down"}
    /\ grace \in 0..Grace
    /\ tries \in [Mails -> 0..MaxTries]
    /\ conn \in [Mails -> {"closed", "waiting", "idle"}]
    /\ job \in [Attempts -> {"none", "received", "posting", "taken", "failed",
                             "done", "accepted", "refused"}]
    /\ taken \subseteq Attempts
    /\ \A a \in Attempts : (job[a] = "none") = (a[2] > tries[a[1]])
    /\ \A m \in Mails : conn[m] = "waiting" => Running /\ Live(<<m, tries[m]>>)

Init ==
    /\ proxy = "up" /\ grace = 0
    /\ tries = [m \in Mails |-> 0]
    /\ conn = [m \in Mails |-> "closed"]
    /\ job = [a \in Attempts |-> "none"]
    /\ taken = {}

\* The application still waits for the answer to this very attempt.
Attached(a) == a[2] = tries[a[1]] /\ conn[a[1]] = "waiting"

-----------------------------------------------------------------------------
(* The handler onData. *)

\* callback: the answer goes out, to nobody if the connection is gone.
Callback(a, answer) ==
    /\ job' = [job EXCEPT ![a] = IF Attached(a) THEN answer ELSE "done"]
    /\ conn' = [conn EXCEPT ![a[1]] = IF Attached(a) THEN "idle" ELSE @]

\* The mail could not be parsed.
ParseFails(a) ==
    /\ Running
    /\ job[a] = "received" /\ a[1] \in Unparsable
    /\ Callback(a, "refused")
    /\ UNCHANGED <<proxy, grace, tries, taken>>

\* Mutant of Post: the application is answered before the mail is posted.
PostAfterAnswer(a) ==
    /\ Running
    /\ job[a] = "received" /\ a[1] \notin Unparsable \cup Repeated
    /\ Callback(a, "accepted")
    /\ UNCHANGED <<proxy, grace, tries, taken>>

\* The payload is built and posted.
Post(a) ==
    /\ Running
    /\ job[a] = "received" /\ a[1] \notin Unparsable \cup Repeated
    /\ job' = [job EXCEPT ![a] = "posting"]
    /\ UNCHANGED <<proxy, grace, tries, conn, taken>>

Acknowledge(a) ==
    /\ Running
    /\ job[a] = "taken"
    /\ Callback(a, "accepted")
    /\ UNCHANGED <<proxy, grace, tries, taken>>

\* Mutant of Report: an error of the provider is only logged.
ReportNothing(a) ==
    /\ Running
    /\ job[a] = "failed"
    /\ job' = [job EXCEPT ![a] = "done"]
    /\ UNCHANGED <<proxy, grace, tries, conn, taken>>

\* Mutant of Report: an error of the provider is answered like a success.
ReportSuccess(a) ==
    /\ Running
    /\ job[a] = "failed"
    /\ Callback(a, "accepted")
    /\ UNCHANGED <<proxy, grace, tries, taken>>

Report(a) ==
    /\ Running
    /\ job[a] = "failed"
    /\ Callback(a, "refused")
    /\ UNCHANGED <<proxy, grace, tries, taken>>

-----------------------------------------------------------------------------
(* The end of the process.  The handlers and connections are gone; a post  *)
(* on its way may yet be taken.                                            *)

Exit ==
    /\ proxy' = "down" /\ grace' = 0
    /\ conn' = [m \in Mails |-> "closed"]
    /\ job' = [a \in Attempts |-> IF Live(a) THEN "done" ELSE job[a]]
    /\ \E as \in SUBSET {a \in Attempts : job[a] = "posting"} : taken' = taken \cup as
    /\ UNCHANGED tries

\* With a repeated header mailparser gives a list, which has no `value`: the
\* TypeError leaves the async callback outside its try block, and an
\* unhandled rejection ends the process.
Fault(a) ==
    /\ Running
    /\ job[a] = "received" /\ a[1] \in Repeated
    /\ Exit

\* SIGINT or SIGTERM.
Shutdown ==
    /\ proxy = "up"
    /\ proxy' = "closing" /\ grace' = Grace
    /\ UNCHANGED <<tries, conn, job, taken>>

\* server.close calls back when the last connection has ended.
CleanExit ==
    /\ proxy = "closing"
    /\ \A m \in Mails : conn[m] = "closed"
    /\ Exit

\* Mutant of ForcedExit: no timer.
NoForcedExit == FALSE /\ UNCHANGED vars

ForcedExit ==
    /\ proxy = "closing" /\ grace = 0
    /\ Exit

Tick ==
    /\ proxy = "closing" /\ grace > 0
    /\ grace' = grace - 1
    /\ UNCHANGED <<proxy, tries, conn, job, taken>>

-----------------------------------------------------------------------------
(* Applications, the provider and the operator. *)

\* A mail is sent on a new connection, for the first time or because no
\* attempt was answered with success.
Send(m) ==
    /\ proxy = "up"
    /\ conn[m] = "closed" /\ tries[m] < MaxTries
    /\ \A i \in 1..MaxTries : job[<<m, i>>] # "accepted"
    /\ tries' = [tries EXCEPT ![m] = @ + 1]
    /\ conn' = [conn EXCEPT ![m] = "waiting"]
    /\ job' = [job EXCEPT ![<<m, tries[m] + 1>>] = "received"]
    /\ UNCHANGED <<proxy, grace, taken>>

\* The application quits, or no longer waits.
Leave(m) ==
    /\ conn[m] # "closed"
    /\ conn' = [conn EXCEPT ![m] = "closed"]
    /\ UNCHANGED <<proxy, grace, tries, job, taken>>

ProviderTakes(a) ==
    /\ job[a] = "posting"
    /\ job' = [job EXCEPT ![a] = "taken"]
    /\ taken' = taken \cup {a}
    /\ UNCHANGED <<proxy, grace, tries, conn>>

\* An error status, or a network error: the provider has the mail or not.
PostFails(a) ==
    /\ job[a] = "posting"
    /\ job' = [job EXCEPT ![a] = "failed"]
    /\ taken' = taken \/ taken' = taken \cup {a}
    /\ UNCHANGED <<proxy, grace, tries, conn>>

Restart ==
    /\ proxy = "down"
    /\ proxy' = "up"
    /\ UNCHANGED <<grace, tries, conn, job, taken>>

-----------------------------------------------------------------------------
Handler(a) == ParseFails(a) \/ Post(a) \/ Acknowledge(a) \/ Report(a) \/ Fault(a)

Next ==
    \/ \E a \in Attempts : Handler(a) \/ ProviderTakes(a) \/ PostFails(a)
    \/ \E m \in Mails : Send(m) \/ Leave(m)
    \/ Shutdown \/ CleanExit \/ ForcedExit \/ Tick \/ Restart

Spec == Init /\ [][Next]_vars

\* The event loop runs the handlers and the timer; applications may wait for
\* ever and the provider, whom axios gives no timeout, may never answer.
FairSpec ==
    /\ Spec
    /\ \A a \in Attempts : WF_vars(Handler(a))
    /\ WF_vars(CleanExit) /\ WF_vars(ForcedExit) /\ WF_vars(Tick)

-----------------------------------------------------------------------------
(* Properties *)

\* An application is only told that its mail was accepted when the provider
\* took this very attempt (index.js:53-61), whatever happened to others,
\* earlier attempts of the same mail included.
AcceptedWasTaken == \A a \in Attempts : job[a] = "accepted" => a \in taken

\* The proxy keeps the abstract promise: an attempt is answered at most once,
\* with success only after the provider took it, and the provider takes no
\* attempt that was answered already (index.js:20-67).
R == INSTANCE Relay WITH
       told <- [a \in Attempts |-> IF job[a] \in {"accepted", "refused"}
                                   THEN job[a] ELSE "nothing"]

ImplementsRelay == R!Spec

\* A signal ends the process although an application stays connected and the
\* provider never answers (index.js:87-88).
ShutdownEnds == proxy = "closing" ~> proxy = "down"

\* As long as the provider or the network ends every post, everybody who
\* waits is answered or cut off: no path through the handler forgets its
\* callback.
AnswersWhenProviderDoes ==
    (\A a \in Attempts : []<>(job[a] # "posting"))
    => \A m \in Mails : []<>(conn[m] # "waiting")
=============================================================================
