----------------------------- MODULE SessionPool -----------------------------
(***************************************************************************)
(* Requests, their database sessions and the connection pool in one        *)
(* process (src/src/db.py), on one event loop.                             *)
(*                                                                         *)
(* get_session is a generator that FastAPI enters in a thread before the   *)
(* handler and leaves in a thread after the response has been sent, or     *)
(* before an error response.  A session takes a connection with its first  *)
(* statement and keeps it until a commit, a rollback or its close.  From   *)
(* the look-up of the user to its return a handler awaits nothing, so that *)
(* it owns the loop; a statement that finds the pool empty blocks the loop *)
(* until a connection comes back or the pool's timeout strikes.  FastAPI,  *)
(* asyncio and SQLAlchemy's QueuePool are modelled from how the code uses  *)
(* them.                                                                   *)
(***************************************************************************)
EXTENDS Naturals, FiniteSets

CONSTANTS
    Slots,      \* requests that may be in the process at once
    None,       \* nobody
    Capacity,   \* pool_size + max_overflow
    Timeout     \* pool_timeout, in ticks

ASSUME PoolAssumption ==
    /\ IsFiniteSet(Slots)
    /\ None \notin Slots
    /\ Capacity \in Nat \ {0}
    /\ Timeout \in Nat

VARIABLES
    phase,      \* slot |-> how far its request is
    held,       \* slots whose session holds a connection
    loop,       \* the slot whose handler runs, or blocks, on the loop
    waited      \* how long that handler has waited for a connection

vars == <<phase, held, loop, waited>>

\* "entering" and "closing" are in a thread, "ready" and "sending" wait for
\* their turn on the loop.
Phases == {"idle", "entering", "ready", "handling", "waiting", "sending", "closing"}

Goto(s, next) == phase' = [phase EXCEPT ![s] = next]

Free == Cardinality(held) < Capacity

Init ==
    /\ phase = [s \in Slots |-> "idle"]
    /\ held = {}
    /\ loop = None
    /\ waited = 0

-----------------------------------------------------------------------------
(* Before the handler. *)

\* A request arrives and has its session opened by a thread.
Arrive(s) ==
    /\ loop = None /\ phase[s] = "idle"
    /\ Goto(s, "entering")
    /\ UNCHANGED <<held, loop, waited>>

\* Mutant of Enter: the session is opened with its connection.
EnterConnected(s) ==
    /\ phase[s] = "entering" /\ Free
    /\ Goto(s, "ready")
    /\ held' = held \cup {s}
    /\ UNCHANGED <<loop, waited>>

\* The thread makes a session, which has no connection yet.  What a request
\* awaits until its token is validated comes after this and needs none either.
Enter(s) ==
    /\ phase[s] = "entering"
    /\ Goto(s, "ready")
    /\ UNCHANGED <<held, loop, waited>>

-----------------------------------------------------------------------------
(* From the look-up of the user to the end of the handler. *)

Run(s) ==
    /\ loop = None /\ phase[s] = "ready"
    /\ loop' = s
    /\ Goto(s, "handling")
    /\ UNCHANGED <<held, waited>>

\* A statement on a session without connection.
Checkout(s) ==
    /\ phase[s] = "handling" /\ s \notin held
    /\ \/ Free /\ held' = held \cup {s} /\ UNCHANGED phase
       \/ ~Free /\ Goto(s, "waiting") /\ UNCHANGED held
    /\ UNCHANGED <<loop, waited>>

\* A thread that closes a session has returned a connection.
Granted(s) ==
    /\ phase[s] = "waiting" /\ Free
    /\ Goto(s, "handling")
    /\ held' = held \cup {s}
    /\ waited' = 0
    /\ UNCHANGED loop

\* Mutant of GiveUp: the pool waits for ever.
NeverGiveUp(s) == FALSE /\ s \in Slots /\ UNCHANGED vars

\* TimeoutError, answered 500 by _authenticate_oauth or as any exception.
GiveUp(s) ==
    /\ phase[s] = "waiting" /\ ~Free /\ waited = Timeout
    /\ Goto(s, "closing")
    /\ loop' = None /\ waited' = 0
    /\ UNCHANGED held

\* session.commit() or rollback(); a refresh takes a connection again.
Commit(s) ==
    /\ phase[s] = "handling" /\ s \in held
    /\ held' = held \ {s}
    /\ UNCHANGED <<phase, loop, waited>>

\* The handler returns its response, inside a transaction or not.
Return(s) ==
    /\ phase[s] = "handling"
    /\ Goto(s, "sending")
    /\ loop' = None
    /\ UNCHANGED <<held, waited>>

\* Mutant of Raise: get_session closes without `finally`.
RaiseUnclosed(s) ==
    /\ phase[s] = "handling"
    /\ Goto(s, "idle")
    /\ loop' = None
    /\ UNCHANGED <<held, waited>>

\* It raises an HTTPException, or anything: the session is closed first, and
\* the response to the exception is sent without it.
Raise(s) ==
    /\ phase[s] = "handling"
    /\ Goto(s, "closing")
    /\ loop' = None
    /\ UNCHANGED <<held, waited>>

-----------------------------------------------------------------------------
(* After the handler. *)

\* The response has gone through the middleware to the client, as fast as it
\* reads; the generator is resumed in a thread.
Sent(s) ==
    /\ loop = None /\ phase[s] = "sending"
    /\ Goto(s, "closing")
    /\ UNCHANGED <<held, loop, waited>>

\* session.close() returns the connection, without the loop.
Close(s) ==
    /\ phase[s] = "closing"
    /\ Goto(s, "idle")
    /\ held' = held \ {s}
    /\ UNCHANGED <<loop, waited>>

Tick ==
    /\ \E s \in Slots : phase[s] = "waiting"
    /\ waited < Timeout
    /\ waited' = waited + 1
    /\ UNCHANGED <<phase, held, loop>>

-----------------------------------------------------------------------------
Handle(s) ==
    \/ Run(s) \/ Checkout(s) \/ Granted(s) \/ GiveUp(s)
    \/ Commit(s) \/ Return(s) \/ Raise(s)

Next ==
    \/ \E s \in Slots :
         Arrive(s) \/ Enter(s) \/ Handle(s) \/ Sent(s) \/ Close(s)
    \/ Tick

Spec == Init /\ [][Next]_vars

\* Threads run, and the pool's clock.  The loop resumes whoever is ready in
\* turn, and a handler has finitely many statements.  Clients need not read.
FairSpec ==
    /\ Spec
    /\ \A s \in Slots :
         /\ WF_vars(Enter(s)) /\ WF_vars(Close(s))
         /\ SF_vars(Run(s))
         /\ WF_vars(Checkout(s)) /\ WF_vars(Granted(s) \/ GiveUp(s))
         /\ SF_vars(Return(s) \/ Raise(s))
    /\ WF_vars(Tick)

-----------------------------------------------------------------------------
(* Properties *)

Active(s) == phase[s] \in {"handling", "waiting"}

\* The pool is never overdrawn, a request that has ended, whatever way, has
\* returned its connection, and one handler at most is on the loop.
TypeOK ==
    /\ phase \in [Slots -> Phases]
    /\ held \subseteq {s \in Slots : phase[s] # "idle"}
    /\ Cardinality(held) <= Capacity
    /\ loop \in Slots \cup {None}
    /\ waited \in 0..Timeout
    /\ \A s \in Slots : Active(s) <=> loop = s

\* Who waits for a connection has none, and whoever has one, the handler on
\* the loop apart, only has its response to send or its session to close:
\* handlers cannot wait for each other's connections (db.py:224-232).
HoldersAreDone ==
    \A s \in held :
        \/ phase[s] \in {"sending", "closing"}
        \/ loop = s /\ phase[s] = "handling"

\* A request whose session is open is answered, or its response begun, though
\* clients that do not read may keep every connection and the wait for one
\* blocks the very loop that has to send: the pool's timeout frees it.
Answered ==
    \A s \in Slots : phase[s] = "ready" ~> phase[s] \in {"sending", "closing"}

\* When clients read their responses every connection comes back to the pool,
\* also those of handlers that were refused one or raised half-way.
ConnectionsReturn ==
    (\A s \in Slots : []<>(phase[s] # "sending"))
    => \A s \in Slots : s \in held ~> s \notin held
=============================================================================
