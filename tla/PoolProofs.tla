----------------------------- MODULE PoolProofs ------------------------------
(***************************************************************************)
(* Proofs about SessionPool, for any number of requests, any capacity of   *)
(* the pool and any timeout.                                               *)
(***************************************************************************)
EXTENDS SessionPool, FiniteSetTheorems, TLAPS

\* TypeOK says how many connections are out; HoldersAreDone is needed with it,
\* since the wait ends in a state that holds one.
IInv == TypeOK /\ HoldersAreDone

\* One connection more, when one is free, does not overdraw the pool.
LEMMA OneMore ==
    ASSUME NEW S, IsFiniteSet(S), NEW s, Cardinality(S) < Capacity
    PROVE  Cardinality(S \cup {s}) <= Capacity
  <1>1. Cardinality(S) \in Nat /\ Capacity \in Nat
    BY FS_CardinalityType, PoolAssumption
  <1>2. /\ IsFiniteSet(S \cup {s})
        /\ \/ Cardinality(S \cup {s}) = Cardinality(S)
           \/ Cardinality(S \cup {s}) = Cardinality(S) + 1
    BY FS_AddElement
  <1> QED
    BY <1>1, <1>2

\* One connection less does not either.
LEMMA OneLess ==
    ASSUME NEW S, IsFiniteSet(S), NEW s, Cardinality(S) <= Capacity
    PROVE  Cardinality(S \ {s}) <= Capacity
  <1>1. Cardinality(S) \in Nat /\ Cardinality(S \ {s}) \in Nat /\ Capacity \in Nat
    BY FS_CardinalityType, FS_RemoveElement, PoolAssumption
  <1>2. Cardinality(S \ {s}) <= Cardinality(S)
    <2>1. S \ {s} \in SUBSET S
      OBVIOUS
    <2> QED
      BY <2>1, FS_Subset
  <1> QED
    BY <1>1, <1>2

LEMMA HeldFinite == IInv => IsFiniteSet(held)
  <1> SUFFICES ASSUME IInv PROVE IsFiniteSet(held)
    OBVIOUS
  <1>1. held \subseteq Slots
    BY DEF IInv, TypeOK
  <1> QED
    BY <1>1, FS_Subset, PoolAssumption

LEMMA InitInv == Init => IInv
  <1> SUFFICES ASSUME Init PROVE IInv
    OBVIOUS
  <1>1. Cardinality(held) <= Capacity
    BY FS_EmptySet, PoolAssumption DEF Init
  <1>2. TypeOK
    BY <1>1, PoolAssumption DEF Init, TypeOK, Phases, Active
  <1> QED
    BY <1>2 DEF IInv, HoldersAreDone, Init

LEMMA StepInv == IInv /\ [Next]_vars => IInv'
  <1> SUFFICES ASSUME IInv, [Next]_vars PROVE IInv'
    OBVIOUS
  <1> USE DEF IInv, TypeOK, HoldersAreDone, Phases, Active, Goto
  <1>0. IsFiniteSet(held) /\ None \notin Slots /\ Timeout \in Nat
    BY HeldFinite, PoolAssumption
  <1>1. ASSUME NEW s \in Slots, Arrive(s) PROVE IInv'
    BY <1>0, <1>1 DEF Arrive
  <1>2. ASSUME NEW s \in Slots, Enter(s) PROVE IInv'
    BY <1>0, <1>2 DEF Enter
  <1>3. ASSUME NEW s \in Slots, Run(s) PROVE IInv'
    BY <1>0, <1>3 DEF Run
  <1>4. ASSUME NEW s \in Slots, Checkout(s) PROVE IInv'
    <2>1. CASE Free /\ held' = held \cup {s} /\ UNCHANGED phase
      <3>1. Cardinality(held') <= Capacity
        BY <1>0, <2>1, OneMore DEF Free
      <3> QED
        BY <1>0, <1>4, <2>1, <3>1 DEF Checkout
    <2>2. CASE ~Free /\ Goto(s, "waiting") /\ UNCHANGED held
      BY <1>0, <1>4, <2>2 DEF Checkout
    <2> QED
      BY <1>4, <2>1, <2>2 DEF Checkout
  <1>5. ASSUME NEW s \in Slots, Granted(s) PROVE IInv'
    <2>1. Cardinality(held') <= Capacity
      BY <1>0, <1>5, OneMore DEF Granted, Free
    <2> QED
      BY <1>0, <1>5, <2>1 DEF Granted
  <1>6. ASSUME NEW s \in Slots, GiveUp(s) PROVE IInv'
    BY <1>0, <1>6 DEF GiveUp
  <1>7. ASSUME NEW s \in Slots, Commit(s) PROVE IInv'
    <2>1. Cardinality(held') <= Capacity
      BY <1>0, <1>7, OneLess DEF Commit
    <2> QED
      BY <1>0, <1>7, <2>1 DEF Commit
  <1>8. ASSUME NEW s \in Slots, Return(s) PROVE IInv'
    BY <1>0, <1>8 DEF Return
  <1>9. ASSUME NEW s \in Slots, Raise(s) PROVE IInv'
    BY <1>0, <1>9 DEF Raise
  <1>10. ASSUME NEW s \in Slots, Sent(s) PROVE IInv'
    BY <1>0, <1>10 DEF Sent
  <1>11. ASSUME NEW s \in Slots, Close(s) PROVE IInv'
    <2>1. Cardinality(held') <= Capacity
      BY <1>0, <1>11, OneLess DEF Close
    <2> QED
      BY <1>0, <1>11, <2>1 DEF Close
  <1>12. CASE Tick
    BY <1>0, <1>12 DEF Tick
  <1>13. CASE UNCHANGED vars
    BY <1>13 DEF vars
  <1> QED
    BY <1>1, <1>2, <1>3, <1>4, <1>5, <1>6, <1>7, <1>8, <1>9, <1>10, <1>11,
       <1>12, <1>13 DEF Next, Handle

LEMMA InvHolds == Spec => []IInv
  BY InitInv, StepInv, PTL DEF Spec

\* The pool is never overdrawn, and no request that has ended keeps a
\* connection, whether it returned, raised or was refused one (db.py:224-232).
THEOREM NoConnectionLeaks == Spec => []TypeOK
  <1>1. IInv => TypeOK
    BY DEF IInv
  <1> QED
    BY <1>1, InvHolds, PTL

\* No handler waits for a connection while it holds one, and no connection is
\* held by a request that has yet to run: the wait for the pool is no cycle
\* among handlers (db.py:111-125, 224-232).
THEOREM NoHoldAndWait == Spec => []HoldersAreDone
  <1>1. IInv => HoldersAreDone
    BY DEF IInv
  <1> QED
    BY <1>1, InvHolds, PTL
=============================================================================
