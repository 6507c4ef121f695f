------------------------------- MODULE Relay -------------------------------
(***************************************************************************)
(* What the mail proxy (src/mail_proxy/index.js) promises the application  *)
(* that hands it a mail: an attempt reported as accepted was taken by the  *)
(* provider, and one attempt is taken at most once.  It does not promise   *)
(* that an attempt reported as failed, or not reported at all, was not     *)
(* taken, so that a mail tried again may be delivered more than once.      *)
(***************************************************************************)
EXTENDS Naturals

CONSTANTS Mails, MaxTries

Attempts == Mails \X (1..MaxTries)

VARIABLES
    tries,      \* mail |-> attempts begun
    taken,      \* attempts the provider took
    told        \* attempt |-> what the application was told

vars == <<tries, taken, told>>

Begun == {a \in Attempts : a[2] <= tries[a[1]]}

Init ==
    /\ tries = [m \in Mails |-> 0]
    /\ taken = {}
    /\ told = [a \in Attempts |-> "nothing"]

Try(m) ==
    /\ tries[m] < MaxTries
    /\ tries' = [tries EXCEPT ![m] = @ + 1]
    /\ UNCHANGED <<taken, told>>

\* The provider takes attempts that are still unanswered.
Take(as) ==
    /\ taken' = taken \cup as
    /\ UNCHANGED <<tries, told>>

Confirm(a) ==
    /\ a \in taken
    /\ told[a] = "nothing"
    /\ told' = [told EXCEPT ![a] = "accepted"]
    /\ UNCHANGED <<tries, taken>>

Refuse(a) ==
    /\ a \in Begun
    /\ told[a] = "nothing"
    /\ told' = [told EXCEPT ![a] = "refused"]
    /\ UNCHANGED <<tries, taken>>

Next ==
    \/ \E m \in Mails : Try(m)
    \/ \E as \in SUBSET {a \in Begun \ taken : told[a] = "nothing"} : Take(as)
    \/ \E a \in Attempts : Confirm(a) \/ Refuse(a)

Spec == Init /\ [][Next]_vars
=============================================================================
