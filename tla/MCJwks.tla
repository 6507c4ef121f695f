------------------------------- MODULE MCJwks -------------------------------
(***************************************************************************)
(* An instance of JwksCache for TLC.                                       *)
(***************************************************************************)
EXTENDS JwksCache

CONSTANTS old, new

MCKeys == {old, new}
MCInitialKeys == {old}

\* A lasting token for the key that may come, one that expires for the first.
MCTokens ==
    {[key |-> old, sound |-> TRUE, expires |-> TRUE],
     [key |-> new, sound |-> TRUE, expires |-> FALSE]}
=============================================================================
