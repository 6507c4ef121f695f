------------------------------ MODULE MCIdentity -----------------------------
(***************************************************************************)
(* Instances of Identity for TLC: one issuer in its two spellings and a    *)
(* second one, so that identities collide in every way they can.           *)
(***************************************************************************)
EXTENDS Identity

CONSTANTS plain, slashed, other, ann, x, y

MCIssuers == {plain, slashed, other}
MCSubjects == {ann}
MCTexts == {x, y}
MCTrim == [i \in MCIssuers |-> IF i = slashed THEN plain ELSE i]
MCTokens ==
    {[iss |-> plain, sub |-> ann, name |-> x],
     [iss |-> slashed, sub |-> ann, name |-> y],
     [iss |-> other, sub |-> ann, name |-> NULL],
     [iss |-> plain, sub |-> Blank, name |-> x]}
MCPatches ==
    {NoPatch, [f \in {"bio"} |-> x], [f \in {"display_name"} |-> x]}
=============================================================================
