------------------------------- MODULE MCMail -------------------------------
(***************************************************************************)
(* An instance of MailProxy for TLC: an ordinary mail, one that cannot be  *)
(* parsed and one with a repeated header.                                  *)
(***************************************************************************)
EXTENDS MailProxy

CONSTANTS plain, broken, twice
=============================================================================
