----------------------------- MODULE MCReadings -----------------------------
(***************************************************************************)
(* An instance of Readings for TLC: zero and the values on both sides of   *)
(* each bound of salinity, temperature and phosphate, in thousandths.      *)
(***************************************************************************)
EXTENDS Readings

CONSTANT nan

MCValues == {nan, -1, 0, 1, 999, 1000, 1025, 1040, 1041, 14000, 31999, 32000, 45000, 45001,
             100000, 100001, 113000, 113001}
=============================================================================
