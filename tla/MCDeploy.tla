------------------------------ MODULE MCDeploy ------------------------------
(***************************************************************************)
(* Instances of Startup for TLC: an empty database, and databases at       *)
(* revision 5 and 8 whose readings the code of the time stored.            *)
(***************************************************************************)
EXTENDS Startup

MCSlugs == {"salinity", "temperature", "ammonia"}

RECURSIVE At(_, _)
At(rev, d) == IF d.rev = rev THEN d ELSE At(rev, Upgraded(d))

\* The unit in the rule's casing, the raw unit lowered by the schema.
Legacy(readings) ==
    [At(5, EmptyDatabase) EXCEPT
       !.readings = readings,
       !.thresholds = {[id |-> 1, parameter |-> "salinity"]}]

InFahrenheit ==
    [id |-> 1, parameter |-> "temperature", unit |-> "celsius", raw |-> "fahrenheit"]
InLowerCase ==
    [id |-> 2, parameter |-> "ammonia", unit |-> "mg/L", raw |-> "mg/l"]

MCDatabases ==
    {EmptyDatabase, Legacy({InFahrenheit, InLowerCase}),
     At(8, Legacy({InFahrenheit}))}

\* With a database of its own a deployment is a test deployment.
MCEnvironments ==
    {e \in Environment : (~e.migrated => e.seeds) /\ (e.seeds => e.configured)}
=============================================================================
