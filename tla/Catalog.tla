------------------------------- MODULE Catalog -------------------------------
(***************************************************************************)
(* The two catalogs the backend can start with: the one db.py seeds when   *)
(* app_env is "test", and the one the Alembic migrations leave behind in   *)
(* every other environment; and the rules compiled into the code.          *)
(*                                                                         *)
(* Seeds are sequences in the order of the source; a row's id is its       *)
(* position.  `degC` and `degF` stand for the notations with a degree sign.*)
(***************************************************************************)
EXTENDS Integers, Sequences, FiniteSets

SeedParameters ==
    <<"salinity", "phosphate", "temperature", "calcium", "ammonia", "nitrite",
      "nitrate", "ph", "alkalinity", "magnesium">>

SeedUnits ==
    <<"ppt", "sg", "celsius", "fahrenheit", "ppm", "mg/L", "pH", "dKH", "L",
      "gal_us">>

\* parameter |-> <<notation, is_canonical>>
SeedParameterUnits ==
    {<<"salinity", "ppt", TRUE>>, <<"salinity", "sg", FALSE>>,
     <<"temperature", "celsius", TRUE>>, <<"temperature", "fahrenheit", FALSE>>,
     <<"ammonia", "mg/L", TRUE>>, <<"ph", "pH", TRUE>>,
     <<"alkalinity", "dKH", TRUE>>}
      \cup ({"phosphate", "calcium", "nitrite", "nitrate", "magnesium"}
              \X {"ppm"} \X {TRUE})

AllNotations ==
    {SeedUnits[i] : i \in DOMAIN SeedUnits}
      \cup {"US Gal", "SG", "degC", "degF", "mg/l", "mg_l", "ph", "dkh", "l",
            "us gal", "degc", "degf", "PPT"}

\* lower(units.unit) in the database, str.lower in the code.
LowerCase ==
    [n \in AllNotations |->
       CASE n = "mg/L" -> "mg/l" [] n = "pH" -> "ph" [] n = "dKH" -> "dkh"
         [] n = "L" -> "l" [] n = "US Gal" -> "us gal" [] n = "SG" -> "sg"
         [] n = "degC" -> "degc" [] n = "degF" -> "degf" [] n = "PPT" -> "ppt"
         [] OTHER -> n]

\* slugify_unit: lower case, "/" replaced by "_".
SlugifyUnit ==
    [n \in AllNotations |->
       IF LowerCase[n] = "mg/l" THEN "mg_l" ELSE LowerCase[n]]

\* PARAMETER_RULES: the canonical unit, and canonical_range for thresholds.
ParameterRules ==
    LET Rule(unit, max) == [canonical |-> unit, low |-> 0, high |-> max] IN
    [p \in {SeedParameters[i] : i \in DOMAIN SeedParameters} |->
       CASE p = "salinity"    -> Rule("ppt", 100)
         [] p = "phosphate"   -> Rule("ppm", 100)
         [] p = "temperature" -> Rule("celsius", 45)
         [] p = "calcium"     -> Rule("ppm", 1000)
         [] p = "ammonia"     -> Rule("mg/L", 50)
         [] p = "nitrite"     -> Rule("ppm", 50)
         [] p = "nitrate"     -> Rule("ppm", 500)
         [] p = "ph"          -> Rule("pH", 14)
         [] p = "alkalinity"  -> Rule("dKH", 30)
         [] p = "magnesium"   -> Rule("ppm", 2000)]

-----------------------------------------------------------------------------
(* The tables a fresh deployment starts with, for some of the parameters.  *)

\* The place of the i-th seed among those that are used, which is its id.
Place(seeds, used, i) == Cardinality({j \in 1..i : seeds[j] \in used})
UsedUnits(slugs) == {a[2] : a \in {b \in SeedParameterUnits : b[1] \in slugs}}

\* _seed_parameters, _seed_units and _seed_parameter_units.
SeededParameters(slugs) ==
    {[id |-> Place(SeedParameters, slugs, i), slug |-> SeedParameters[i]] :
       i \in {j \in DOMAIN SeedParameters : SeedParameters[j] \in slugs}}
SeededUnits(slugs) ==
    LET used == UsedUnits(slugs) IN
    {[id |-> Place(SeedUnits, used, i), slug |-> SlugifyUnit[SeedUnits[i]],
      unit |-> SeedUnits[i]] : i \in {j \in DOMAIN SeedUnits : SeedUnits[j] \in used}}
\* The seeds whose parameter and unit are there.
Associations(parameters, units) ==
    {[parameter |-> x[1].id, unit |-> x[2].id, canonical |-> x[3]] :
       x \in {y \in parameters \X units \X BOOLEAN :
               <<y[1].slug, y[2].unit, y[3]>> \in SeedParameterUnits}}
SeededParameterUnits(slugs) ==
    Associations(SeededParameters(slugs), SeededUnits(slugs))

\* Revision 20260731_000005 copies slug into unit, rewrites slug, then renames
\* four notations; revision 000003 had seeded the same notations as slugs.
Renamed(n) ==
    CASE n = "gal_us" -> "US Gal" [] n = "sg" -> "SG"
      [] n = "celsius" -> "degC" [] n = "fahrenheit" -> "degF"
      [] OTHER -> n
MigratedUnits(slugs) ==
    {[u EXCEPT !.unit = Renamed(@)] : u \in SeededUnits(slugs)}
=============================================================================
