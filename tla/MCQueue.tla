------------------------------- MODULE MCQueue -------------------------------
(***************************************************************************)
(* Values for the constants of MigrationQueue that a configuration file    *)
(* cannot write down.                                                      *)
(***************************************************************************)
EXTENDS MigrationQueue

\* One report in the Git stage stands for its three: what differs between them
\* is the external work before, and all of it may fail or take time.
OneReport == [s \in Stage |-> IF s = "git" THEN 1 ELSE 0]

\* The reports of the code: three in git, one per module in platform_data.
AllReports == [s \in Stage |->
  CASE s = "git" -> 3 [] s = "platform_data" -> 2 [] OTHER -> 0]

AnySpawn  == SUBSET Worker
SomeSpawn == SUBSET Worker \ {{}}
FullSpawn == {Worker}
=============================================================================
