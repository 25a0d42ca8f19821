------------------------------ MODULE MCReport ------------------------------
(***************************************************************************)
(* Values for the constants of TaskReport that a configuration file cannot *)
(* write down: one error of each class retry_tasks tells apart.            *)
(***************************************************************************)
EXTENDS TaskReport

CONSTANTS t1, t2

Errors == {[code |-> "git.timeout", class |-> "retryable"],
           [code |-> "git.auth", class |-> "forbidden"],
           [code |-> "target.permission", class |-> "skip"]}
\* One task is migrated in up to three attempts, one is planned to be skipped.
Twice == [t \in Task |-> IF t = t1 THEN 2 ELSE 0]
=============================================================================
