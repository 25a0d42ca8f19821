------------------------------ MODULE MCTarget ------------------------------
(***************************************************************************)
(* Values for the constants of TargetWrites that a configuration file      *)
(* cannot write down.                                                      *)
(***************************************************************************)
EXTENDS TargetWrites

\* Every plan preview and freeze can produce: overwriting is an action only
\* where the policy allows it.
AllPlans ==
  [action : Action \ {"overwrite"}, overwrite : {FALSE}]
    \cup [action : {"create", "overwrite"}, overwrite : {TRUE}]

=============================================================================
