----------------------------- MODULE MCPlanning -----------------------------
(***************************************************************************)
(* Values for the constants of Planning that a configuration file cannot   *)
(* write down. The policies are two of the strategies of MappingView.      *)
(***************************************************************************)
EXTENDS Planning, TLC

CONSTANTS r1, r2, u1, u2

SkipPolicy == [reuse |-> TRUE, skip |-> TRUE, overwrite |-> FALSE]
OverwritePolicy == [reuse |-> TRUE, skip |-> FALSE, overwrite |-> TRUE]
SkipOrOverwrite == {SkipPolicy, OverwritePolicy}

Lfs == {{"lfs"}}
Relabelled == Permutations(Url)

\* Two candidates, each probed, one changed and planned again.
Round == [discover |-> 1, connect |-> 1, map |-> 1, probe |-> 2, preview |-> 2,
          freeze |-> 2, start |-> 1, remote |-> 1, restart |-> 1]
=============================================================================
