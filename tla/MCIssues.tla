------------------------------ MODULE MCIssues ------------------------------
(* IssueMigration on two source issues: a closed one with a comment, which  *)
(* takes three writes, and an open one without, which takes one and bears   *)
(* the label.                                                               *)
EXTENDS IssueMigration

TwoIssues ==
    <<[comments |-> 1, closed |-> TRUE,  label |-> FALSE],
      [comments |-> 0, closed |-> FALSE, label |-> TRUE]>>
=============================================================================
