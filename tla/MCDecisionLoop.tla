--------------------------- MODULE MCDecisionLoop ---------------------------
(* DecisionLoop for TLC.  Workers and tags are interchangeable: the initial *)
(* states, the actions and the invariants treat all of them alike.          *)
EXTENDS DecisionLoop, TLC

Interchangeable == Permutations(Workers) \cup Permutations(Tags)
=============================================================================
