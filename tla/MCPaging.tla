------------------------------ MODULE MCPaging ------------------------------
(* Small instances of SyncPaging for TLC. *)
EXTENDS SyncPaging

\* Bound: in a list of users, all but one are of type Standard.
MostAreStandard ==
  kind = "users" => Cardinality({r \in 1 .. size[1] : class[1][r] # "Standard"}) <= 1

MCInit == Init /\ MostAreStandard

MCSpec == MCInit /\ [][Next]_pagingVars /\ WF_pagingVars(Progress)
=============================================================================
