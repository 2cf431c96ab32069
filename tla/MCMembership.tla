---------------------------- MODULE MCMembership ----------------------------
(* Small instances of MembershipProvisioning for TLC. *)
EXTENDS MembershipProvisioning

CONSTANTS group, permissionSet, permissionSetGroup,  \* slots
          t1, t2                                     \* tasks

MCKindOf == [s \in Slots |->
  CASE s = group -> "Group"
    [] s = permissionSet -> "PermissionSet"
    [] s = permissionSetGroup -> "PermissionSetGroup"]

MCValues == {EmptyValue}

Rank(r) ==
  (CASE r.slot = group -> 0 [] r.slot = permissionSet -> 2 [] r.slot = permissionSetGroup -> 4)
  + IF r.op = "Grant" THEN 0 ELSE 1

(* The two tasks are alike, so that it does not matter which has which of  *)
(* two requests.                                                           *)
MCInit == ClientInit /\ Rank(req[t1]) <= Rank(req[t2])

MCSpec == MCInit /\ [][Next]_clientVars /\ Fairness
=============================================================================
