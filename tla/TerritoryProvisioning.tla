------------------------ MODULE TerritoryProvisioning -----------------------
(***************************************************************************)
(* Grant and Revoke of the territory builder, pkg/connector/territories.go.*)
(* A slot is a user and a territory; its record is their                   *)
(* UserTerritory2Association, whose field is RoleInTerritory2.  A request  *)
(* asks for, or takes away, the member permission or one role permission.  *)
(* Both handlers start with the same query, so they share its cache entry. *)
(***************************************************************************)
EXTENDS Provisioner

CONSTANTS
  Member,   \* the member permission
  Roles     \* the picklist values of RoleInTerritory2: one permission each

Permissions == Roles \cup {Member}

TerritoryRequests == [op : {"Grant", "Revoke"}, slot : Slots, perm : Permissions]

\* The values of the association's field that satisfy a request.
TerritoryGoal == [r \in TerritoryRequests |->
  CASE r.op = "Grant" /\ r.perm = Member -> Values
    [] r.op = "Grant" /\ r.perm # Member -> {r.perm}
    [] r.op = "Revoke" /\ r.perm = Member -> {Absent}
    [] r.op = "Revoke" /\ r.perm # Member -> SlotValues \ {r.perm}]

TerritoryAllowed == [r \in TerritoryRequests |->
  CASE r.op = "Grant" /\ r.perm = Member -> {EmptyValue}
    [] r.op = "Grant" /\ r.perm # Member -> {r.perm}
    [] r.op = "Revoke" /\ r.perm = Member -> {Absent}
    [] r.op = "Revoke" /\ r.perm # Member -> {EmptyValue}]

IsRole(r) == r.perm # Member

ASSUME TerritoryAssumption ==
  /\ Values = Roles \cup {EmptyValue}
  /\ EmptyValue \notin Roles
  /\ Member \notin Roles
  /\ Requests = TerritoryRequests
  /\ Goal = TerritoryGoal
  /\ Allowed = TerritoryAllowed

-----------------------------------------------------------------------------
(* The decisions.                                                          *)

AddUserToTerritory == Make(CreateObject(EmptyValue))
AddUserToTerritoryWithRole(role) == Make(CreateObject(role))
SetUserTerritoryRole(role) == Make(UpdateObject(role))

\* Variant: a role grant is taken for a member grant when there is a record.
GrantMemberOnly(permission, membership) ==
  CASE membership # NotFound -> Already
    [] permission = Member /\ membership = NotFound -> AddUserToTerritory
    [] permission # Member /\ membership = NotFound ->
         AddUserToTerritoryWithRole(permission)

\* membership is NotFound when the query selected nothing.
Grant(permission, membership) ==
  CASE permission = Member /\ membership # NotFound -> Already
    [] permission = Member /\ membership = NotFound -> AddUserToTerritory
    [] permission # Member /\ membership = NotFound ->
         AddUserToTerritoryWithRole(permission)
    [] permission # Member /\ membership # NotFound ->
         IF membership.value = permission THEN Already
         ELSE SetUserTerritoryRole(permission)

\* Variant: an association without a role is taken for none.
RemoveUserWithRole(record) ==
  IF record = NotFound \/ record.value = EmptyValue THEN Already ELSE Make(DeleteObject)

\* Variant: ErrObjectNotFound goes to the SDK as it is.
RemoveUserStrictly(record) ==
  IF record = NotFound THEN Complain ELSE Make(DeleteObject)

RemoveUserFromTerritory(record) ==
  IF record = NotFound THEN Already ELSE Make(DeleteObject)

\* Variant: the association is removed with the role.
ClearByRemoving(record, expectedRole) ==
  IF record = NotFound \/ record.value # expectedRole
    THEN Already
    ELSE Make(DeleteObject)

(* An empty role (ErrRoleAlreadyCleared) and another role                  *)
(* (ErrRoleMismatch) are answered like a missing association.              *)
ClearUserTerritoryRole(record, expectedRole) ==
  IF record = NotFound \/ record.value # expectedRole
    THEN Already
    ELSE Make(UpdateObject(EmptyValue))

Revoke(permission, record) ==
  IF permission = Member THEN RemoveUserFromTerritory(record)
  ELSE ClearUserTerritoryRole(record, permission)

Decide(r, rec) ==
  IF r.op = "Grant" THEN Grant(r.perm, rec) ELSE Revoke(r.perm, rec)

-----------------------------------------------------------------------------
\* Variants: a 404 is taken for success; a 404 becomes an unknown error.
AfterWriteLenient == [ok |-> "done", duplicate |-> "already", notFound |-> "done"]
AfterWriteUnknown == [ok |-> "done", duplicate |-> "already", notFound |-> "Gone"]

(* DUPLICATE_VALUE (ErrObjectAlreadyExists) is answered GrantAlreadyExists.*)
(* A 404 is not translated: it is none of the errors Revoke looks for.     *)
AfterWrite == [ok |-> "done", duplicate |-> "already", notFound |-> "NotFound"]

TaskStep(t) ==
  \/ ClientStep(t)
  \/ Reject(t)
  \/ Read(t, Decide(req[t], task[t].rec))
  \/ WriteReplied(t, AfterWrite)

Next == Environment \/ (\E t \in Tasks : Begin(t) \/ TaskStep(t)) \/ Terminated

Spec == ClientInit /\ [][Next]_clientVars

-----------------------------------------------------------------------------
(* The properties.                                                         *)

(* On a record that was not cached, the annotated successes,              *)
(* GrantAlreadyExists and GrantAlreadyRevoked, are witnessed too, except   *)
(* that of a role grant, whose create may meet a duplicate.                *)
AlreadyWitnessed ==
  \A t \in Tasks : (/\ task[t].answer = "already" /\ ~task[t].cached
                    /\ ~(req[t].op = "Grant" /\ IsRole(req[t])))
                   => Witnessed(t)

\* GrantAlreadyExists on a role grant: the user had that role.
RoleAlreadyWitnessed ==
  \A t \in Tasks : task[t].answer = "already" /\ ~task[t].cached => Witnessed(t)

(* A task that nobody disturbs fails only because a call failed, never     *)
(* over the traces of its own earlier attempts, unless it acts on a cached *)
(* record.                                                                 *)
NoSelfInflictedError ==
  \A t \in Tasks :
    Undisturbed(t) /\ ~task[t].cached =>
      task[t].err \in {"none", "Transient", "Permanent"}

(* A task that is about to write decided so on the record it holds.        *)
WriteDecided ==
  \A t \in Tasks : task[t].pc = "write" =>
    Decide(req[t], task[t].rec) = Make(task[t].call)

\* The inductive invariant of the builder.
Inv == ProvisionerInv /\ WriteDecided

\* The records on which request r leads to a write.
WritesOn(r) == {rec \in Records : Decide(r, rec).outcome = "write"}

(* What makes the answers of the builder true, besides Inv.                *)
HistoryInv ==
  /\ \A t \in Tasks : FreshRead(t) /\ NoErrorYet(t) /\ CopiesSettled(t, WritesOn(req[t]))
  /\ AlreadyWitnessed /\ NoSelfInflictedError /\ SettledInGoal

(* A write by Id never hits another user's or another territory's record,  *)
(* however old the Id is, and a handler never changes what is already as   *)
(* the request wants it: a member grant never touches an association that  *)
(* is there, a role grant never one with that role.  Role revokes are left *)
(* out here: see RoleRevokeClearsOwnRole.                                  *)
NoCollateral ==
  [][\A t \in Tasks, s \in Slots :
       WrittenBy(t, s) =>
         /\ s = SlotOf(t)
         /\ ~(req[t].op = "Revoke" /\ IsRole(req[t])) => ~Satisfied(t)]_clientVars

(* A role revoke clears the role it was asked to clear, and no other.      *)
RoleRevokeClearsOwnRole ==
  [][\A t \in Tasks, s \in Slots :
       WrittenBy(t, s) /\ req[t].op = "Revoke" /\ IsRole(req[t]) =>
         ~Satisfied(t)]_clientVars

\* A record that is not there any more makes a revoke succeed.
NotFoundOnRevokeIsSuccess ==
  \A t \in Tasks : req[t].op = "Revoke" => task[t].err # "NotFound"
=============================================================================
