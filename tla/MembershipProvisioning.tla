----------------------- MODULE MembershipProvisioning -----------------------
(***************************************************************************)
(* Grant and Revoke of the builders whose grant is a record that is there  *)
(* or not: group members (groups.go), permission set assignments           *)
(* (permissions.go) and permission set group assignments                   *)
(* (permission_set_group.go).  A slot is a user and a group, a permission  *)
(* set or a permission set group; its record has no field of interest.     *)
(* The three builders differ in what they look up before they write, and   *)
(* in what they make of a record that is there, or is not, already.        *)
(***************************************************************************)
EXTENDS Provisioner

CONSTANT KindOf   \* KindOf[s]: the builder that serves slot s

Kinds == {"Group", "PermissionSet", "PermissionSetGroup"}

MembershipRequests == [op : {"Grant", "Revoke"}, slot : Slots]

MembershipGoal == [r \in MembershipRequests |->
  IF r.op = "Grant" THEN {EmptyValue} ELSE {Absent}]

ASSUME MembershipAssumption ==
  /\ KindOf \in [Slots -> Kinds]
  /\ Values = {EmptyValue}
  /\ Requests = MembershipRequests
  /\ Goal = MembershipGoal
  /\ Allowed = MembershipGoal

Kind(t) == KindOf[SlotOf(t)]

-----------------------------------------------------------------------------
\* Variant: revokes are not told from grants.
LooksByKind(t) == Kind(t) = "PermissionSetGroup"

(* Grants of groups and of permission sets create without looking; a grant *)
(* of a permission set group, and every revoke, starts with a query.       *)
Looks(t) == req[t].op = "Revoke" \/ Kind(t) = "PermissionSetGroup"

AddUserToGroup == CreateObject(EmptyValue)
AddUserToPermissionSet == CreateObject(EmptyValue)
AddUserToPermissionSetGroup == CreateObject(EmptyValue)

AddUnseen(t) ==
  /\ task[t].pc = "start"
  /\ ~Looks(t)
  /\ task' = [task EXCEPT ![t].pc = "write",
                          ![t].call = IF Kind(t) = "Group" THEN AddUserToGroup
                                      ELSE AddUserToPermissionSet]
  /\ UNCHANGED <<org, nextId, cache, req, seen, drift>>

\* Variant: errors.Is(err, ErrObjectNotFound) is missing.
RemoveUserStrictly(found) ==
  IF found = NotFound THEN Complain ELSE Make(DeleteObject)

RemoveUserFromGroup(found) ==
  IF found = NotFound THEN Already ELSE Make(DeleteObject)

\* Variant: the test of the error is inverted.
RemoveUserInverted(found) ==
  IF found # NotFound THEN Complain ELSE Make(DeleteObject)

\* ErrObjectNotFound goes to the SDK as it is.
RemoveUserFromPermissionSet(found) ==
  IF found = NotFound THEN Complain ELSE Make(DeleteObject)

\* Variants: the nil tests are inverted.
GrantInverted(existing) ==
  IF existing = NotFound THEN Already ELSE Make(CreateObject(EmptyValue))
RevokeInverted(existing) ==
  IF existing # NotFound THEN Already ELSE Make(DeleteObject)

GrantPermissionSetGroup(existing) ==
  IF existing # NotFound THEN Already ELSE Make(AddUserToPermissionSetGroup)

RemoveUserFromPermissionSetGroup == DeleteObject

RevokePermissionSetGroup(existing) ==
  IF existing = NotFound THEN Already ELSE Make(RemoveUserFromPermissionSetGroup)

Decide(t) ==
  CASE Kind(t) = "Group" -> RemoveUserFromGroup(task[t].rec)
    [] Kind(t) = "PermissionSet" -> RemoveUserFromPermissionSet(task[t].rec)
    [] Kind(t) = "PermissionSetGroup" ->
         IF req[t].op = "Grant" THEN GrantPermissionSetGroup(task[t].rec)
         ELSE RevokePermissionSetGroup(task[t].rec)

\* Variant: a 404 is taken for success.
AfterWriteLenient == [ok |-> "done", duplicate |-> "Duplicate", notFound |-> "done"]

\* No builder of the three translates an error of a write.
AfterWrite == [ok |-> "done", duplicate |-> "Duplicate", notFound |-> "NotFound"]

\* A second membership of the same user in a group may be taken as the first.
CreateAgain(t) ==
  /\ task[t].pc = "write"
  /\ task[t].call.op = "create"
  /\ Kind(t) = "Group"
  /\ org[SlotOf(t)] # NotFound
  /\ task' = [task EXCEPT ![t] = Outcome(t, "done")]
  /\ UNCHANGED <<org, nextId, cache, req, seen, drift>>

\* A revoke of a group membership refuses nothing.
Refuses(t) == ~(req[t].op = "Revoke" /\ Kind(t) = "Group")

TaskStep(t) ==
  \/ Retry(t) \/ Cancelled(t) \/ WriteStep(t)
  \/ Refuses(t) /\ Reject(t)
  \/ AddUnseen(t)
  \/ Looks(t) /\ (QueryStep(t) \/ Read(t, Decide(t)))
  \/ WriteReplied(t, AfterWrite)
  \/ CreateAgain(t)

Next == Environment \/ (\E t \in Tasks : Begin(t) \/ TaskStep(t)) \/ Terminated

Spec == ClientInit /\ [][Next]_clientVars

(* A handler that runs goes on: an HTTP call returns, by its timeout if    *)
(* need be, and the pause of a retry ends.  Nothing makes a task begin.    *)
Fairness == \A t \in Tasks : WF_clientVars(TaskStep(t))

-----------------------------------------------------------------------------
(* The properties.                                                         *)

(* On a record that was not cached, GrantAlreadyExists and                *)
(* GrantAlreadyRevoked are true of some moment of the call.                *)
AlreadyWitnessed ==
  \A t \in Tasks : task[t].answer = "already" /\ ~task[t].cached => Witnessed(t)

(* Every error that is about the record, and not about the call, hides a   *)
(* success: a duplicate on a grant, nothing to delete on a revoke.  The    *)
(* user had, or did not have, what was asked for, unless the record was a  *)
(* cached one.                                                             *)
ComplaintWitnessed ==
  \A t \in Tasks :
    task[t].err \in {"Duplicate", "NotFound", "Missing"} /\ ~task[t].cached =>
      Witnessed(t)

(* A write by Id never hits another record than that of the request, and   *)
(* only one of two tasks that want the same makes the change.              *)
NoCollateral ==
  [][\A t \in Tasks, s \in Slots :
       WrittenBy(t, s) => s = SlotOf(t) /\ ~Satisfied(t)]_clientVars

(* A retry after a lost reply finds its own work done and says so: this    *)
(* much holds for the builders that look first and say "already", when     *)
(* nobody disturbs them and the record is not a cached one.                *)
RetrySucceeds ==
  \A t \in Tasks :
    /\ Undisturbed(t) /\ ~task[t].cached
    /\ Kind(t) = "PermissionSetGroup" \/ (Kind(t) = "Group" /\ req[t].op = "Revoke")
    => task[t].err \in {"none", "Transient", "Permanent"}

\* The records on which task t decides to write.
WritesOn(t) ==
  IF Kind(t) = "PermissionSetGroup" /\ req[t].op = "Grant" THEN {NotFound}
  ELSE Records \ {NotFound}

\* Task t writes what its request is about, on a record that calls for it.
WriteFits(t) ==
  task[t].pc = "write" =>
    /\ task[t].call = IF req[t].op = "Grant" THEN CreateObject(EmptyValue) ELSE DeleteObject
    /\ Looks(t) => task[t].rec \in WritesOn(t)

(* What makes the answers of the builders true, besides ProvisionerInv.    *)
HistoryInv ==
  /\ \A t \in Tasks : /\ NoErrorYet(t) /\ WriteFits(t)
                      /\ Looks(t) => FreshRead(t) /\ CopiesSettled(t, WritesOn(t))
  /\ AlreadyWitnessed /\ ComplaintWitnessed /\ RetrySucceeds /\ SettledInGoal

\* A call that asks for what is there, or not there, already, succeeds.
RepeatSucceeds ==
  \A t \in Tasks : Undisturbed(t) => task[t].err \notin {"Duplicate", "Missing"}
=============================================================================
