----------------------- MODULE UserFieldProvisioning ------------------------
(***************************************************************************)
(* Grant and Revoke of the builders whose grant is a field of the user:    *)
(* roles (roles.go, field UserRoleId) and profiles (profiles.go, field     *)
(* ProfileId).  A slot is one of the two fields of one user.  The user is  *)
(* read with one GET by Id, then the field is written with a PATCH that    *)
(* names no other field (copySObject), so what happens to one field of a   *)
(* user does not touch the other.  A call at work on the other field of    *)
(* the same user shares the cached GET; for this slot it is what a call    *)
(* whose write fails is.                                                   *)
(*                                                                         *)
(* Nobody is without a profile, and users are never deleted: slots always  *)
(* hold a record here.  A field holds one value, so a grant replaces what  *)
(* was there.                                                              *)
(***************************************************************************)
EXTENDS Provisioner

CONSTANTS
  Roles, Profiles,
  FieldOf,        \* FieldOf[s]: the field slot s is about
  Licenses,
  None,           \* a query that selects nothing, a key that is not in the map
  UserLicenseOf,  \* UserLicenseOf[p]: the license of profile p, or None
  licenseToLeastProfileMapping   \* the configured map, from licenses to profiles

\* The values a grant of field f may set, and those the field may have.
Assignable(f) == IF f = "UserRoleId" THEN Roles ELSE Profiles
FieldValues(f) == IF f = "UserRoleId" THEN Roles \cup {EmptyValue} ELSE Profiles

UserFieldRequests ==
  {r \in [op : {"Grant", "Revoke"}, slot : Slots, value : Roles \cup Profiles] :
     r.value \in Assignable(FieldOf[r.slot])}

(* What a profile revoke finds by its lookups: the license of the profile, *)
(* and the profile with the name that is mapped to the license.  A license *)
(* that is missing or not mapped is an error.  A profile that is missing   *)
(* is a nil pointer: the call ends too, with the connector's process.      *)
GetUserLicenseByID(profile) == UserLicenseOf[profile]
GetProfileByName(license) == licenseToLeastProfileMapping[license]

LeastProfile(profile) ==
  IF GetUserLicenseByID(profile) = None THEN None
  ELSE GetProfileByName(GetUserLicenseByID(profile))

UserFieldAllowed == [r \in UserFieldRequests |->
  CASE r.op = "Grant" -> {r.value}
    [] r.op = "Revoke" /\ FieldOf[r.slot] = "UserRoleId" -> {EmptyValue}
    [] r.op = "Revoke" /\ FieldOf[r.slot] = "ProfileId" -> {LeastProfile(r.value)} \ {None}]

(* A role revoke wants the role gone.  A profile revoke wants the user in  *)
(* the least privileged profile of the license: that is all it can do.     *)
UserFieldGoal == [r \in UserFieldRequests |->
  IF r.op = "Revoke" /\ FieldOf[r.slot] = "UserRoleId" THEN SlotValues \ {r.value}
  ELSE UserFieldAllowed[r]]

ASSUME UserFieldAssumption ==
  /\ FieldOf \in [Slots -> {"UserRoleId", "ProfileId"}]
  /\ Values = Roles \cup Profiles \cup {EmptyValue}
  /\ EmptyValue \notin Roles \cup Profiles
  /\ None \notin Licenses \cup Profiles
  /\ UserLicenseOf \in [Profiles -> Licenses \cup {None}]
  /\ licenseToLeastProfileMapping \in [Licenses -> Profiles \cup {None}]
  /\ Requests = UserFieldRequests
  /\ Goal = UserFieldGoal
  /\ Allowed = UserFieldAllowed

Field(t) == FieldOf[SlotOf(t)]

-----------------------------------------------------------------------------
(* The decisions.  getOneUser complains of a user it does not get.         *)

\* Variant: the copy of the user is sent as it was read.
sendCopy(user, fieldValue) ==
  IF user = NotFound THEN Complain ELSE Make(UpdateObject(user.value))

setValue(user, fieldValue) ==
  IF user = NotFound THEN Complain ELSE Make(UpdateObject(fieldValue))

setOneValue(user, fieldValue) ==
  IF user = NotFound THEN Complain ELSE Make(UpdateObject(fieldValue))

\* Variant: the field is cleared whatever it holds.
clearAnyValue(user, fieldValue) ==
  IF user = NotFound THEN Complain ELSE Make(UpdateObject(EmptyValue))

\* Variant: the comparison is inverted.
clearOtherValue(user, fieldValue) ==
  IF user = NotFound \/ user.value = fieldValue THEN Complain
  ELSE Make(UpdateObject(EmptyValue))

clearValue(user, fieldValue) ==
  IF user = NotFound \/ user.value # fieldValue THEN Complain
  ELSE Make(UpdateObject(EmptyValue))

AddUserToRole(user, role) == setValue(user, role)
RemoveUserFromRole(user, role) == clearValue(user, role)
AddUserToProfile(user, profile) == setOneValue(user, profile)

\* Variant: the revoked profile is taken away, and none put in its place.
SetNoProfile(user, profile) == clearAnyValue(user, profile)

SetNewUserProfile(user, profile) == setOneValue(user, profile)

Grant(field, user, value) ==
  IF field = "UserRoleId" THEN AddUserToRole(user, value)
  ELSE AddUserToProfile(user, value)

Revoke(field, user, value) ==
  IF field = "UserRoleId" THEN RemoveUserFromRole(user, value)
  ELSE SetNewUserProfile(user, LeastProfile(value))

Decide(t) ==
  IF req[t].op = "Grant" THEN Grant(Field(t), task[t].rec, req[t].value)
  ELSE Revoke(Field(t), task[t].rec, req[t].value)

-----------------------------------------------------------------------------
\* Only grants look at the type of the principal.
RejectGrant(t) == req[t].op = "Grant" /\ Reject(t)

\* A profile revoke whose lookups do not lead to a profile ends there.
Unmapped(t) ==
  /\ req[t].op = "Revoke" /\ Field(t) = "ProfileId"
  /\ LeastProfile(req[t].value) = None

RejectUnmapped(t) == Unmapped(t) /\ Reject(t)

\* updateUser hands on what the PATCH returns.
updateUser == [ok |-> "done", duplicate |-> "Duplicate", notFound |-> "NotFound"]

TaskStep(t) ==
  \/ Retry(t) \/ Cancelled(t) \/ WriteStep(t)
  \/ RejectGrant(t) \/ RejectUnmapped(t)
  \/ QueryFails(t)
  \/ ~Unmapped(t) /\ (CacheHit(t) \/ CacheMiss(t) \/ getSObject(t) \/ Read(t, Decide(t)))
  \/ WriteReplied(t, updateUser)

\* Others give the field another value.
UserDrift(s) ==
  /\ drift < MaxDrift
  /\ drift' = drift + 1
  /\ DriftUpdate(s)
  /\ org'[s].value \in FieldValues(FieldOf[s])
  /\ UNCHANGED <<cache, req, task>>

UserEnvironment == ClearCaches \/ \E s \in Slots : CacheEvict(s) \/ UserDrift(s)

Init ==
  /\ ClientInit
  /\ \A s \in Slots : org[s] # NotFound /\ org[s].value \in FieldValues(FieldOf[s])

Next == UserEnvironment \/ (\E t \in Tasks : Begin(t) \/ TaskStep(t)) \/ Terminated

Spec == Init /\ [][Next]_clientVars

-----------------------------------------------------------------------------
(* The properties.                                                         *)

(* No handler, in whatever order with others, leaves a user without a      *)
(* profile or puts the value of one field into another.                    *)
FieldsStayProper ==
  \A s \in Slots : org[s] # NotFound /\ org[s].value \in FieldValues(FieldOf[s])

(* The complaint of a role revoke ("missing UserRoleId"), also the one     *)
(* about its own earlier attempt, hides a success: unless the user it read *)
(* was a cached one, the role was gone at some moment of the call.  That   *)
(* it is an error at all is against the contract: RepeatSucceeds.          *)
ComplaintWitnessed ==
  \A t \in Tasks : task[t].err = "Missing" /\ ~task[t].cached => Witnessed(t)

(* Grants, and profile revokes, change a field only when it is not yet as  *)
(* requested, and no call changes another user's field or another field.   *)
(* Role revokes clear what they find, however old the role they read is.   *)
NoCollateral ==
  [][\A t \in Tasks, s \in Slots :
       WrittenBy(t, s) =>
         /\ s = SlotOf(t)
         /\ ~(req[t].op = "Revoke" /\ Field(t) = "UserRoleId") => ~Satisfied(t)]_clientVars

\* These builders write by updates alone.
UpdatesOnly ==
  \A t \in Tasks : task[t].pc = "write" => task[t].call.op = "update"

Inv == ProvisionerInv /\ UpdatesOnly /\ FieldsStayProper

\* What makes the answers of the builders true, besides Inv.
HistoryInv ==
  /\ \A t \in Tasks : FreshRead(t) /\ NoErrorYet(t) /\ Absent \notin seen[t]
  /\ ComplaintWitnessed /\ SettledInGoal

(* A revoke of a role that is gone already, by others or by an attempt of  *)
(* its own, succeeds: what is asked of every Revoke, and what the one of   *)
(* roles ("missing UserRoleId") does not do.                               *)
RepeatSucceeds ==
  \A t \in Tasks : Undisturbed(t) => task[t].err # "Missing"
=============================================================================
