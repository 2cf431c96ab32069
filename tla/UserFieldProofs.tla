-------------------------- MODULE UserFieldProofs ---------------------------
(***************************************************************************)
(* Theorems about the role and the profile builder, for any number of      *)
(* tasks, users, roles, profiles and licenses, any mapping of licenses to  *)
(* least privileged profiles, and any cache behaviour.                     *)
(***************************************************************************)
EXTENDS UserFieldProvisioning, ProvisionerProofs

-----------------------------------------------------------------------------
(* The decisions.                                                          *)

\* The parts of a request, and what its field may hold.
LEMMA RequestParts ==
  ASSUME NEW r \in Requests
  PROVE  /\ r \in UserFieldRequests
         /\ r.op \in {"Grant", "Revoke"}
         /\ r.slot \in Slots
         /\ FieldOf[r.slot] \in {"UserRoleId", "ProfileId"}
         /\ FieldOf[r.slot] = "UserRoleId" => r.value \in Roles
         /\ FieldOf[r.slot] = "ProfileId" => r.value \in Profiles
BY UserFieldAssumption DEF UserFieldRequests, Assignable

\* The lookups of a profile revoke lead to a profile or to nothing.
LEMMA LeastProfileType ==
  ASSUME NEW p \in Profiles
  PROVE  LeastProfile(p) \in Profiles \cup {None}
BY UserFieldAssumption DEF LeastProfile, GetUserLicenseByID, GetProfileByName

\* What a request allows.
LEMMA AllowedCases ==
  ASSUME NEW r \in Requests
  PROVE  /\ r.op = "Grant" => Allowed[r] = {r.value} /\ Goal[r] = {r.value}
         /\ r.op = "Revoke" /\ FieldOf[r.slot] = "UserRoleId" => Allowed[r] = {EmptyValue}
         /\ r.op = "Revoke" /\ FieldOf[r.slot] = "ProfileId" =>
              /\ Allowed[r] = {LeastProfile(r.value)} \ {None}
              /\ Goal[r] = {LeastProfile(r.value)} \ {None}
BY RequestParts, UserFieldAssumption DEF UserFieldAllowed, UserFieldGoal

\* What a request allows is a value its field may have, and never no record.
LEMMA AllowedIsProper ==
  ASSUME NEW r \in Requests, NEW v \in Allowed[r]
  PROVE  v \in FieldValues(FieldOf[r.slot]) /\ v \in Values
<1> USE RequestParts, AllowedCases, UserFieldAssumption
<1>1. CASE FieldOf[r.slot] = "UserRoleId"
  BY <1>1 DEF FieldValues
<1>2. CASE FieldOf[r.slot] = "ProfileId"
  BY <1>2, LeastProfileType DEF FieldValues
<1> QED
  BY <1>1, <1>2

\* Every decision is a complaint or an update to one value the request allows.
LEMMA DecideCases ==
  ASSUME ClientInv, NEW t \in Tasks, ~Unmapped(t)
  PROVE  Decide(t) = Complain \/ \E v \in Allowed[req[t]] : Decide(t) = Make(UpdateObject(v))
<1>0. req[t] \in Requests
  BY DEF ClientInv, TypeOK
<1> USE <1>0, RequestParts, AllowedCases DEF Decide, Field, SlotOf
<1>1. CASE req[t].op = "Grant"
  BY <1>1 DEF Grant, AddUserToRole, AddUserToProfile, setValue, setOneValue
<1>2. CASE req[t].op = "Revoke" /\ FieldOf[req[t].slot] = "UserRoleId"
  BY <1>2 DEF Revoke, RemoveUserFromRole, clearValue
<1>3. CASE req[t].op = "Revoke" /\ FieldOf[req[t].slot] = "ProfileId"
  BY <1>3 DEF Revoke, SetNewUserProfile, setOneValue, Unmapped
<1> QED
  BY <1>1, <1>2, <1>3

\* A decision of the builders is well formed, updates only, and is allowed.
LEMMA DecideFit ==
  ASSUME ClientInv, NEW t \in Tasks, ~Unmapped(t)
  PROVE  /\ FitDecision(req[t], Decide(t))
         /\ Decide(t).outcome = "write" => Decide(t).call.op = "update"
<1>0. req[t] \in Requests
  BY DEF ClientInv, TypeOK
<1>1. CASE Decide(t) = Complain
  BY <1>1, ValuesAssumption DEF Complain, FitDecision, Decisions, Calls, NoCall
<1>2. CASE \E v \in Allowed[req[t]] : Decide(t) = Make(UpdateObject(v))
  <2>1. PICK v \in Allowed[req[t]] : Decide(t) = Make(UpdateObject(v))
    BY <1>2
  <2>2. v \in Values
    BY <1>0, AllowedIsProper
  <2>3. UpdateObject(v) \in Calls /\ UpdateObject(v).op = "update"
        /\ CallResult(UpdateObject(v)) = v
    BY <2>2 DEF UpdateObject, Calls, CallResult
  <2> QED
    BY <2>1, <2>3 DEF Make, FitDecision, Decisions
<1> QED
  BY <1>1, <1>2, DecideCases

\* The translation of write replies is one the common lemmas cover.
LEMMA updateUserFit == FitTranslation(updateUser)
BY DEF FitTranslation, updateUser, Replies, Errors

-----------------------------------------------------------------------------
(* The inductive invariant.                                                *)

\* A task that did not come to a write in this step keeps its update.
LEMMA UpdatesKept ==
  ASSUME Inv, \A u \in Tasks : task'[u].pc = "write" => task'[u] = task[u]
  PROVE  UpdatesOnly'
BY DEF Inv, UpdatesOnly

\* A field that gets a value it may have stays proper.
LEMMA BecomesProper ==
  ASSUME Inv, NEW s \in Slots, NEW rec \in Records, Becomes(s, rec),
         ValueOf(rec) \in FieldValues(FieldOf[s]), ValueOf(rec) \in Values
  PROVE  FieldsStayProper'
<1>1. rec # NotFound /\ rec.value \in FieldValues(FieldOf[s])
  BY ValuesAssumption DEF ValueOf
<1>2. org \in [Slots -> Records] /\ org' = [org EXCEPT ![s] = rec]
  BY DEF Inv, ProvisionerInv, ClientInv, TypeOK, Becomes
<1> QED
  BY <1>1, <1>2 DEF Inv, FieldsStayProper, FieldValues

\* The write of a task that is applied leaves its field proper.
LEMMA ServeProper ==
  ASSUME Inv, NEW t \in Tasks, task[t].pc = "write", NEW reply \in Replies, Serve(t, reply)
  PROVE  FieldsStayProper'
<1>0. /\ ProvisionerInv /\ ClientInv /\ req[t] \in Requests
      /\ SlotOf(t) \in Slots /\ FieldOf[SlotOf(t)] = FieldOf[req[t].slot]
  BY RequestParts DEF Inv, ProvisionerInv, ClientInv, TypeOK, SlotOf
<1>1. CASE org' = org
  BY <1>1 DEF Inv, FieldsStayProper, FieldValues
<1>2. CASE reply = "ok"
  <2>1. PICK rec \in Records : Becomes(SlotOf(t), rec) /\ ValueOf(rec) \in Allowed[req[t]]
    BY <1>0, <1>2, AppliedWrite
  <2>2. ValueOf(rec) \in FieldValues(FieldOf[SlotOf(t)]) /\ ValueOf(rec) \in Values
    BY <1>0, <2>1, AllowedIsProper
  <2> QED
    BY <1>0, <2>1, <2>2, BecomesProper
<1> QED
  BY <1>0, <1>1, <1>2, ServeEffect

\* Others give a field only a value it may have.
LEMMA DriftProper ==
  ASSUME Inv, NEW s \in Slots, UserDrift(s)
  PROVE  FieldsStayProper' /\ Drift(s)
<1>0. org \in [Slots -> Records] /\ org[s].id \in Nat /\ org[s] # NotFound
  BY DEF Inv, ProvisionerInv, ClientInv, TypeOK, Records, FieldsStayProper
<1>1. PICK v \in Values : Becomes(s, [org[s] EXCEPT !.value = v])
  BY DEF UserDrift, DriftUpdate
<1>2. /\ org' = [org EXCEPT ![s] = [org[s] EXCEPT !.value = v]]
      /\ org'[s].value \in FieldValues(FieldOf[s])
  BY <1>1 DEF Becomes, UserDrift
<1>3. org[s].id # 0
  BY <1>0 DEF Inv, ProvisionerInv, ClientInv, IdsOwned, OwnedBy
<1>4. org'[s] = [org[s] EXCEPT !.value = v]
  BY <1>0, <1>2
<1>5. org'[s].id = org[s].id
  BY <1>0, <1>4 DEF Records
<1>6. org'[s] # NotFound
  BY <1>3, <1>5 DEF NotFound
<1>7. FieldsStayProper'
  BY <1>0, <1>2, <1>6 DEF Inv, FieldsStayProper, FieldValues
<1> QED
  BY <1>7 DEF UserDrift, Drift

\* Every step of the builders keeps the inductive invariant.
LEMMA NextKeepsInv ==
  ASSUME Inv, [Next]_clientVars
  PROVE  Inv'
<1>0. ProvisionerInv /\ ClientInv
  BY DEF Inv, ProvisionerInv
<1>1. ASSUME UserEnvironment PROVE Inv'
  <2>1. CASE ClearCaches \/ \E s \in Slots : CacheEvict(s)
    <3>1. Environment /\ org' = org
      BY <2>1 DEF Environment, ClearCaches, CacheEvict
    <3>2. ProvisionerInv' /\ task' = task
      BY <1>0, <3>1, EnvironmentKeeps, EnvironmentQuiet
    <3> QED
      BY <3>1, <3>2, UpdatesKept DEF Inv, FieldsStayProper, FieldValues
  <2>2. CASE \E s \in Slots : UserDrift(s)
    <3>1. FieldsStayProper' /\ Environment
      BY <2>2, DriftProper DEF Environment
    <3>2. ProvisionerInv' /\ task' = task
      BY <1>0, <3>1, EnvironmentKeeps, EnvironmentQuiet
    <3> QED
      BY <3>1, <3>2, UpdatesKept DEF Inv
  <2> QED
    BY <1>1, <2>1, <2>2 DEF UserEnvironment
<1>2. ASSUME NEW t \in Tasks, Begin(t) PROVE Inv'
  <2>1. ProvisionerInv' /\ org' = org
    BY <1>0, <1>2, BeginKeeps DEF Begin
  <2>2. \A u \in Tasks : task'[u].pc = "write" => task'[u] = task[u]
    BY <1>0, <1>2, BeginQuiet
  <2> QED
    BY <2>1, <2>2, UpdatesKept DEF Inv, FieldsStayProper, FieldValues
<1>3. ASSUME NEW t \in Tasks, ClientStep(t) PROVE Inv'
  <2>1. ProvisionerInv' /\ Quiet
    BY <1>0, <1>3, ClientStepKeeps, ClientStepQuiet
  <2>2. CASE WriteReplyLost(t)
    <3>1. FieldsStayProper'
      BY <2>2, ServeProper DEF WriteReplyLost, Replies
    <3> QED
      BY <2>1, <3>1, UpdatesKept DEF Inv, Quiet
  <2>3. CASE ~WriteReplyLost(t)
    <3>1. org' = org
      BY <1>3, <2>3 DEF ClientStep, QueryStep, WriteStep, Retry, Cancelled, CacheHit,
                        CacheMiss, getSObject, QueryFails, WriteFails
    <3> QED
      BY <2>1, <3>1, UpdatesKept DEF Inv, Quiet, FieldsStayProper, FieldValues
  <2> QED
    BY <2>2, <2>3
<1>4. ASSUME NEW t \in Tasks, Reject(t) PROVE Inv'
  <2>1. ProvisionerInv' /\ Quiet /\ org' = org
    BY <1>0, <1>4, RejectKeeps DEF Reject
  <2> QED
    BY <2>1, UpdatesKept DEF Inv, Quiet, FieldsStayProper, FieldValues
<1>5. ASSUME NEW t \in Tasks, ~Unmapped(t), Read(t, Decide(t)) PROVE Inv'
  <2> DEFINE d == Decide(t)
  <2>1. FitDecision(req[t], d) /\ d \in Decisions /\ (d.outcome = "write" => d.call.op = "update")
    BY <1>0, <1>5, DecideFit DEF FitDecision
  <2>2. ProvisionerInv'
    BY <1>0, <1>5, <2>1, ReadKeeps
  <2>3. /\ Running(t) /\ org' = org
        /\ task \in [Tasks -> TaskStates]
        /\ task' = [task EXCEPT ![t] =
             IF d.outcome = "write" THEN [task[t] EXCEPT !.pc = "write", !.call = d.call]
             ELSE Outcome(t, d.outcome)]
    BY <1>0, <1>5 DEF Read, Running, ClientInv, TypeOK
  <2> HIDE DEF d
  <2>4. FieldsStayProper'
    BY <2>3 DEF Inv, FieldsStayProper, FieldValues
  <2>5. CASE d.outcome = "write"
    <3>1. task'[t].call = d.call /\ \A u \in Tasks : u # t => task'[u] = task[u]
      BY <2>3, <2>5 DEF TaskStates
    <3>2. UpdatesOnly'
      BY <2>1, <2>5, <3>1 DEF Inv, UpdatesOnly
    <3> QED
      BY <2>2, <2>4, <3>2 DEF Inv
  <2>6. CASE d.outcome # "write"
    <3>1. d.outcome \in {"done", "already"} \cup Errors
      BY <2>1, <2>6 DEF Decisions, Errors
    <3>2. task'[t].pc # "write"
      BY <1>0, <2>3, <2>6, <3>1, OutcomeShape
    <3> QED
      BY <2>2, <2>3, <2>4, <3>2, UpdatesKept DEF Inv
  <2> QED
    BY <2>5, <2>6
<1>6. ASSUME NEW t \in Tasks, WriteReplied(t, updateUser) PROVE Inv'
  <2>1. /\ ProvisionerInv'
        /\ task'[t].pc # "write"
        /\ \A u \in Tasks : u # t => task'[u] = task[u]
    BY <1>0, <1>6, updateUserFit, WriteRepliedKeeps
  <2>2. FieldsStayProper'
    BY <1>6, ServeProper DEF WriteReplied
  <2> QED
    BY <2>1, <2>2, UpdatesKept DEF Inv
<1>7. CASE UNCHANGED clientVars
  <2>1. ProvisionerInv' /\ UNCHANGED <<task, org>>
    BY <1>0, <1>7, StutterKeeps DEF clientVars
  <2> QED
    BY <2>1, UpdatesKept DEF Inv, FieldsStayProper, FieldValues
<1> QED
  BY <1>1, <1>2, <1>3, <1>4, <1>5, <1>6, <1>7
     DEF Next, TaskStep, Terminated, RejectGrant, RejectUnmapped, ClientStep, QueryStep

(* The invariant holds in every reachable state: the layer's invariants,   *)
(* updates only, proper fields, and the witness of every success.          *)
THEOREM InvHolds == Spec => []Inv
<1>1. Init => Inv
  <2>1. Init => UpdatesOnly
    BY DEF UpdatesOnly, Init, ClientInit, IdleTask
  <2> QED
    BY <2>1, InitKeeps DEF Inv, Init, FieldsStayProper
<1>2. Inv /\ [Next]_clientVars => Inv'
  BY NextKeepsInv
<1> QED
  BY <1>1, <1>2, PTL DEF Spec

(* No grant or revoke of a role or a profile ever leaves a user without a  *)
(* profile, or with a value that is not one of the field's.                *)
THEOREM FieldsAreProper == Spec => []FieldsStayProper
BY InvHolds, PTL DEF Inv

(* Plain success is never reported for a state the user's field never was  *)
(* in while the call ran.                                                  *)
THEOREM SuccessIsWitnessed == Spec => []DoneWitnessed
BY InvHolds, PTL DEF Inv, ProvisionerInv

-----------------------------------------------------------------------------
(* Writes hit their own field, and only where there is something to do.    *)

\* A field that changes at the hand of a task was changed by its own write.
LEMMA WriteIsServed ==
  ASSUME Inv, [Next]_clientVars, NEW t \in Tasks, NEW s \in Slots, WrittenBy(t, s)
  PROVE  \E reply \in Replies : Serve(t, reply)
<1>1. task'[t] # task[t] /\ org' # org /\ task \in [Tasks -> TaskStates]
  BY DEF WrittenBy, Inv, ProvisionerInv, ClientInv, TypeOK
<1>2. ~UserEnvironment
  BY <1>1 DEF UserEnvironment, ClearCaches, CacheEvict, UserDrift
<1>3. ~UNCHANGED clientVars
  BY <1>1 DEF clientVars
<1>4. PICK u \in Tasks : Begin(u) \/ TaskStep(u)
  BY <1>2, <1>3 DEF Next, Terminated
<1>5. WriteReplyLost(u) \/ WriteReplied(u, updateUser)
  BY <1>1, <1>4 DEF Begin, TaskStep, WriteStep, Retry, RejectGrant, RejectUnmapped,
                    Cancelled, CacheHit, CacheMiss, getSObject, QueryFails,
                    WriteFails, Reject, Read
<1>6. u = t
  BY <1>1, <1>5 DEF WriteReplyLost, WriteReplied
<1> QED
  BY <1>5, <1>6 DEF WriteReplyLost, WriteReplied, Replies

(* No write of a handler hits another user or another field, and none but  *)
(* a role revoke changes a field that already is as the request wants it.  *)
THEOREM WritesAreNotCollateral == Spec => NoCollateral
<1> DEFINE Harmless == \A t \in Tasks, s \in Slots :
              WrittenBy(t, s) =>
                /\ s = SlotOf(t)
                /\ ~(req[t].op = "Revoke" /\ Field(t) = "UserRoleId") => ~Satisfied(t)
<1>1. Inv /\ [Next]_clientVars => Harmless
  <2> SUFFICES ASSUME Inv, [Next]_clientVars, NEW t \in Tasks, NEW s \in Slots,
                      WrittenBy(t, s)
               PROVE  /\ s = SlotOf(t)
                      /\ ~(req[t].op = "Revoke" /\ Field(t) = "UserRoleId") => ~Satisfied(t)
    OBVIOUS
  <2>1. PICK reply \in Replies : Serve(t, reply)
    BY WriteIsServed
  <2>2. task[t].call.op = "update" /\ CallResult(task[t].call) \in Allowed[req[t]]
    BY DEF Inv, UpdatesOnly, ProvisionerInv, WriteAllowed, WrittenBy
  <2>3. s = SlotOf(t) /\ org[s].value # task[t].call.value
    BY <2>1, <2>2, ServeChanges DEF WrittenBy, Inv, ProvisionerInv
  <2>4. org[s].value # CallResult(task[t].call) /\ org[s] # NotFound
    BY <2>2, <2>3 DEF CallResult, Inv, FieldsStayProper
  <2>5. req[t] \in Requests
    BY DEF Inv, ProvisionerInv, ClientInv, TypeOK
  <2>6. ASSUME ~(req[t].op = "Revoke" /\ Field(t) = "UserRoleId")
        PROVE  \A v \in Allowed[req[t]] : Goal[req[t]] = {v}
    BY <2>5, <2>6, AllowedCases, RequestParts DEF Field, SlotOf
  <2> QED
    BY <2>2, <2>3, <2>4, <2>6 DEF Satisfied, ValueOf
<1> QED
  BY <1>1, InvHolds, PTL DEF Spec, NoCollateral

-----------------------------------------------------------------------------
(* The refinement.                                                         *)

\* Every step of the builders is a step of the contract, or a stutter.
LEMMA StepIsContractStep ==
  ASSUME Inv, [Next]_clientVars
  PROVE  [Contract!Next]_(Contract!vars)
<1>1. ProvisionerInv /\ ClientInv
  BY DEF Inv, ProvisionerInv
<1>2. ASSUME NEW t \in Tasks, ~Unmapped(t), Read(t, Decide(t))
      PROVE  Contract!Next \/ UNCHANGED Contract!vars
  <2>1. FitDecision(req[t], Decide(t))
    BY <1>1, <1>2, DecideFit
  <2> QED
    BY <1>1, <1>2, <2>1, ReadIsContractStep
<1>3. UserEnvironment => Environment
  BY DriftProper DEF UserEnvironment, Environment
<1> QED
  BY <1>1, <1>2, <1>3, updateUserFit, EnvironmentIsContractStep, BeginIsContractStep,
     ClientStepIsContractStep, WriteRepliedIsContractStep
     DEF Next, TaskStep, Terminated, RejectGrant, RejectUnmapped, ClientStep, QueryStep

(* The role and the profile builder implement the contract of a            *)
(* provisioner: each of their steps is a step of the contract, or none.    *)
THEOREM ContractIsKept == Spec => KeepsContract
<1>1. Init => Contract!Init
  BY InitIsContractInit DEF Init
<1>2. Inv /\ [Next]_clientVars => [Contract!Next]_(Contract!vars)
  BY StepIsContractStep
<1> QED
  BY <1>1, <1>2, InvHolds, PTL DEF Spec, KeepsContract, Contract!Spec

-----------------------------------------------------------------------------
(* What the builders answer is true of the history of the field.           *)

\* What HistoryInv says of one task.
Told(t) ==
  /\ task[t].err = "Missing" /\ ~task[t].cached => Witnessed(t)
  /\ Undisturbed(t) /\ task[t].answer \in {"done", "already"} => Satisfied(t)

HistoryOf(t) == FreshRead(t) /\ NoErrorYet(t) /\ Absent \notin seen[t] /\ Told(t)

\* HistoryInv is about the tasks one by one.
LEMMA HistoryByTask == HistoryInv <=> \A t \in Tasks : HistoryOf(t)
BY DEF HistoryInv, HistoryOf, Told, ComplaintWitnessed, SettledInGoal

\* A field always has a value, which is not "no record".
LEMMA FieldHasValue ==
  ASSUME Inv, NEW s \in Slots
  PROVE  ValueOf(org[s]) # Absent /\ org[s] # NotFound
BY ValuesAssumption DEF Inv, FieldsStayProper, ProvisionerInv, ClientInv, TypeOK, Records, ValueOf

\* What is new in a history is what the field has become.
LEMMA BecomesPresent ==
  ASSUME Inv, Inv', NEW s \in Slots, NEW rec, Becomes(s, rec),
         \A u \in Tasks : Absent \notin seen[u]
  PROVE  \A u \in Tasks : Absent \notin seen'[u]
<1>1. org \in [Slots -> Records] /\ org'[s] = rec
  BY DEF Becomes, Inv, ProvisionerInv, ClientInv, TypeOK
<1>2. rec # NotFound /\ rec.value \in Values
  BY <1>1 DEF Inv, FieldsStayProper, ProvisionerInv, ClientInv, TypeOK, Records
<1>3. ValueOf(rec) # Absent
  BY <1>2, ValuesAssumption DEF ValueOf
<1>4. seen' = [u \in Tasks |-> IF Running(u) /\ SlotOf(u) = s THEN seen[u] \cup {ValueOf(rec)}
                               ELSE seen[u]]
  BY DEF Becomes
<1> QED
  BY <1>3, <1>4

\* The user is never gone.
LEMMA NeverAbsent ==
  ASSUME Inv, Inv', [Next]_clientVars, \A u \in Tasks : Absent \notin seen[u]
  PROVE  \A u \in Tasks : Absent \notin seen'[u]
<1>0. ClientInv /\ ProvisionerInv /\ seen \in [Tasks -> SUBSET SlotValues]
  BY DEF Inv, ProvisionerInv, ClientInv, TypeOK
<1>1. CASE UserEnvironment
  <2>1. CASE ClearCaches \/ \E s \in Slots : CacheEvict(s)
    BY <2>1 DEF ClearCaches, CacheEvict
  <2>2. ASSUME NEW s \in Slots, UserDrift(s) PROVE \A u \in Tasks : Absent \notin seen'[u]
    <3>1. PICK v \in Values : Becomes(s, [org[s] EXCEPT !.value = v])
      BY <2>2 DEF UserDrift, DriftUpdate
    <3> QED
      BY <3>1, BecomesPresent
  <2> QED
    BY <1>1, <2>1, <2>2 DEF UserEnvironment
<1>2. ASSUME NEW t \in Tasks, Begin(t) PROVE \A u \in Tasks : Absent \notin seen'[u]
  <2>1. seen' = [seen EXCEPT ![t] = {ValueOf(org[SlotOf(t)])}] /\ SlotOf(t) \in Slots
    BY <1>0, <1>2, SlotIsSlot DEF Begin
  <2>2. ValueOf(org[SlotOf(t)]) # Absent
    BY <2>1, FieldHasValue
  <2> QED
    BY <1>0, <2>1, <2>2
<1>3. ASSUME NEW t \in Tasks, NEW reply \in Replies, Serve(t, reply)
      PROVE  \A u \in Tasks : Absent \notin seen'[u]
  <2>1. SlotOf(t) \in Slots
    BY <1>0, SlotIsSlot
  <2>2. seen' = seen \/ \E rec \in Records : Becomes(SlotOf(t), rec)
    BY <1>0, <1>3, ServeEffect
  <2> QED
    BY <2>1, <2>2, BecomesPresent
<1>4. ASSUME NEW t \in Tasks, TaskStep(t) PROVE \A u \in Tasks : Absent \notin seen'[u]
  <2>1. CASE WriteReplyLost(t) \/ WriteReplied(t, updateUser)
    BY <1>3, <2>1 DEF WriteReplyLost, WriteReplied, Replies
  <2>2. CASE ~(WriteReplyLost(t) \/ WriteReplied(t, updateUser))
    <3>1. seen' = seen
      BY <1>4, <2>2 DEF TaskStep, WriteStep, Retry, RejectGrant, RejectUnmapped, Cancelled,
                        CacheHit, CacheMiss, getSObject, QueryFails, WriteFails, Reject, Read
    <3> QED
      BY <3>1
  <2> QED
    BY <2>1, <2>2
<1>5. CASE UNCHANGED clientVars
  BY <1>5 DEF clientVars
<1> QED
  BY <1>1, <1>2, <1>4, <1>5 DEF Next, Terminated

\* Only a role revoke complains of a user it has, and only of another role.
LEMMA ComplaintInGoal ==
  ASSUME Inv, NEW t \in Tasks, ~Unmapped(t)
  PROVE  /\ Decide(t).outcome \in {"write", "Missing"}
         /\ Decide(t).outcome = "Missing" /\ task[t].rec # NotFound =>
              ValueOf(task[t].rec) \in Goal[req[t]]
<1>0. /\ ClientInv /\ req[t] \in Requests /\ task[t].rec \in Records
      /\ Complain.outcome = "Missing" /\ \A c : Make(c).outcome = "write"
  BY DEF Inv, ProvisionerInv, ClientInv, TypeOK, TaskStates, Complain, Make
<1>1. Decide(t).outcome \in {"write", "Missing"}
  BY <1>0, DecideCases
<1>2. ASSUME Decide(t).outcome = "Missing", task[t].rec # NotFound
      PROVE  ValueOf(task[t].rec) \in Goal[req[t]]
  <2> USE <1>0, <1>2, RequestParts DEF Decide, Field, SlotOf
  <2>1. CASE req[t].op = "Grant"
    BY <2>1 DEF Grant, AddUserToRole, AddUserToProfile, setValue, setOneValue
  <2>2. CASE req[t].op = "Revoke" /\ FieldOf[req[t].slot] = "ProfileId"
    BY <2>2 DEF Revoke, SetNewUserProfile, setOneValue
  <2>3. CASE req[t].op = "Revoke" /\ FieldOf[req[t].slot] = "UserRoleId"
    <3>1. task[t].rec.value # req[t].value
      BY <2>3 DEF Revoke, RemoveUserFromRole, clearValue
    <3>2. Goal[req[t]] = SlotValues \ {req[t].value}
      BY <2>3, UserFieldAssumption DEF UserFieldGoal
    <3> QED
      BY <3>1, <3>2 DEF ValueOf, SlotValues, Records
  <2> QED
    BY <2>1, <2>2, <2>3
<1> QED
  BY <1>1, <1>2

\* A step of others changes nothing a task has said.
LEMMA HistoryAside ==
  ASSUME Inv, Inv', NEW t \in Tasks, HistoryOf(t), AsideOf(t), Absent \notin seen'[t]
  PROVE  HistoryOf(t)'
<1>1. ClientInv /\ ClientInv' /\ req' = req /\ task'[t] = task[t] /\ seen[t] \subseteq seen'[t]
  BY DEF Inv, ProvisionerInv, AsideOf
<1>2. FreshRead(t)' /\ NoErrorYet(t)'
  BY <1>1, FreshAside DEF HistoryOf, NoErrorYet
<1>3. Told(t)'
  <2>1. Undisturbed(t)' => Undisturbed(t)
    BY DEF AsideOf
  <2>2. Witnessed(t) => Witnessed(t)'
    BY <1>1 DEF Witnessed
  <2>3. task[t].answer \in {"done", "already"} /\ Undisturbed(t)' => Satisfied(t)'
    BY <1>1, SettledAside DEF HistoryOf, Told
  <2> QED
    BY <1>1, <2>1, <2>2, <2>3 DEF HistoryOf, Told
<1> QED
  BY <1>2, <1>3 DEF HistoryOf

\* Queries, failures and lost replies say nothing of the field.
LEMMA HistoryLayer ==
  ASSUME Inv, NEW t \in Tasks, HistoryOf(t), Absent \notin seen'[t],
         Begin(t) \/ ClientStep(t) \/ Reject(t)
  PROVE  HistoryOf(t)' /\ StepOf(t)
<1>1. (Looking(t) \/ Writing(t)) /\ SaysNothing(t)' /\ NoErrorYet(t)' /\ StepOf(t)
  BY LayerSaysNothing DEF Inv, ProvisionerInv, HistoryOf, Looking, Writing
<1>2. FreshRead(t)'
  BY <1>1, FreshLooking, FreshWriting DEF Inv, ProvisionerInv, HistoryOf
<1> QED
  BY <1>1, <1>2 DEF HistoryOf, Told, SaysNothing

\* A complaint on a record that was read is true of it.
LEMMA HistoryRead ==
  ASSUME Inv, NEW t \in Tasks, HistoryOf(t), ~Unmapped(t), Read(t, Decide(t))
  PROVE  HistoryOf(t)' /\ StepOf(t)
<1>0. PICK d : d = Decide(t)
  OBVIOUS
<1>1. /\ ClientInv /\ d \in Decisions /\ Read(t, d) /\ FreshRead(t) /\ NoErrorYet(t)
      /\ Absent \notin seen[t]
  BY <1>0, DecideFit DEF FitDecision, Inv, ProvisionerInv, HistoryOf
<1>2. /\ d.outcome \in {"write", "Missing"}
      /\ d.outcome = "Missing" /\ task[t].rec # NotFound => ValueOf(task[t].rec) \in Goal[req[t]]
  BY <1>0, ComplaintInGoal
<1>3. /\ Looking(t) /\ StepOf(t) /\ Running(t) /\ Holding(t) /\ UNCHANGED <<org, seen, req>>
      /\ d.outcome = "write" => /\ task'[t].pc = "write"
                                /\ task'[t].answer = task[t].answer /\ task'[t].err = task[t].err
      /\ d.outcome # "write" => task'[t] = Outcome(t, d.outcome)
  BY <1>1, ReadIsLooking DEF Looking
<1>4. FreshRead(t)'
  BY <1>1, <1>3, FreshLooking
<1>5. CASE d.outcome = "write"
  <2>1. task[t].answer = "none" /\ task[t].err = "none"
    BY <1>1, <1>3 DEF Running, NoErrorYet, ClientInv, AnswerLast
  <2> QED
    BY <1>1, <1>3, <1>4, <1>5, <2>1 DEF HistoryOf, Told, NoErrorYet
<1>6. CASE d.outcome = "Missing"
  <2>1. "Missing" \in Errors /\ "Missing" # "Transient" /\ task'[t] = Outcome(t, "Missing")
    BY <1>3, <1>6 DEF Errors
  <2>2. /\ task'[t].pc = "answered" /\ task'[t].answer = "error"
        /\ task'[t].cached = task[t].cached
    BY <1>1, <1>3, <2>1, OutcomeAnswers
  <2>3. ~task'[t].cached => Witnessed(t)'
    <3>1. ~task[t].cached => ValueOf(task[t].rec) \in seen[t] /\ task[t].rec # NotFound
      BY <1>1, <1>3 DEF FreshRead, ValueOf
    <3> QED
      BY <1>2, <1>3, <1>6, <2>2, <3>1 DEF Witnessed
  <2> QED
    BY <1>1, <1>3, <1>4, <2>2, <2>3 DEF HistoryOf, Told, NoErrorYet
<1> QED
  BY <1>2, <1>5, <1>6

\* A confirmed update is there; another reply is an error of the call.
LEMMA HistoryReplied ==
  ASSUME Inv, NEW t \in Tasks, HistoryOf(t), Absent \notin seen'[t], WriteReplied(t, updateUser)
  PROVE  HistoryOf(t)' /\ StepOf(t)
<1>0. ProvisionerInv /\ ClientInv /\ NoErrorYet(t)
  BY DEF Inv, ProvisionerInv, HistoryOf
<1>1. PICK reply \in Replies : /\ Serve(t, reply)
                              /\ updateUser[reply] \in {"done", "already"} \cup Errors
                              /\ task'[t] = Outcome(t, updateUser[reply])
  BY <1>0, updateUserFit, RepliedIsWriting
<1>2. Writing(t) /\ Running(t) /\ StepOf(t) /\ task[t].pc = "write" /\ req' = req
  BY <1>0, updateUserFit, RepliedIsWriting DEF Writing, StepOf
<1>3. FreshRead(t)'
  BY <1>2, FreshWriting
<1>4. /\ task'[t].pc = "answered"
      /\ reply = "ok" => task'[t].answer = "done" /\ task'[t].err = "none"
      /\ reply = "duplicate" => task'[t].answer = "error" /\ task'[t].err = "Duplicate"
      /\ reply = "notFound" => task'[t].answer = "error" /\ task'[t].err = "NotFound"
  BY <1>0, <1>1, <1>2, OutcomeAnswers DEF updateUser, Replies, Errors
<1>5. reply = "ok" => Satisfied(t)'
  BY <1>0, <1>1, <1>2, AppliedSatisfies
<1> QED
  BY <1>2, <1>3, <1>4, <1>5 DEF HistoryOf, Told, NoErrorYet, Replies

\* Every step of the builders keeps what their answers say.
LEMMA NextKeepsHistory ==
  ASSUME Inv, Inv', [Next]_clientVars, HistoryInv
  PROVE  HistoryInv'
<1> SUFFICES ASSUME NEW t \in Tasks PROVE HistoryOf(t)'
  BY DEF HistoryInv, HistoryOf, Told, ComplaintWitnessed, SettledInGoal
<1>1. \A u \in Tasks : HistoryOf(u)
  BY HistoryByTask
<1>2. \A u \in Tasks : Absent \notin seen'[u]
  BY <1>1, NeverAbsent DEF HistoryOf
<1>3. CASE UserEnvironment \/ Terminated \/ UNCHANGED clientVars
  <2>1. Environment \/ UNCHANGED clientVars
    BY <1>3, DriftProper DEF UserEnvironment, Environment, Terminated
  <2> QED
    BY <1>1, <1>2, <2>1, EnvironmentIsAside, HistoryAside DEF Inv, ProvisionerInv
<1>4. ASSUME NEW u \in Tasks, Begin(u) \/ TaskStep(u) PROVE HistoryOf(t)'
  <2>1. HistoryOf(u)' /\ StepOf(u)
    BY <1>1, <1>2, <1>4, HistoryLayer, HistoryRead, HistoryReplied
       DEF TaskStep, RejectGrant, RejectUnmapped, ClientStep, QueryStep
  <2> QED
    BY <1>1, <1>2, <2>1, OtherIsAside, HistoryAside DEF Inv, ProvisionerInv
<1> QED
  BY <1>3, <1>4 DEF Next

(* The users handlers hold and their answers stay true to the history of   *)
(* the fields, in every reachable state.                                   *)
THEOREM HistoryHolds == Spec => []HistoryInv
<1>1. Init => HistoryInv
  <2> SUFFICES ASSUME Init, NEW t \in Tasks PROVE HistoryOf(t)
    BY HistoryByTask
  <2>1. /\ task[t].pc = "idle" /\ task[t].answer = "none" /\ task[t].err = "none"
        /\ seen[t] = {}
    BY DEF Init, ClientInit, IdleTask
  <2> QED
    BY <2>1 DEF HistoryOf, Told, FreshRead, NoErrorYet, Holding
<1>2. Inv /\ Inv' /\ HistoryInv /\ [Next]_clientVars => HistoryInv'
  BY NextKeepsHistory
<1> QED
  BY <1>1, <1>2, InvHolds, PTL DEF Spec

(* When a role revoke complains of a missing role on a user it just read,  *)
(* the role was gone at some moment of the call.                           *)
THEOREM ComplaintIsWitnessed == Spec => []ComplaintWitnessed
BY HistoryHolds, PTL DEF HistoryInv

(* When nobody else touches the field, success means that it is as         *)
(* requested, after any number of attempts and with any cached user.       *)
THEOREM SuccessIsSettled == Spec => []SettledInGoal
BY HistoryHolds, PTL DEF HistoryInv
-----------------------------------------------------------------------------
(* The retry loop ends.                                                    *)

\* Every step of the builder keeps the count of attempts.
LEMMA StepCounts ==
  ASSUME Inv, AttemptsBounded, [Next]_clientVars
  PROVE  Counted
<1>1. ClientInv
  BY DEF Inv, ProvisionerInv
<1>2. ASSUME NEW t \in Tasks, ~Unmapped(t), Read(t, Decide(t)) PROVE Counted
  <2>1. Decide(t) \in Decisions
    BY <1>1, <1>2, DecideFit DEF FitDecision
  <2> QED
    BY <1>1, <1>2, <2>1, ReadCounts
<1>3. ASSUME NEW t \in Tasks, WriteReplied(t, updateUser) PROVE Counted
  BY <1>1, <1>3, updateUserFit, WriteRepliedCounts DEF FitTranslation
<1>4. UserEnvironment \/ UNCHANGED clientVars => task' = task
  BY <1>1, EnvironmentQuiet, DriftProper DEF clientVars, UserEnvironment, Environment
<1> QED
  BY <1>1, <1>2, <1>3, <1>4, BeginCounts, ClientStepCounts, RejectCounts, IdleCounts
     DEF Next, TaskStep, Terminated, RejectGrant, RejectUnmapped, ClientStep, QueryStep

(* Every step of a handler, and of the retry loop around it, comes closer  *)
(* to the answer of its call, for every MaxAttempts and any number of      *)
(* tasks: no call makes more than 6 * MaxAttempts + 6 steps.               *)
THEOREM HandlersDoRunOut == Spec => HandlersRunOut
<1>1. Init => AttemptsBounded
  BY InitCounts DEF Init
<1>2. Inv /\ AttemptsBounded /\ [Next]_clientVars =>
        /\ AttemptsBounded'
        /\ [\A t \in Tasks :
              task'[t] # task[t] => Remaining(t)' \in 0 .. Remaining(t) - 1]_clientVars
  BY StepCounts DEF Counted
<1> QED
  BY <1>1, <1>2, InvHolds, PTL DEF Spec, HandlersRunOut
=============================================================================
