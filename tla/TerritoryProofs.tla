-------------------------- MODULE TerritoryProofs ---------------------------
(***************************************************************************)
(* Theorems about the territory builder, for any number of tasks,          *)
(* associations, roles, retries and changes by others, with the cache on   *)
(* or off.                                                                 *)
(***************************************************************************)
EXTENDS TerritoryProvisioning, ProvisionerProofs

-----------------------------------------------------------------------------
(* The decisions.                                                          *)

\* The operation, the slot and the permission of a request.
LEMMA RequestParts ==
  ASSUME NEW r \in Requests
  PROVE  /\ r \in TerritoryRequests
         /\ r.op \in {"Grant", "Revoke"}
         /\ r.slot \in Slots
         /\ r.perm = Member \/ (r.perm \in Roles /\ r.perm \in Values)
BY TerritoryAssumption DEF TerritoryRequests, Permissions

\* Both handlers answer or make one well-formed call.
LEMMA DecideType ==
  ASSUME NEW r \in Requests, NEW rec \in Records
  PROVE  Decide(r, rec) \in Decisions
<1> USE RequestParts, ValuesAssumption
<1>1. /\ Already \in Decisions
      /\ \A c \in Calls : Make(c) \in Decisions
      /\ DeleteObject \in Calls
      /\ \A v \in Values : CreateObject(v) \in Calls /\ UpdateObject(v) \in Calls
  BY DEF Already, Make, Decisions, Calls, NoCall, DeleteObject, CreateObject, UpdateObject
<1>2. EmptyValue \in Values /\ (r.perm # Member => r.perm \in Values)
  OBVIOUS
<1>3. Grant(r.perm, rec) \in Decisions
  BY <1>1, <1>2 DEF Grant, AddUserToTerritory, AddUserToTerritoryWithRole,
                    SetUserTerritoryRole
<1>4. Revoke(r.perm, rec) \in Decisions
  BY <1>1, <1>2 DEF Revoke, RemoveUserFromTerritory, ClearUserTerritoryRole
<1> QED
  BY <1>3, <1>4 DEF Decide

\* Every call a handler decides on, whatever it read, is allowed.
LEMMA DecisionAllowed ==
  ASSUME NEW r \in Requests, NEW rec \in Records, NEW c,
         Decide(r, rec) = Make(c)
  PROVE  CallResult(c) \in Allowed[r]
<1> USE RequestParts, ValuesAssumption, TerritoryAssumption DEF TerritoryAllowed
<1>0. Already.outcome = "already" /\ Make(c).outcome = "write" /\ Make(c).call = c
      /\ \A d : Make(d).call = d
  BY DEF Already, Make
<1>1. CASE r.op = "Grant" /\ r.perm = Member
  <2>1. c = CreateObject(EmptyValue)
    BY <1>0, <1>1 DEF Decide, Grant, AddUserToTerritory
  <2>2. Allowed[r] = {EmptyValue}
    BY <1>1
  <2> QED
    BY <2>1, <2>2 DEF CallResult, CreateObject
<1>2. CASE r.op = "Grant" /\ r.perm # Member
  <2>1. c = CreateObject(r.perm) \/ c = UpdateObject(r.perm)
    BY <1>0, <1>2 DEF Decide, Grant, AddUserToTerritoryWithRole, SetUserTerritoryRole
  <2>2. Allowed[r] = {r.perm}
    BY <1>2
  <2> QED
    BY <2>1, <2>2 DEF CallResult, CreateObject, UpdateObject
<1>3. CASE r.op = "Revoke" /\ r.perm = Member
  <2>1. c = DeleteObject
    BY <1>0, <1>3 DEF Decide, Revoke, RemoveUserFromTerritory
  <2>2. Allowed[r] = {Absent}
    BY <1>3
  <2> QED
    BY <2>1, <2>2 DEF CallResult, DeleteObject
<1>4. CASE r.op = "Revoke" /\ r.perm # Member
  <2>1. c = UpdateObject(EmptyValue)
    BY <1>0, <1>4 DEF Decide, Revoke, ClearUserTerritoryRole
  <2>2. Allowed[r] = {EmptyValue}
    BY <1>4
  <2> QED
    BY <2>1, <2>2 DEF CallResult, UpdateObject
<1> QED
  BY <1>1, <1>2, <1>3, <1>4

-----------------------------------------------------------------------------
(* The inductive invariant.                                                *)

\* The translation of write replies is one the common lemmas cover.
LEMMA AfterWriteFit == FitTranslation(AfterWrite)
BY DEF FitTranslation, AfterWrite, Replies, Errors

\* A decision of the builder is well formed, and its write is allowed.
LEMMA DecideFit ==
  ASSUME NEW r \in Requests, NEW rec \in Records
  PROVE  FitDecision(r, Decide(r, rec))
<1> DEFINE d == Decide(r, rec)
<1>1. d \in Decisions
  BY DecideType
<1> HIDE DEF d
<1>2. ASSUME d.outcome = "write" PROVE CallResult(d.call) \in Allowed[r]
  <2>1. d = Make(d.call)
    BY <1>1, <1>2 DEF Decisions, Make
  <2> QED
    BY <2>1, DecisionAllowed DEF d
<1> QED
  BY <1>1, <1>2 DEF FitDecision, d

\* A task that did not come to a write in this step keeps its decision.
LEMMA DecidedKept ==
  ASSUME Inv, req' = req,
         \A u \in Tasks : task'[u].pc = "write" => task'[u] = task[u]
  PROVE  WriteDecided'
BY DEF Inv, WriteDecided

\* Every step of the builder keeps the inductive invariant.
LEMMA NextKeepsInv ==
  ASSUME Inv, [Next]_clientVars
  PROVE  Inv'
<1>0. ProvisionerInv /\ ClientInv
  BY DEF Inv, ProvisionerInv
<1>1. CASE Environment
  <2>1. ProvisionerInv' /\ Quiet
    BY <1>0, <1>1, EnvironmentKeeps, EnvironmentQuiet
  <2> QED
    BY <2>1, DecidedKept DEF Inv, Quiet
<1>2. ASSUME NEW t \in Tasks, Begin(t) PROVE Inv'
  <2>1. ProvisionerInv'
    BY <1>0, <1>2, BeginKeeps
  <2>2. req' = req /\ \A u \in Tasks : task'[u].pc = "write" => task'[u] = task[u]
    BY <1>0, <1>2, BeginQuiet
  <2> QED
    BY <2>1, <2>2, DecidedKept DEF Inv
<1>3. ASSUME NEW t \in Tasks, ClientStep(t) PROVE Inv'
  <2>1. ProvisionerInv' /\ Quiet
    BY <1>0, <1>3, ClientStepKeeps, ClientStepQuiet
  <2> QED
    BY <2>1, DecidedKept DEF Inv, Quiet
<1>4. ASSUME NEW t \in Tasks, Reject(t) PROVE Inv'
  <2>1. ProvisionerInv' /\ Quiet
    BY <1>0, <1>4, RejectKeeps
  <2> QED
    BY <2>1, DecidedKept DEF Inv, Quiet
<1>5. ASSUME NEW t \in Tasks, Read(t, Decide(req[t], task[t].rec)) PROVE Inv'
  <2> DEFINE d == Decide(req[t], task[t].rec)
  <2>1. FitDecision(req[t], d) /\ d \in Decisions
    BY <1>0, DecideFit, DecideType DEF ClientInv, TypeOK, TaskStates
  <2>2. ProvisionerInv'
    BY <1>0, <1>5, <2>1, ReadKeeps
  <2>3. /\ Running(t) /\ req' = req
        /\ task \in [Tasks -> TaskStates]
        /\ task' = [task EXCEPT ![t] =
             IF d.outcome = "write" THEN [task[t] EXCEPT !.pc = "write", !.call = d.call]
             ELSE Outcome(t, d.outcome)]
    BY <1>0, <1>5 DEF Read, Running, ClientInv, TypeOK
  <2> HIDE DEF d
  <2>4. CASE d.outcome = "write"
    <3>1. /\ task'[t].rec = task[t].rec /\ task'[t].call = d.call
          /\ \A u \in Tasks : u # t => task'[u] = task[u]
      BY <2>3, <2>4 DEF TaskStates
    <3>2. d = Make(d.call)
      BY <2>1, <2>4 DEF Decisions, Make
    <3>3. WriteDecided'
      BY <2>3, <3>1, <3>2 DEF Inv, WriteDecided, d
    <3> QED
      BY <2>2, <3>3 DEF Inv
  <2>5. CASE d.outcome # "write"
    <3>1. d.outcome \in {"done", "already"} \cup Errors
      BY <2>1, <2>5 DEF Decisions, Errors
    <3>2. task'[t].pc # "write"
      BY <1>0, <2>3, <2>5, <3>1, OutcomeShape
    <3> QED
      BY <2>2, <2>3, <3>2, DecidedKept DEF Inv
  <2> QED
    BY <2>4, <2>5
<1>6. ASSUME NEW t \in Tasks, WriteReplied(t, AfterWrite) PROVE Inv'
  <2>1. /\ ProvisionerInv'
        /\ task'[t].pc # "write" /\ req' = req
        /\ \A u \in Tasks : u # t => task'[u] = task[u]
    BY <1>0, <1>6, AfterWriteFit, WriteRepliedKeeps
  <2> QED
    BY <2>1, DecidedKept DEF Inv
<1>7. CASE UNCHANGED clientVars
  <2>1. ProvisionerInv' /\ UNCHANGED <<task, req>>
    BY <1>0, <1>7, StutterKeeps DEF clientVars
  <2> QED
    BY <2>1, DecidedKept DEF Inv
<1> QED
  BY <1>1, <1>2, <1>3, <1>4, <1>5, <1>6, <1>7 DEF Next, TaskStep, Terminated

(* The invariant holds in every reachable state: the layer's invariants,   *)
(* the decision behind every write, and the witness of every success.      *)
THEOREM InvHolds == Spec => []Inv
<1>1. ClientInit => Inv
  <2>1. ClientInit => WriteDecided
    BY DEF WriteDecided, ClientInit, IdleTask
  <2> QED
    BY <2>1, InitKeeps DEF Inv
<1>2. Inv /\ [Next]_clientVars => Inv'
  BY NextKeepsInv
<1> QED
  BY <1>1, <1>2, PTL DEF Spec

\* Every variable always has its type.
THEOREM TypeCorrect == Spec => []TypeOK
BY InvHolds, PTL DEF Inv, ProvisionerInv, ClientInv

(* No Id a handler read, from Salesforce or from the cache, ever belongs   *)
(* to another user's or territory's association.                           *)
THEOREM IdsAreOwned == Spec => []IdsOwned
BY InvHolds, PTL DEF Inv, ProvisionerInv, ClientInv

(* Plain success is never reported for a state the association never was   *)
(* in while the call ran.                                                  *)
THEOREM SuccessIsWitnessed == Spec => []DoneWitnessed
BY InvHolds, PTL DEF Inv, ProvisionerInv

-----------------------------------------------------------------------------
(* Writes hit their own slot, and only where there is something to do.     *)

\* A slot that changes at the hand of a task was changed by its own write.
LEMMA WriteIsServed ==
  ASSUME Inv, [Next]_clientVars, NEW t \in Tasks, NEW s \in Slots, WrittenBy(t, s)
  PROVE  \E reply \in Replies : Serve(t, reply)
<1>1. task'[t] # task[t] /\ org' # org /\ task \in [Tasks -> TaskStates]
  BY DEF WrittenBy, Inv, ProvisionerInv, ClientInv, TypeOK
<1>2. ~Environment
  BY <1>1, EnvironmentQuiet DEF Inv, ProvisionerInv
<1>3. ~UNCHANGED clientVars
  BY <1>1 DEF clientVars
<1>4. PICK u \in Tasks : Begin(u) \/ TaskStep(u)
  BY <1>2, <1>3 DEF Next, Terminated
<1>5. WriteReplyLost(u) \/ WriteReplied(u, AfterWrite)
  BY <1>1, <1>4 DEF Begin, TaskStep, ClientStep, QueryStep, WriteStep, Retry,
                    Cancelled, CacheHit, CacheMiss, getSObject, QueryFails,
                    WriteFails, Reject, Read
<1>6. u = t
  BY <1>1, <1>5 DEF WriteReplyLost, WriteReplied
<1> QED
  BY <1>5, <1>6 DEF WriteReplyLost, WriteReplied, Replies

(* No write of a handler hits another user's or territory's association,   *)
(* and none but a role revoke changes an association that already is as    *)
(* the request wants it.                                                   *)
THEOREM WritesAreNotCollateral == Spec => NoCollateral
<1> DEFINE Harmless == \A t \in Tasks, s \in Slots :
              WrittenBy(t, s) =>
                /\ s = SlotOf(t)
                /\ ~(req[t].op = "Revoke" /\ IsRole(req[t])) => ~Satisfied(t)
<1>1. Inv /\ [Next]_clientVars => Harmless
  <2> SUFFICES ASSUME Inv, [Next]_clientVars, NEW t \in Tasks, NEW s \in Slots,
                      WrittenBy(t, s)
               PROVE  /\ s = SlotOf(t)
                      /\ ~(req[t].op = "Revoke" /\ IsRole(req[t])) => ~Satisfied(t)
    OBVIOUS
  <2>1. PICK reply \in Replies : Serve(t, reply)
    BY WriteIsServed
  <2>2. /\ s = SlotOf(t)
        /\ task[t].call.op = "create" <=> org[s] = NotFound
        /\ task[t].call.op = "update" => org[s].value # task[t].call.value
    BY <2>1, ServeChanges DEF WrittenBy, Inv, ProvisionerInv
  <2>3. /\ req[t] \in Requests
        /\ org[s] \in Records /\ org[s].value \in Values
        /\ task[t].rec \in Records
    BY DEF Inv, ProvisionerInv, ClientInv, TypeOK, TaskStates, Records
  <2>4. Decide(req[t], task[t].rec) = Make(task[t].call)
    BY DEF Inv, WriteDecided, WrittenBy
  <2>5. ASSUME ~(req[t].op = "Revoke" /\ IsRole(req[t])) PROVE ~Satisfied(t)
    <3> USE RequestParts, ValuesAssumption, TerritoryAssumption, <2>3 DEF TerritoryGoal
    <3>0. Already.outcome = "already" /\ \A d : Make(d).outcome = "write" /\ Make(d).call = d
      BY DEF Already, Make
    <3>1. CASE req[t].op = "Grant" /\ req[t].perm = Member
      <4>1. task[t].call = CreateObject(EmptyValue)
        BY <2>4, <3>0, <3>1 DEF Decide, Grant, AddUserToTerritory
      <4>2. org[s] = NotFound
        BY <2>2, <4>1 DEF CreateObject
      <4>3. Goal[req[t]] = Values
        BY <3>1
      <4> QED
        BY <2>2, <4>2, <4>3 DEF Satisfied, ValueOf
    <3>2. CASE req[t].op = "Grant" /\ req[t].perm # Member
      <4>1. task[t].call \in {CreateObject(req[t].perm), UpdateObject(req[t].perm)}
        BY <2>4, <3>0, <3>2 DEF Decide, Grant, AddUserToTerritoryWithRole,
                                SetUserTerritoryRole
      <4>2. org[s] = NotFound \/ org[s].value # req[t].perm
        BY <2>2, <4>1 DEF CreateObject, UpdateObject
      <4>3. Goal[req[t]] = {req[t].perm}
        BY <3>2
      <4> QED
        BY <2>2, <3>2, <4>2, <4>3 DEF Satisfied, ValueOf
    <3>3. CASE req[t].op = "Revoke" /\ req[t].perm = Member
      <4>1. task[t].call = DeleteObject
        BY <2>4, <3>0, <3>3 DEF Decide, Revoke, RemoveUserFromTerritory
      <4>2. org[s] # NotFound
        BY <2>2, <4>1 DEF DeleteObject
      <4>3. Goal[req[t]] = {Absent}
        BY <3>3
      <4> QED
        BY <2>2, <4>2, <4>3 DEF Satisfied, ValueOf
    <3> QED
      BY <2>5, <3>1, <3>2, <3>3 DEF IsRole
  <2> QED
    BY <2>2, <2>5
<1> QED
  BY <1>1, InvHolds, PTL DEF Spec, NoCollateral

-----------------------------------------------------------------------------
(* What the answers of the builder say about the history of the slot.      *)

\* The builder answers "already" on a record that satisfies the request.
LEMMA AlreadyInGoal ==
  ASSUME NEW r \in Requests, NEW rec \in Records, Decide(r, rec).outcome # "write"
  PROVE  Decide(r, rec).outcome = "already" /\ ValueOf(rec) \in Goal[r]
<1> USE RequestParts, ValuesAssumption, TerritoryAssumption
<1>0. Already.outcome = "already" /\ (\A c : Make(c).outcome = "write") /\ rec.value \in Values
  BY DEF Already, Make, Records
<1>1. CASE r.op = "Grant" /\ r.perm = Member
  <2>1. Decide(r, rec) = Already /\ rec # NotFound /\ Goal[r] = Values
    BY <1>0, <1>1 DEF Decide, Grant, AddUserToTerritory, TerritoryGoal
  <2> QED
    BY <1>0, <2>1 DEF ValueOf
<1>2. CASE r.op = "Grant" /\ r.perm # Member
  <2>1. Decide(r, rec) = Already /\ rec # NotFound /\ rec.value = r.perm /\ Goal[r] = {r.perm}
    BY <1>0, <1>2 DEF Decide, Grant, AddUserToTerritoryWithRole, SetUserTerritoryRole,
                      TerritoryGoal
  <2> QED
    BY <1>0, <2>1 DEF ValueOf
<1>3. CASE r.op = "Revoke" /\ r.perm = Member
  <2>1. Decide(r, rec) = Already /\ rec = NotFound /\ Goal[r] = {Absent}
    BY <1>0, <1>3 DEF Decide, Revoke, RemoveUserFromTerritory, TerritoryGoal
  <2> QED
    BY <1>0, <2>1 DEF ValueOf
<1>4. CASE r.op = "Revoke" /\ r.perm # Member
  <2>1. /\ Decide(r, rec) = Already /\ (rec = NotFound \/ rec.value # r.perm)
        /\ Goal[r] = SlotValues \ {r.perm}
    BY <1>0, <1>4 DEF Decide, Revoke, ClearUserTerritoryRole, TerritoryGoal
  <2> QED
    BY <1>0, <1>4, <2>1 DEF ValueOf, SlotValues
<1> QED
  BY <1>1, <1>2, <1>3, <1>4

\* It creates where it found nothing, and names an Id only where it found one.
LEMMA WriteFitsRecord ==
  ASSUME NEW r \in Requests, NEW rec \in Records, NEW c, Decide(r, rec) = Make(c)
  PROVE  /\ c.op = "create" => rec = NotFound /\ r.op = "Grant"
         /\ c.op \in {"update", "delete"} => rec # NotFound
<1> USE RequestParts
<1>0. Already.outcome = "already" /\ \A d : Make(d).outcome = "write" /\ Make(d).call = d
  BY DEF Already, Make
<1>1. CASE r.op = "Grant"
  BY <1>0, <1>1 DEF Decide, Grant, AddUserToTerritory, AddUserToTerritoryWithRole,
                    SetUserTerritoryRole, CreateObject, UpdateObject
<1>2. CASE r.op = "Revoke"
  BY <1>0, <1>2 DEF Decide, Revoke, RemoveUserFromTerritory, ClearUserTerritoryRole,
                    UpdateObject, DeleteObject
<1> QED
  BY <1>1, <1>2

\* A request allows one value.
LEMMA OneAllowed ==
  ASSUME NEW r \in Requests
  PROVE  /\ \A v, w \in Allowed[r] : v = w
         /\ r.op = "Grant" /\ ~IsRole(r) => Goal[r] = Values
BY RequestParts, TerritoryAssumption DEF TerritoryAllowed, TerritoryGoal, IsRole

\* What HistoryInv says of one task.
Told(t) ==
  /\ (/\ task[t].answer = "already" /\ ~task[t].cached
      /\ ~(req[t].op = "Grant" /\ IsRole(req[t])))
     => Witnessed(t)
  /\ Undisturbed(t) /\ ~task[t].cached =>
       task[t].err \in {"none", "Transient", "Permanent"}
  /\ Undisturbed(t) /\ task[t].answer \in {"done", "already"} => Satisfied(t)

HistoryOf(t) ==
  FreshRead(t) /\ NoErrorYet(t) /\ CopiesSettled(t, WritesOn(req[t])) /\ Told(t)

\* HistoryInv is about the tasks one by one.
LEMMA HistoryByTask == HistoryInv <=> \A t \in Tasks : HistoryOf(t)
BY DEF HistoryInv, HistoryOf, Told, AlreadyWitnessed, NoSelfInflictedError, SettledInGoal

\* A step of others changes nothing a task has said.
LEMMA HistoryAside ==
  ASSUME Inv, Inv', NEW t \in Tasks, HistoryOf(t), AsideOf(t)
  PROVE  HistoryOf(t)'
<1>1. ClientInv /\ ClientInv' /\ req' = req /\ task'[t] = task[t] /\ seen[t] \subseteq seen'[t]
  BY DEF Inv, ProvisionerInv, AsideOf
<1>2. FreshRead(t)' /\ NoErrorYet(t)'
  BY <1>1, FreshAside DEF HistoryOf, NoErrorYet
<1>3. CopiesSettled(t, WritesOn(req[t]))'
  <2> DEFINE W == WritesOn(req[t])
  <2>1. CopiesSettled(t, W)
    BY DEF HistoryOf
  <2> HIDE DEF W
  <2> QED
    BY <1>1, <2>1, CopiesAside DEF W
<1>4. Told(t)'
  <2>1. Undisturbed(t)' => Undisturbed(t)
    BY DEF AsideOf
  <2>2. Witnessed(t) => Witnessed(t)'
    BY <1>1 DEF Witnessed
  <2>3. task[t].answer \in {"done", "already"} /\ Undisturbed(t)' => Satisfied(t)'
    BY <1>1, SettledAside DEF HistoryOf, Told
  <2> QED
    BY <1>1, <2>1, <2>2, <2>3 DEF HistoryOf, Told
<1> QED
  BY <1>2, <1>3, <1>4 DEF HistoryOf

\* A task's own step keeps what is known of its record and of the copies.
LEMMA HistoryOwn ==
  ASSUME Inv, NEW t \in Tasks, HistoryOf(t), Looking(t) \/ Writing(t)
  PROVE  /\ FreshRead(t)' /\ CopiesSettled(t, WritesOn(req[t]))'
         /\ req' = req /\ (Undisturbed(t)' => Undisturbed(t))
<1>0. PICK W : W = WritesOn(req[t])
  OBVIOUS
<1>1. /\ ProvisionerInv /\ ClientInv /\ StepOf(t) /\ req' = req
      /\ FreshRead(t) /\ CopiesSettled(t, W) /\ req[t] \in Requests
      /\ task[t].rec \in Records
  BY <1>0 DEF Inv, ProvisionerInv, ClientInv, TypeOK, TaskStates, HistoryOf, Looking, Writing,
              StepOf
<1>2. FreshRead(t)'
  BY <1>1, FreshLooking, FreshWriting
<1>3. ASSUME Writing(t) PROVE task[t].rec \in W
  <2>1. Decide(req[t], task[t].rec) = Make(task[t].call)
    BY <1>3 DEF Writing, Inv, WriteDecided
  <2> QED
    BY <1>0, <1>1, <2>1 DEF WritesOn, Make
<1>4. CopiesSettled(t, W)'
  BY <1>1, <1>3, CopiesLooking, CopiesWriting, OneAllowed
<1> QED
  BY <1>0, <1>1, <1>2, <1>4, StillUndisturbed

\* Queries, failures and lost replies say nothing of the slot.
LEMMA HistoryLayer ==
  ASSUME Inv, NEW t \in Tasks, HistoryOf(t), Begin(t) \/ ClientStep(t) \/ Reject(t)
  PROVE  HistoryOf(t)' /\ StepOf(t)
<1>1. (Looking(t) \/ Writing(t)) /\ SaysNothing(t)' /\ NoErrorYet(t)'
  BY LayerSaysNothing DEF Inv, ProvisionerInv, HistoryOf
<1>2. FreshRead(t)' /\ CopiesSettled(t, WritesOn(req[t]))'
  BY <1>1, HistoryOwn
<1> QED
  BY <1>1, <1>2 DEF HistoryOf, Told, SaysNothing, Looking, Writing

\* "Already" on a record that was read is true of it, and of the slot's own.
LEMMA HistoryRead ==
  ASSUME Inv, NEW t \in Tasks, HistoryOf(t), Read(t, Decide(req[t], task[t].rec))
  PROVE  HistoryOf(t)' /\ StepOf(t)
<1> DEFINE d == Decide(req[t], task[t].rec)
<1>1. /\ ClientInv /\ req[t] \in Requests /\ task[t].rec \in Records /\ d \in Decisions
      /\ FreshRead(t) /\ NoErrorYet(t) /\ CopiesSettled(t, WritesOn(req[t]))
  BY DecideType DEF Inv, ProvisionerInv, ClientInv, TypeOK, TaskStates, HistoryOf
<1>2. /\ d.outcome # "write" => d.outcome = "already" /\ ValueOf(task[t].rec) \in Goal[req[t]]
      /\ d.outcome # "write" => task[t].rec \notin WritesOn(req[t])
  BY <1>1, AlreadyInGoal DEF WritesOn
<1> HIDE DEF d
<1>3. /\ Looking(t) /\ Running(t) /\ Holding(t) /\ UNCHANGED <<org, seen, req>>
      /\ d.outcome = "write" => /\ task'[t].pc = "write"
                                /\ task'[t].answer = task[t].answer /\ task'[t].err = task[t].err
      /\ d.outcome # "write" => task'[t] = Outcome(t, d.outcome)
  BY <1>1, ReadIsLooking DEF d
<1>4. /\ FreshRead(t)' /\ CopiesSettled(t, WritesOn(req[t]))' /\ StepOf(t)
      /\ (Undisturbed(t)' => Undisturbed(t))
  BY <1>3, HistoryOwn DEF Looking
<1>5. CASE d.outcome = "write"
  <2>1. task[t].answer = "none" /\ task[t].err = "none"
    BY <1>1, <1>3 DEF Running, NoErrorYet, ClientInv, AnswerLast
  <2> QED
    BY <1>3, <1>4, <1>5, <2>1 DEF HistoryOf, Told, NoErrorYet
<1>6. CASE d.outcome # "write"
  <2>1. task'[t] = Outcome(t, "already")
    BY <1>2, <1>3, <1>6
  <2>2. task'[t].err = "none" /\ task'[t].pc = "answered" /\ task'[t].cached = task[t].cached
    BY <1>1, <1>3, <2>1, OutcomeAnswers
  <2>3. ~task'[t].cached => Witnessed(t)'
    <3>1. ~task[t].cached => ValueOf(task[t].rec) \in seen[t]
      BY <1>1, <1>3 DEF FreshRead
    <3> QED
      BY <1>2, <1>3, <1>6, <2>2, <3>1 DEF Witnessed
  <2>4. Undisturbed(t) => Satisfied(t)'
    <3>1. Undisturbed(t) => task[t].rec = org[SlotOf(t)]
      BY <1>1, <1>2, <1>3, <1>6 DEF CopiesSettled, Copies
    <3>2. SlotOf(t)' = SlotOf(t)
      BY <1>3 DEF SlotOf
    <3> QED
      BY <1>2, <1>3, <1>6, <3>1, <3>2 DEF Satisfied, ValueOf
  <2> QED
    BY <1>4, <2>2, <2>3, <2>4 DEF HistoryOf, Told, NoErrorYet
<1> QED
  BY <1>5, <1>6

\* What the builder makes of a reply is true of the slot.
LEMMA HistoryReplied ==
  ASSUME Inv, NEW t \in Tasks, HistoryOf(t), WriteReplied(t, AfterWrite)
  PROVE  HistoryOf(t)' /\ StepOf(t)
<1>1. PICK reply \in Replies : /\ Serve(t, reply)
                              /\ AfterWrite[reply] \in {"done", "already"} \cup Errors
                              /\ task'[t] = Outcome(t, AfterWrite[reply])
  BY AfterWriteFit, RepliedIsWriting DEF Inv, ProvisionerInv
<1>2. /\ Writing(t) /\ Running(t) /\ StepOf(t) /\ task[t].pc = "write"
  BY AfterWriteFit, RepliedIsWriting DEF Inv, ProvisionerInv, Writing
<1>3. /\ FreshRead(t)' /\ CopiesSettled(t, WritesOn(req[t]))' /\ req' = req
      /\ (Undisturbed(t)' => Undisturbed(t))
  BY <1>2, HistoryOwn
<1>4. /\ ProvisionerInv /\ ClientInv /\ req[t] \in Requests /\ task[t].rec \in Records
      /\ SlotOf(t) \in Slots /\ SlotOf(t)' = SlotOf(t) /\ org[SlotOf(t)] \in Records
      /\ FreshRead(t) /\ NoErrorYet(t) /\ CopiesSettled(t, WritesOn(req[t]))
      /\ Decide(req[t], task[t].rec) = Make(task[t].call)
  BY <1>2, <1>3, SlotIsSlot DEF Inv, ProvisionerInv, ClientInv, TypeOK, TaskStates, HistoryOf, WriteDecided
<1>5. CASE reply = "ok"
  <2>1. task'[t].answer = "done" /\ task'[t].err = "none" /\ task'[t].pc = "answered"
    BY <1>1, <1>2, <1>4, <1>5, OutcomeAnswers DEF AfterWrite
  <2>2. Satisfied(t)'
    BY <1>1, <1>2, <1>3, <1>4, <1>5, AppliedSatisfies
  <2> QED
    BY <1>2, <1>3, <2>1, <2>2 DEF HistoryOf, Told, NoErrorYet
<1>6. CASE reply = "duplicate"
  <2>1. /\ task'[t].answer = "already" /\ task'[t].err = "none" /\ task'[t].pc = "answered"
        /\ task'[t].cached = task[t].cached
    BY <1>1, <1>2, <1>4, <1>6, OutcomeAnswers DEF AfterWrite
  <2>2. /\ task[t].call.op = "create" /\ org[SlotOf(t)] # NotFound /\ UNCHANGED <<org, seen>>
    BY <1>1, <1>6 DEF Serve, ServeCreate, ServeById
  <2>3. task[t].rec = NotFound /\ req[t].op = "Grant"
    BY <1>4, <2>2, WriteFitsRecord
  <2>4. ~IsRole(req[t]) => Witnessed(t)'
    <3>1. ValueOf(org[SlotOf(t)]) \in seen[t] /\ ValueOf(org[SlotOf(t)]) \in Values
      BY <1>2, <1>4, <2>2 DEF ClientInv, SeenNow, ValueOf, Records
    <3> QED
      BY <1>3, <1>4, <2>2, <2>3, <3>1, OneAllowed DEF Witnessed
  <2>5. Undisturbed(t) => Satisfied(t)'
    <3>1. task[t].rec \in Copies(t)
      BY <1>2 DEF Copies, Holding
    <3>2. Undisturbed(t) => ValueOf(org[SlotOf(t)]) \in Allowed[req[t]]
      BY <1>4, <2>2, <2>3, <3>1 DEF CopiesSettled
    <3> QED
      BY <1>3, <1>4, <2>2, <3>2, AllowedAssumption DEF Satisfied, ValueOf
  <2> QED
    BY <1>2, <1>3, <2>1, <2>3, <2>4, <2>5 DEF HistoryOf, Told, NoErrorYet
<1>7. CASE reply = "notFound"
  <2>1. /\ task'[t].answer = "error" /\ task'[t].pc = "answered"
        /\ task'[t].cached = task[t].cached
    BY <1>1, <1>2, <1>4, <1>7, OutcomeAnswers DEF AfterWrite, Errors
  <2>2. /\ task[t].call.op \in {"update", "delete"}
        /\ org[SlotOf(t)] = NotFound \/ org[SlotOf(t)].id # task[t].rec.id
    BY <1>1, <1>4, <1>7 DEF Serve, ServeCreate, ServeById
  <2>3. task[t].rec # NotFound
    BY <1>4, <2>2, WriteFitsRecord
  <2>4. ~(Undisturbed(t) /\ ~task[t].cached)
    BY <1>2, <1>4, <2>2, <2>3 DEF FreshRead, Holding
  <2> QED
    BY <1>2, <1>3, <2>1, <2>4 DEF HistoryOf, Told, NoErrorYet
<1> QED
  BY <1>5, <1>6, <1>7 DEF Replies

\* Every step of the builder keeps what its answers say.
LEMMA NextKeepsHistory ==
  ASSUME Inv, Inv', [Next]_clientVars, HistoryInv
  PROVE  HistoryInv'
<1> SUFFICES ASSUME NEW t \in Tasks PROVE HistoryOf(t)'
  BY DEF HistoryInv, HistoryOf, Told, AlreadyWitnessed, NoSelfInflictedError, SettledInGoal
<1>1. \A u \in Tasks : HistoryOf(u)
  BY HistoryByTask
<1>2. CASE Environment \/ Terminated \/ UNCHANGED clientVars
  BY <1>1, <1>2, EnvironmentIsAside, HistoryAside DEF Inv, ProvisionerInv, Terminated
<1>3. ASSUME NEW u \in Tasks, Begin(u) \/ TaskStep(u) PROVE HistoryOf(t)'
  <2>1. HistoryOf(u)' /\ StepOf(u)
    BY <1>1, <1>3, HistoryLayer, HistoryRead, HistoryReplied DEF TaskStep
  <2> QED
    BY <1>1, <2>1, OtherIsAside, HistoryAside DEF Inv, ProvisionerInv
<1> QED
  BY <1>2, <1>3 DEF Next

(* The records handlers hold, the copies in the cache and the answers stay *)
(* true to the history of the slots, in every reachable state.             *)
THEOREM HistoryHolds == Spec => []HistoryInv
<1>1. ClientInit => HistoryInv
  <2> SUFFICES ASSUME ClientInit, NEW t \in Tasks PROVE HistoryOf(t)
    BY HistoryByTask
  <2>1. /\ task[t].pc = "idle" /\ task[t].answer = "none" /\ task[t].err = "none"
        /\ SlotOf(t) \in Slots /\ cache[SlotOf(t)] = {}
    BY ClientInitInv, SlotIsSlot DEF ClientInit, IdleTask
  <2> QED
    BY <2>1 DEF HistoryOf, Told, FreshRead, NoErrorYet, CopiesSettled, Copies, Holding
<1>2. Inv /\ Inv' /\ HistoryInv /\ [Next]_clientVars => HistoryInv'
  BY NextKeepsHistory
<1> QED
  BY <1>1, <1>2, InvHolds, PTL DEF Spec

(* GrantAlreadyExists and GrantAlreadyRevoked, unless on a cached record   *)
(* or by a role grant, are true of some moment of the call.                *)
THEOREM AlreadyIsWitnessed == Spec => []AlreadyWitnessed
BY HistoryHolds, PTL DEF HistoryInv

(* When nobody else touches the association, success means that it is as   *)
(* requested, after any number of attempts and with any cached record.     *)
THEOREM SuccessIsSettled == Spec => []SettledInGoal
BY HistoryHolds, PTL DEF HistoryInv

(* When nobody else touches the association, the handler does not fail     *)
(* over the traces of its own attempts, unless it acts on a cached record. *)
THEOREM NoErrorIsSelfInflicted == Spec => []NoSelfInflictedError
BY HistoryHolds, PTL DEF HistoryInv

-----------------------------------------------------------------------------
(* The refinement.                                                         *)

\* Every step of the builder is a step of the contract, or a stutter.
LEMMA StepIsContractStep ==
  ASSUME Inv, [Next]_clientVars
  PROVE  [Contract!Next]_(Contract!vars)
<1>1. ProvisionerInv
  BY DEF Inv
<1>2. ASSUME NEW t \in Tasks, Read(t, Decide(req[t], task[t].rec))
      PROVE  Contract!Next \/ UNCHANGED Contract!vars
  <2>1. FitDecision(req[t], Decide(req[t], task[t].rec))
    BY <1>1, DecideFit DEF ProvisionerInv, ClientInv, TypeOK, TaskStates
  <2> QED
    BY <1>1, <1>2, <2>1, ReadIsContractStep
<1> QED
  BY <1>1, <1>2, AfterWriteFit, EnvironmentIsContractStep, BeginIsContractStep,
     ClientStepIsContractStep, WriteRepliedIsContractStep
     DEF Next, TaskStep, Terminated

(* The territory builder implements the contract of a provisioner: under   *)
(* the mapping above each of its steps is a step of the contract, or none. *)
THEOREM ContractIsKept == Spec => KeepsContract
<1>1. ClientInit => Contract!Init
  BY InitIsContractInit
<1>2. Inv /\ [Next]_clientVars => [Contract!Next]_(Contract!vars)
  BY StepIsContractStep
<1> QED
  BY <1>1, <1>2, InvHolds, PTL DEF Spec, KeepsContract, Contract!Spec
-----------------------------------------------------------------------------
(* The retry loop ends.                                                    *)

\* Every step of the builder keeps the count of attempts.
LEMMA StepCounts ==
  ASSUME Inv, AttemptsBounded, [Next]_clientVars
  PROVE  Counted
<1>1. ClientInv
  BY DEF Inv, ProvisionerInv
<1>2. ASSUME NEW t \in Tasks, Read(t, Decide(req[t], task[t].rec)) PROVE Counted
  <2>1. Decide(req[t], task[t].rec) \in Decisions
    BY <1>1, DecideType DEF ClientInv, TypeOK, TaskStates
  <2> QED
    BY <1>1, <1>2, <2>1, ReadCounts
<1>3. ASSUME NEW t \in Tasks, WriteReplied(t, AfterWrite) PROVE Counted
  BY <1>1, <1>3, AfterWriteFit, WriteRepliedCounts DEF FitTranslation
<1>4. Environment \/ UNCHANGED clientVars => task' = task
  BY <1>1, EnvironmentQuiet DEF clientVars
<1> QED
  BY <1>1, <1>2, <1>3, <1>4, BeginCounts, ClientStepCounts, RejectCounts, IdleCounts
     DEF Next, TaskStep, Terminated

(* Every step of a handler, and of the retry loop around it, comes closer  *)
(* to the answer of its call, for every MaxAttempts and any number of      *)
(* tasks: no call makes more than 6 * MaxAttempts + 6 steps.               *)
THEOREM HandlersDoRunOut == Spec => HandlersRunOut
<1>1. ClientInit => AttemptsBounded
  BY InitCounts
<1>2. Inv /\ AttemptsBounded /\ [Next]_clientVars =>
        /\ AttemptsBounded'
        /\ [\A t \in Tasks :
              task'[t] # task[t] => Remaining(t)' \in 0 .. Remaining(t) - 1]_clientVars
  BY StepCounts DEF Counted
<1> QED
  BY <1>1, <1>2, InvHolds, PTL DEF Spec, HandlersRunOut
=============================================================================
