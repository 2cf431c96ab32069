-------------------------- MODULE MembershipProofs --------------------------
(***************************************************************************)
(* Theorems about the group, permission set and permission set group       *)
(* builders, for any tasks, slots and kinds.  ProvisionerInv is inductive  *)
(* for them as it is: with a single value, what a write leads to tells     *)
(* which call it is.                                                       *)
(***************************************************************************)
EXTENDS MembershipProvisioning, ProvisionerProofs

\* What the assumptions say of the request of a task.
LEMMA TaskFacts ==
  ASSUME ProvisionerInv, NEW t \in Tasks
  PROVE  /\ SlotOf(t) \in Slots /\ Kind(t) \in Kinds
         /\ req[t] \in MembershipRequests
         /\ req[t].op \in {"Grant", "Revoke"}
         /\ Allowed[req[t]] = Goal[req[t]]
         /\ Goal[req[t]] = IF req[t].op = "Grant" THEN {EmptyValue} ELSE {Absent}
         /\ task \in [Tasks -> TaskStates]
         /\ cache \in [Slots -> SUBSET Records]
         /\ org \in [Slots -> Records]
<1>1. req[t] \in Requests /\ ClientInv
  BY DEF ProvisionerInv, ClientInv, TypeOK
<1>2. SlotOf(t) \in Slots
  BY <1>1, RequestsAssumption DEF SlotOf
<1>3. Kind(t) \in Kinds
  BY <1>2, MembershipAssumption DEF Kind
<1>4. req[t] \in MembershipRequests /\ req[t].op \in {"Grant", "Revoke"}
  BY <1>1, MembershipAssumption DEF MembershipRequests
<1> QED
  BY <1>1, <1>2, <1>3, <1>4, MembershipAssumption
     DEF MembershipGoal, ClientInv, TypeOK

\* The translation of write replies is one the common lemmas cover.
LEMMA AfterWriteFit == FitTranslation(AfterWrite)
BY DEF FitTranslation, AfterWrite, Replies, Errors

\* What the lookup of a handler is used for leads into the request's goal.
LEMMA DecideFit ==
  ASSUME ProvisionerInv, NEW t \in Tasks, Looks(t)
  PROVE  FitDecision(req[t], Decide(t))
<1>1. /\ Already \in Decisions /\ Already.outcome = "already"
      /\ Complain \in Decisions /\ Complain.outcome = "Missing"
      /\ Make(DeleteObject) \in Decisions
      /\ CallResult(Make(DeleteObject).call) = Absent
      /\ Make(CreateObject(EmptyValue)) \in Decisions
      /\ CallResult(Make(CreateObject(EmptyValue)).call) = EmptyValue
  BY ValuesAssumption DEF Already, Complain, Make, Decisions, Calls, NoCall,
     DeleteObject, CreateObject, CallResult
<1>2. CASE req[t].op = "Revoke"
  <2>1. Decide(t) \in {Already, Complain, Make(DeleteObject)}
    BY <1>2, TaskFacts DEF Decide, Kinds, RemoveUserFromGroup,
       RemoveUserFromPermissionSet, RevokePermissionSetGroup,
       RemoveUserFromPermissionSetGroup
  <2> QED
    BY <1>1, <1>2, <2>1, TaskFacts DEF FitDecision
<1>3. CASE req[t].op = "Grant"
  <2>1. Decide(t) \in {Already, Make(CreateObject(EmptyValue))}
    BY <1>3 DEF Looks, Decide, GrantPermissionSetGroup, AddUserToPermissionSetGroup
  <2> QED
    BY <1>1, <1>3, <2>1, TaskFacts DEF FitDecision
<1> QED
  BY <1>2, <1>3, TaskFacts

-----------------------------------------------------------------------------
(* The two steps of this module's own.                                     *)

\* A grant that creates without looking goes on to a write it may make.
LEMMA AddUnseenKeeps ==
  ASSUME ProvisionerInv, NEW t \in Tasks, AddUnseen(t)
  PROVE  ProvisionerInv' /\ (Contract!Next \/ UNCHANGED Contract!vars)
<1> DEFINE st == [task[t] EXCEPT !.pc = "write", !.call = CreateObject(EmptyValue)]
<1>1. /\ ClientInv /\ TypeOK /\ Running(t)
      /\ task[t].pc = "start" /\ task[t].answer = "none"
      /\ req[t].op = "Grant"
  BY TaskFacts DEF AddUnseen, Looks, ProvisionerInv, ClientInv, AnswerLast, Running
<1>2. CreateObject(EmptyValue) \in Calls /\ CallResult(CreateObject(EmptyValue)) = EmptyValue
  BY ValuesAssumption DEF CreateObject, Calls, CallResult
<1>3. /\ st \in TaskStates /\ st.rec = task[t].rec /\ st.pc = "write"
      /\ st.answer = "none" /\ st.call = CreateObject(EmptyValue)
  BY <1>1, <1>2, TaskFacts DEF TaskStates, Points
<1>4. /\ task' = [task EXCEPT ![t] = st]
      /\ UNCHANGED <<org, nextId, cache, req, seen, drift>>
  BY TaskFacts DEF AddUnseen, AddUserToGroup, AddUserToPermissionSet
<1> HIDE DEF st
<1>5. ClientInv'
  BY <1>1, <1>3, <1>4, TaskFacts, MoveKeepsInv
<1>6. /\ task'[t] = st
      /\ \A u \in Tasks : u # t => task'[u] = task[u]
  BY <1>4, TaskFacts
<1>7. WriteAllowed'
  BY <1>1, <1>2, <1>3, <1>4, <1>6, TaskFacts DEF ProvisionerInv, WriteAllowed
<1>8. DoneWitnessed'
  BY <1>3, <1>4, <1>6 DEF ProvisionerInv, DoneWitnessed, Witnessed
<1>9. Contract!Next \/ UNCHANGED Contract!vars
  BY <1>1, <1>3, <1>4, MoveIsAnswer
<1> QED
  BY <1>5, <1>7, <1>8, <1>9 DEF ProvisionerInv

\* A duplicate that is taken as the first finds the goal of the grant met.
LEMMA CreateAgainKeeps ==
  ASSUME ProvisionerInv, NEW t \in Tasks, CreateAgain(t)
  PROVE  ProvisionerInv' /\ Contract!Next
<1> DEFINE st == Outcome(t, "done")
<1>1. /\ ClientInv /\ TypeOK /\ Running(t) /\ "done" \in {"done", "already"} \cup Errors
      /\ task' = [task EXCEPT ![t] = st]
      /\ UNCHANGED <<org, nextId, cache, req, seen, drift>>
      /\ task[t].pc = "write" /\ task[t].call.op = "create"
      /\ org[SlotOf(t)] # NotFound
  BY DEF CreateAgain, ProvisionerInv, ClientInv, Running
<1>2. /\ st \in TaskStates /\ st.rec = NotFound
      /\ st.pc \in {"wait", "answered"} /\ st.answer = "done"
      /\ st.pc # "answered" => st.answer = "none"
  BY <1>1, OutcomeShape
<1> HIDE DEF st
<1>3. ClientInv'
  BY <1>1, <1>2, TaskFacts, MoveKeepsInv
<1>4. task'[t] = st /\ \A u \in Tasks : u # t => task'[u] = task[u]
  BY <1>1, TaskFacts
<1>5. EmptyValue \in seen[t]
  <2>1. ValueOf(org[SlotOf(t)]) = EmptyValue
    BY <1>1, TaskFacts, MembershipAssumption DEF ValueOf, Records
  <2> QED
    BY <1>1, <2>1 DEF ClientInv, SeenNow
<1>6. EmptyValue \in Goal[req[t]]
  <2>1. CallResult(task[t].call) \in Goal[req[t]] /\ task[t].call.value \in Values
    BY <1>1, TaskFacts DEF ProvisionerInv, WriteAllowed, TaskStates, Calls
  <2> QED
    BY <1>1, <2>1, MembershipAssumption DEF CallResult
<1>7. WriteAllowed'
  BY <1>1, <1>2, <1>4 DEF ProvisionerInv, WriteAllowed
<1>8. DoneWitnessed'
  BY <1>1, <1>4, <1>5, <1>6 DEF ProvisionerInv, DoneWitnessed, Witnessed
<1>9. Contract!Next
  <2>1. st.pc = "answered"
    BY <1>2
  <2>2. StatusNow' = [StatusNow EXCEPT ![t] = "done"]
    BY <1>1, <1>2, <2>1, TaskFacts DEF StatusNow, Status, Running
  <2>3. StatusNow[t] = "running"
    BY <1>1, StatusRunning
  <2>4. Contract!Answer(t, "done")
    BY <1>1, <1>5, <1>6, <2>2, <2>3 DEF Contract!Answer, StatusNow
  <2>5. Contract!Work(t)
    BY <1>1, <2>4 DEF Contract!Work, ValueOf
  <2> QED
    BY <2>5 DEF Contract!Next
<1> QED
  BY <1>3, <1>7, <1>8, <1>9 DEF ProvisionerInv

-----------------------------------------------------------------------------
\* Every step of the three builders keeps the invariant.
LEMMA NextKeeps ==
  ASSUME ProvisionerInv, [Next]_clientVars
  PROVE  ProvisionerInv' /\ [Contract!Next]_(Contract!vars)
<1>1. CASE Environment \/ UNCHANGED clientVars
  BY <1>1, EnvironmentKeeps, StutterKeeps, EnvironmentIsContractStep
<1>2. ASSUME NEW t \in Tasks, Begin(t)
      PROVE  ProvisionerInv' /\ [Contract!Next]_(Contract!vars)
  BY <1>2, BeginKeeps, BeginIsContractStep
<1>3. ASSUME NEW t \in Tasks, ClientStep(t) \/ Reject(t)
      PROVE  ProvisionerInv' /\ [Contract!Next]_(Contract!vars)
  BY <1>3, ClientStepKeeps, RejectKeeps, ClientStepIsContractStep
<1>4. ASSUME NEW t \in Tasks, AddUnseen(t) \/ CreateAgain(t)
      PROVE  ProvisionerInv' /\ [Contract!Next]_(Contract!vars)
  BY <1>4, AddUnseenKeeps, CreateAgainKeeps
<1>5. ASSUME NEW t \in Tasks, Looks(t), Read(t, Decide(t))
      PROVE  ProvisionerInv' /\ [Contract!Next]_(Contract!vars)
  BY <1>5, DecideFit, ReadKeeps, ReadIsContractStep
<1>6. ASSUME NEW t \in Tasks, WriteReplied(t, AfterWrite)
      PROVE  ProvisionerInv' /\ [Contract!Next]_(Contract!vars)
  BY <1>6, AfterWriteFit, WriteRepliedKeeps, WriteRepliedIsContractStep
<1> QED
  BY <1>1, <1>2, <1>3, <1>4, <1>5, <1>6 DEF Next, TaskStep, ClientStep, Terminated

\* The invariant of the layer, and with it the witness of every success.
THEOREM InvHolds == Spec => []ProvisionerInv
<1>1. ClientInit => ProvisionerInv
  BY InitKeeps
<1>2. ProvisionerInv /\ [Next]_clientVars => ProvisionerInv'
  BY NextKeeps
<1> QED
  BY <1>1, <1>2, PTL DEF Spec

(* Plain success of the three builders is never reported for a state that  *)
(* never was while the call ran, duplicates taken as successes included.   *)
THEOREM SuccessIsWitnessed == Spec => []DoneWitnessed
BY InvHolds, PTL DEF ProvisionerInv

\* The three builders implement the contract of a provisioner.
THEOREM ContractIsKept == Spec => KeepsContract
<1>1. ClientInit => Contract!Init
  BY InitIsContractInit
<1>2. ProvisionerInv /\ [Next]_clientVars => [Contract!Next]_(Contract!vars)
  BY NextKeeps
<1> QED
  BY <1>1, <1>2, InvHolds, PTL DEF Spec, KeepsContract, Contract!Spec

\* A slot that changes at the hand of a task was changed by its own write.
LEMMA WriteIsServed ==
  ASSUME ProvisionerInv, [Next]_clientVars, NEW t \in Tasks, NEW s \in Slots,
         WrittenBy(t, s)
  PROVE  \E reply \in Replies : Serve(t, reply)
<1>1. task'[t] # task[t] /\ org' # org /\ task \in [Tasks -> TaskStates]
  BY TaskFacts DEF WrittenBy
<1>2. ~Environment
  BY <1>1, EnvironmentQuiet DEF ProvisionerInv
<1>3. ~UNCHANGED clientVars
  BY <1>1 DEF clientVars
<1>4. PICK u \in Tasks : Begin(u) \/ TaskStep(u)
  BY <1>2, <1>3 DEF Next, Terminated
<1>5. WriteReplyLost(u) \/ WriteReplied(u, AfterWrite)
  BY <1>1, <1>4 DEF Begin, TaskStep, QueryStep, WriteStep, Retry, Cancelled,
     CacheHit, CacheMiss, getSObject, QueryFails, WriteFails, Reject, Read, AddUnseen,
     CreateAgain
<1>6. u = t
  BY <1>1, <1>5 DEF WriteReplyLost, WriteReplied
<1> QED
  BY <1>5, <1>6 DEF WriteReplyLost, WriteReplied, Replies

(* A write hits the record of its own request, and only when the request   *)
(* is not satisfied already.                                               *)
THEOREM WritesAreNotCollateral == Spec => NoCollateral
<1>1. ProvisionerInv /\ [Next]_clientVars =>
        \A t \in Tasks, s \in Slots :
          WrittenBy(t, s) => s = SlotOf(t) /\ ~Satisfied(t)
  <2> SUFFICES ASSUME ProvisionerInv, [Next]_clientVars,
                      NEW t \in Tasks, NEW s \in Slots, WrittenBy(t, s)
               PROVE  s = SlotOf(t) /\ ~Satisfied(t)
    OBVIOUS
  <2>1. PICK reply \in Replies : Serve(t, reply)
    BY WriteIsServed
  <2>2. /\ s = SlotOf(t)
        /\ task[t].call.op = "create" <=> org[s] = NotFound
        /\ task[t].call.op = "update" => org[s].value # task[t].call.value
    BY <2>1, ServeChanges DEF WrittenBy, ProvisionerInv
  <2>3. /\ org[s].value = EmptyValue /\ task[t].call.value = EmptyValue
        /\ task[t].call.op \in {"create", "delete"}
    <3>1. org[s].value \in Values /\ task[t].call.value \in Values
      BY TaskFacts DEF Records, TaskStates, Calls
    <3>2. task[t].call.op \in {"create", "update", "delete"}
      BY <2>1 DEF Serve, ServeCreate, ServeById
    <3> QED
      BY <2>2, <3>1, <3>2, MembershipAssumption
  <2>4. CallResult(task[t].call) \in Goal[req[t]]
    BY TaskFacts DEF ProvisionerInv, WriteAllowed, WrittenBy
  <2>5. EmptyValue # Absent
    BY ValuesAssumption
  <2> QED
    BY <2>2, <2>3, <2>4, <2>5, TaskFacts DEF Satisfied, ValueOf, CallResult
<1> QED
  BY <1>1, InvHolds, PTL DEF Spec, NoCollateral

-----------------------------------------------------------------------------
(* What the builders answer is true of the history of the slot.            *)

\* The parts of the decision on a record, by what is asked for.
LEMMA DecideCases ==
  ASSUME ProvisionerInv, NEW t \in Tasks, Looks(t)
  PROVE  /\ Decide(t).outcome = "write" =>
              /\ task[t].rec \in WritesOn(t)
              /\ Decide(t).call = IF req[t].op = "Grant" THEN CreateObject(EmptyValue)
                                  ELSE DeleteObject
         /\ Decide(t).outcome # "write" =>
              /\ task[t].rec \notin WritesOn(t)
              /\ Decide(t).outcome \in {"already", "Missing"}
              /\ ValueOf(task[t].rec) \in Goal[req[t]]
         /\ Decide(t).outcome = "Missing" => Kind(t) = "PermissionSet" /\ req[t].op = "Revoke"
<1> DEFINE rec == task[t].rec
<1>0. /\ Already.outcome = "already" /\ Complain.outcome = "Missing"
      /\ \A d : Make(d).outcome = "write" /\ Make(d).call = d
      /\ rec \in Records
  BY TaskFacts DEF Already, Complain, Make, TaskStates
<1>1. CASE req[t].op = "Grant"
  <2>1. /\ Kind(t) = "PermissionSetGroup" /\ WritesOn(t) = {NotFound}
        /\ Goal[req[t]] = {EmptyValue}
    BY <1>1, TaskFacts DEF Looks, WritesOn
  <2>2. Decide(t) = IF rec # NotFound THEN Already ELSE Make(CreateObject(EmptyValue))
    BY <1>1, <2>1 DEF Decide, GrantPermissionSetGroup, AddUserToPermissionSetGroup
  <2>3. rec # NotFound => ValueOf(rec) = EmptyValue
    BY <1>0, MembershipAssumption DEF ValueOf, Records
  <2> QED
    BY <1>0, <1>1, <2>1, <2>2, <2>3
<1>2. CASE req[t].op = "Revoke"
  <2>1. WritesOn(t) = Records \ {NotFound} /\ Goal[req[t]] = {Absent}
    BY <1>2, TaskFacts DEF WritesOn
  <2>2. Decide(t) = IF rec # NotFound THEN Make(DeleteObject)
                    ELSE IF Kind(t) = "PermissionSet" THEN Complain ELSE Already
    BY <1>2, TaskFacts DEF Decide, Kinds, RemoveUserFromGroup,
       RemoveUserFromPermissionSet, RevokePermissionSetGroup,
       RemoveUserFromPermissionSetGroup
  <2>3. rec = NotFound => ValueOf(rec) = Absent
    BY DEF ValueOf
  <2> QED
    BY <1>0, <1>2, <2>1, <2>2, <2>3
<1> QED
  BY <1>1, <1>2, TaskFacts

\* What HistoryInv says of one task.
Told(t) ==
  /\ task[t].answer = "already" /\ ~task[t].cached => Witnessed(t)
  /\ task[t].err \in {"Duplicate", "NotFound", "Missing"} /\ ~task[t].cached => Witnessed(t)
  /\ (/\ Undisturbed(t) /\ ~task[t].cached
      /\ Kind(t) = "PermissionSetGroup" \/ (Kind(t) = "Group" /\ req[t].op = "Revoke"))
     => task[t].err \in {"none", "Transient", "Permanent"}
  /\ Undisturbed(t) /\ task[t].answer \in {"done", "already"} => Satisfied(t)

Known(t) == Looks(t) => FreshRead(t) /\ CopiesSettled(t, WritesOn(t))

HistoryOf(t) == NoErrorYet(t) /\ WriteFits(t) /\ Known(t) /\ Told(t)

\* HistoryInv is about the tasks one by one.
LEMMA HistoryByTask == HistoryInv <=> \A t \in Tasks : HistoryOf(t)
BY DEF HistoryInv, HistoryOf, Known, Told, AlreadyWitnessed, ComplaintWitnessed,
       RetrySucceeds, SettledInGoal

\* Requests do not change, and neither does what the builder does about them.
LEMMA KindsStay ==
  ASSUME ProvisionerInv, NEW t \in Tasks, req' = req
  PROVE  /\ SlotOf(t)' = SlotOf(t) /\ Kind(t)' = Kind(t)
         /\ Looks(t)' = Looks(t) /\ WritesOn(t)' = WritesOn(t)
BY DEF SlotOf, Kind, Looks, WritesOn, Records

\* A step of others changes nothing a task has said.
LEMMA HistoryAside ==
  ASSUME ProvisionerInv, ProvisionerInv', NEW t \in Tasks, HistoryOf(t), AsideOf(t)
  PROVE  HistoryOf(t)'
<1>0. PICK W : W = WritesOn(t)
  OBVIOUS
<1>1. /\ ClientInv /\ ClientInv' /\ req' = req /\ task'[t] = task[t]
      /\ seen[t] \subseteq seen'[t]
      /\ Kind(t)' = Kind(t) /\ (Looks(t)' <=> Looks(t)) /\ WritesOn(t)' = W
  BY <1>0, KindsStay DEF ProvisionerInv, AsideOf
<1>2. NoErrorYet(t)' /\ WriteFits(t)'
  BY <1>0, <1>1 DEF HistoryOf, NoErrorYet, WriteFits, CreateObject, DeleteObject
<1>3. Known(t)'
  <2>1. ASSUME Looks(t) PROVE FreshRead(t)' /\ CopiesSettled(t, W)'
    BY <1>0, <1>1, <2>1, FreshAside, CopiesAside DEF HistoryOf, Known
  <2> QED
    BY <1>1, <2>1 DEF Known, CopiesSettled
<1>4. Told(t)'
  <2>1. Undisturbed(t)' => Undisturbed(t)
    BY DEF AsideOf
  <2>2. Witnessed(t) => Witnessed(t)'
    BY <1>1 DEF Witnessed
  <2>3. task[t].answer \in {"done", "already"} /\ Undisturbed(t)' => Satisfied(t)'
    BY <1>1, SettledAside DEF HistoryOf, Told
  <2> QED
    BY <1>1, <2>1, <2>2, <2>3 DEF HistoryOf, Told
<1> QED
  BY <1>2, <1>3, <1>4 DEF HistoryOf

\* A task's own step keeps what is known of its record and of the copies.
LEMMA HistoryOwn ==
  ASSUME ProvisionerInv, NEW t \in Tasks, HistoryOf(t),
         StepOf(t), Looks(t) => Looking(t) \/ Writing(t)
  PROVE  /\ Known(t)' /\ req' = req /\ (Undisturbed(t)' => Undisturbed(t))
         /\ Kind(t)' = Kind(t)
<1>0. PICK W : W = WritesOn(t)
  OBVIOUS
<1>1. /\ ClientInv /\ req' = req
      /\ Kind(t)' = Kind(t) /\ (Looks(t)' <=> Looks(t)) /\ WritesOn(t)' = W
      /\ \A v, w \in Allowed[req[t]] : v = w
  BY <1>0, KindsStay, TaskFacts DEF ProvisionerInv, StepOf
<1>2. ASSUME Looks(t) PROVE FreshRead(t)' /\ CopiesSettled(t, W)'
  <2>1. FreshRead(t) /\ CopiesSettled(t, W) /\ (Writing(t) => task[t].rec \in W)
    BY <1>0, <1>2 DEF HistoryOf, Known, WriteFits, Writing
  <2> QED
    BY <1>1, <1>2, <2>1, FreshLooking, FreshWriting, CopiesLooking, CopiesWriting
<1>3. Known(t)'
  BY <1>1, <1>2 DEF Known, CopiesSettled
<1> QED
  BY <1>1, <1>3, StillUndisturbed

\* A task that is not about to write writes nothing unfit.
LEMMA FitsKept ==
  ASSUME NEW t \in Tasks, WriteFits(t), req' = req, ProvisionerInv,
         task'[t].pc = "write" => task'[t] = task[t]
  PROVE  WriteFits(t)'
<1>1. (Looks(t)' <=> Looks(t)) /\ WritesOn(t)' = WritesOn(t)
  BY KindsStay
<1> QED
  BY <1>1 DEF WriteFits, CreateObject, DeleteObject

\* Queries, failures and lost replies say nothing of the slot.
LEMMA HistoryLayer ==
  ASSUME ProvisionerInv, NEW t \in Tasks, HistoryOf(t), Begin(t) \/ ClientStep(t) \/ Reject(t)
  PROVE  HistoryOf(t)' /\ StepOf(t)
<1>1. (Looking(t) \/ Writing(t)) /\ SaysNothing(t)' /\ NoErrorYet(t)'
  BY LayerSaysNothing DEF ProvisionerInv, HistoryOf
<1>2. Known(t)' /\ StepOf(t) /\ req' = req
  BY <1>1, HistoryOwn DEF Looking, Writing
<1>3. task'[t].pc = "write" => task'[t] = task[t]
  BY BeginQuiet, ClientStepQuiet, RejectKeeps DEF ProvisionerInv, Quiet
<1>4. WriteFits(t)'
  BY <1>2, <1>3, FitsKept DEF HistoryOf
<1> QED
  BY <1>1, <1>2, <1>4 DEF HistoryOf, Told, SaysNothing

\* A grant that creates without looking has said nothing yet.
LEMMA HistoryUnseen ==
  ASSUME ProvisionerInv, NEW t \in Tasks, HistoryOf(t), AddUnseen(t)
  PROVE  HistoryOf(t)' /\ StepOf(t)
<1>1. /\ ClientInv /\ ~Looks(t) /\ req[t].op = "Grant" /\ req' = req
      /\ task \in [Tasks -> TaskStates]
      /\ task[t].answer = "none" /\ task[t].err = "none"
      /\ UNCHANGED <<org, seen, drift, cache>>
  BY TaskFacts DEF AddUnseen, Looks, ProvisionerInv, ClientInv, AnswerLast, HistoryOf, NoErrorYet
<1>2. /\ task'[t].pc = "write" /\ task'[t].call = CreateObject(EmptyValue)
      /\ task'[t].answer = "none" /\ task'[t].err = "none"
      /\ \A u \in Tasks : u # t => task'[u] = task[u]
  BY <1>1 DEF AddUnseen, AddUserToGroup, AddUserToPermissionSet, TaskStates
<1>3. StepOf(t)
  BY <1>1, <1>2, MoveIsStep
<1>4. Known(t)' /\ (Looks(t)' <=> Looks(t))
  BY <1>1, <1>3, HistoryOwn, KindsStay
<1>5. WriteFits(t)'
  BY <1>1, <1>2, <1>4 DEF WriteFits, CreateObject
<1> QED
  BY <1>2, <1>3, <1>4, <1>5 DEF HistoryOf, Told, NoErrorYet

\* A duplicate that is taken as the first finds the user in the group.
LEMMA HistoryAgain ==
  ASSUME ProvisionerInv, NEW t \in Tasks, HistoryOf(t), CreateAgain(t)
  PROVE  HistoryOf(t)' /\ StepOf(t)
<1>1. /\ ClientInv /\ Running(t) /\ NoErrorYet(t) /\ "done" \in {"done", "already"} \cup Errors
      /\ "done" # "Transient"
      /\ task \in [Tasks -> TaskStates] /\ task' = [task EXCEPT ![t] = Outcome(t, "done")]
      /\ UNCHANGED <<org, seen, drift, cache, req>>
      /\ org[SlotOf(t)] # NotFound
  BY TaskFacts DEF CreateAgain, ProvisionerInv, HistoryOf, Running
<1>2. req[t].op = "Grant" /\ ~Looks(t)
  BY TaskFacts DEF CreateAgain, HistoryOf, WriteFits, Looks, DeleteObject
<1>3. /\ task'[t].pc = "answered" /\ task'[t].answer = "done" /\ task'[t].err = "none"
      /\ \A u \in Tasks : u # t => task'[u] = task[u]
  BY <1>1, OutcomeAnswers
<1>4. StepOf(t)
  BY <1>1, <1>3, MoveIsStep
<1>5. Known(t)'
  BY <1>2, <1>4, HistoryOwn
<1>6. WriteFits(t)'
  BY <1>3 DEF WriteFits
<1>7. Satisfied(t)'
  <2>1. ValueOf(org[SlotOf(t)]) = EmptyValue /\ SlotOf(t)' = SlotOf(t)
    BY <1>1, TaskFacts, MembershipAssumption DEF ValueOf, Records, SlotOf
  <2> QED
    BY <1>1, <1>2, <2>1, TaskFacts DEF Satisfied, ValueOf
<1> QED
  BY <1>3, <1>4, <1>5, <1>6, <1>7 DEF HistoryOf, Told, NoErrorYet

\* "Already" and complaints on a record that was read are true of it.
LEMMA HistoryRead ==
  ASSUME ProvisionerInv, NEW t \in Tasks, HistoryOf(t), Looks(t), Read(t, Decide(t))
  PROVE  HistoryOf(t)' /\ StepOf(t)
<1>0. PICK d : d = Decide(t)
  OBVIOUS
<1>1. /\ ClientInv /\ task[t].rec \in Records /\ d \in Decisions /\ Read(t, d)
      /\ FreshRead(t) /\ NoErrorYet(t) /\ CopiesSettled(t, WritesOn(t))
  BY <1>0, DecideFit, TaskFacts DEF FitDecision, ProvisionerInv, TaskStates, HistoryOf, Known
<1>2. /\ d.outcome = "write" =>
              /\ task[t].rec \in WritesOn(t)
              /\ d.call = IF req[t].op = "Grant" THEN CreateObject(EmptyValue)
                          ELSE DeleteObject
      /\ d.outcome # "write" =>
              /\ task[t].rec \notin WritesOn(t)
              /\ d.outcome \in {"already", "Missing"}
              /\ ValueOf(task[t].rec) \in Goal[req[t]]
      /\ d.outcome = "Missing" => Kind(t) = "PermissionSet" /\ req[t].op = "Revoke"
  BY <1>0, DecideCases
<1>3. /\ Looking(t) /\ StepOf(t) /\ Running(t) /\ Holding(t) /\ UNCHANGED <<org, seen, req>>
      /\ d.outcome = "write" => /\ task'[t].pc = "write" /\ task'[t].call = d.call
                                /\ task'[t].rec = task[t].rec
                                /\ task'[t].answer = task[t].answer /\ task'[t].err = task[t].err
      /\ d.outcome # "write" => task'[t] = Outcome(t, d.outcome)
  BY <1>1, ReadIsLooking DEF Looking
<1>4. /\ Known(t)' /\ Kind(t)' = Kind(t) /\ WritesOn(t)' = WritesOn(t)
      /\ (Looks(t)' <=> Looks(t))
      /\ (Undisturbed(t)' => Undisturbed(t))
  BY <1>3, HistoryOwn, KindsStay
<1>5. CASE d.outcome = "write"
  <2>1. task[t].answer = "none" /\ task[t].err = "none"
    BY <1>1, <1>3 DEF Running, NoErrorYet, ClientInv, AnswerLast
  <2>2. WriteFits(t)'
    BY <1>2, <1>3, <1>4, <1>5 DEF WriteFits, CreateObject, DeleteObject
  <2> QED
    BY <1>3, <1>4, <1>5, <2>1, <2>2 DEF HistoryOf, Told, NoErrorYet
<1>6. CASE d.outcome # "write"
  <2>0. task'[t] = Outcome(t, d.outcome) /\ d.outcome \in {"already", "Missing"}
    BY <1>2, <1>3, <1>6
  <2>1. d.outcome \in {"done", "already"} \cup Errors /\ d.outcome # "Transient"
    BY <2>0 DEF Errors
  <2>2. /\ task'[t].pc = "answered" /\ task'[t].cached = task[t].cached
        /\ d.outcome = "already" => task'[t].answer = "already" /\ task'[t].err = "none"
        /\ d.outcome = "Missing" => task'[t].answer = "error" /\ task'[t].err = "Missing"
    BY <1>1, <1>3, <2>0, <2>1, OutcomeAnswers DEF Errors
  <2>3. ~task'[t].cached => Witnessed(t)'
    <3>1. ~task[t].cached => ValueOf(task[t].rec) \in seen[t]
      BY <1>1, <1>3 DEF FreshRead
    <3> QED
      BY <1>2, <1>3, <1>6, <2>2, <3>1 DEF Witnessed
  <2>4. Undisturbed(t) => Satisfied(t)'
    <3>1. Undisturbed(t) => task[t].rec = org[SlotOf(t)]
      BY <1>1, <1>2, <1>3, <1>6 DEF CopiesSettled, Copies
    <3>2. SlotOf(t)' = SlotOf(t)
      BY <1>3 DEF SlotOf
    <3> QED
      BY <1>2, <1>3, <1>6, <3>1, <3>2 DEF Satisfied, ValueOf
  <2>5. WriteFits(t)' /\ NoErrorYet(t)'
    BY <2>2 DEF WriteFits, NoErrorYet
  <2>6. Told(t)'
    BY <1>2, <1>3, <1>4, <2>0, <2>2, <2>3, <2>4 DEF Told
  <2> QED
    BY <1>3, <1>4, <2>5, <2>6 DEF HistoryOf
<1> QED
  BY <1>5, <1>6

\* What the builders make of a reply is true of the slot.
LEMMA HistoryReplied ==
  ASSUME ProvisionerInv, NEW t \in Tasks, HistoryOf(t), WriteReplied(t, AfterWrite)
  PROVE  HistoryOf(t)' /\ StepOf(t)
<1>1. PICK reply \in Replies : /\ Serve(t, reply)
                              /\ AfterWrite[reply] \in {"done", "already"} \cup Errors
                              /\ task'[t] = Outcome(t, AfterWrite[reply])
  BY AfterWriteFit, RepliedIsWriting DEF ProvisionerInv
<1>2. /\ Writing(t) /\ Running(t) /\ StepOf(t) /\ task[t].pc = "write"
  BY AfterWriteFit, RepliedIsWriting DEF ProvisionerInv, Writing
<1>3. /\ Known(t)' /\ req' = req /\ Kind(t)' = Kind(t)
      /\ (Undisturbed(t)' => Undisturbed(t))
  BY <1>2, HistoryOwn
<1>4. /\ ClientInv /\ task[t].rec \in Records
      /\ SlotOf(t) \in Slots /\ SlotOf(t)' = SlotOf(t) /\ org[SlotOf(t)] \in Records
      /\ Looks(t) => FreshRead(t) /\ task[t].rec \in WritesOn(t)
      /\ NoErrorYet(t)
      /\ task[t].call = IF req[t].op = "Grant" THEN CreateObject(EmptyValue) ELSE DeleteObject
  BY <1>2, <1>3, SlotIsSlot, TaskFacts
     DEF ProvisionerInv, TaskStates, HistoryOf, Known, WriteFits
<1>5. /\ task'[t].pc = "answered" /\ task'[t].cached = task[t].cached
      /\ reply = "ok" => task'[t].answer = "done" /\ task'[t].err = "none"
      /\ reply = "duplicate" => task'[t].answer = "error" /\ task'[t].err = "Duplicate"
      /\ reply = "notFound" => task'[t].answer = "error" /\ task'[t].err = "NotFound"
  BY <1>1, <1>2, <1>4, OutcomeAnswers DEF AfterWrite, Replies, Errors
<1>6. WriteFits(t)' /\ NoErrorYet(t)'
  BY <1>5 DEF WriteFits, NoErrorYet
<1>7. CASE reply = "ok"
  <2>1. Satisfied(t)'
    BY <1>1, <1>2, <1>3, <1>7, AppliedSatisfies
  <2> QED
    BY <1>2, <1>3, <1>5, <1>6, <1>7, <2>1 DEF HistoryOf, Told
<1>8. CASE reply = "duplicate"
  <2>1. /\ task[t].call.op = "create" /\ org[SlotOf(t)] # NotFound /\ UNCHANGED <<org, seen>>
    BY <1>1, <1>8 DEF Serve, ServeCreate, ServeById
  <2>2. req[t].op = "Grant" /\ Goal[req[t]] = {EmptyValue}
    BY <1>4, <2>1, TaskFacts DEF DeleteObject
  <2>3. Witnessed(t)'
    <3>1. ValueOf(org[SlotOf(t)]) \in seen[t] /\ ValueOf(org[SlotOf(t)]) = EmptyValue
      BY <1>2, <1>4, <2>1, MembershipAssumption DEF ClientInv, SeenNow, ValueOf, Records
    <3> QED
      BY <1>3, <2>1, <2>2, <3>1 DEF Witnessed
  <2>4. Kind(t) = "PermissionSetGroup" => ~(Undisturbed(t) /\ ~task[t].cached)
    <3>1. Kind(t) = "PermissionSetGroup" => task[t].rec = NotFound /\ FreshRead(t)
      BY <1>4, <2>2 DEF Looks, WritesOn
    <3> QED
      BY <1>2, <2>1, <3>1 DEF FreshRead, Holding
  <2> QED
    BY <1>2, <1>3, <1>5, <1>6, <1>8, <2>2, <2>3, <2>4 DEF HistoryOf, Told
<1>9. CASE reply = "notFound"
  <2>1. /\ task[t].call.op \in {"update", "delete"} /\ UNCHANGED <<org, seen>>
        /\ org[SlotOf(t)] = NotFound \/ org[SlotOf(t)].id # task[t].rec.id
    BY <1>1, <1>4, <1>9 DEF Serve, ServeCreate, ServeById
  <2>2. req[t].op = "Revoke" /\ Goal[req[t]] = {Absent} /\ Looks(t)
    BY <1>4, <2>1, TaskFacts DEF CreateObject, Looks
  <2>3. task[t].rec # NotFound /\ FreshRead(t)
    BY <1>4, <2>2 DEF WritesOn
  <2>4. ~(Undisturbed(t) /\ ~task[t].cached)
    BY <1>2, <2>1, <2>3 DEF FreshRead, Holding
  <2>5. ~task[t].cached => Witnessed(t)'
    <3>1. org[SlotOf(t)] = NotFound => Absent \in seen[t]
      BY <1>2, <1>4 DEF ClientInv, SeenNow, ValueOf
    <3>2. ~task[t].cached => Absent \in seen[t]
      BY <1>2, <2>1, <2>3, <3>1 DEF FreshRead, Holding
    <3> QED
      BY <1>3, <2>1, <2>2, <3>2 DEF Witnessed
  <2> QED
    BY <1>2, <1>3, <1>5, <1>6, <1>9, <2>4, <2>5 DEF HistoryOf, Told
<1> QED
  BY <1>7, <1>8, <1>9 DEF Replies

\* Every step of the three builders keeps what their answers say.
LEMMA NextKeepsHistory ==
  ASSUME ProvisionerInv, ProvisionerInv', [Next]_clientVars, HistoryInv
  PROVE  HistoryInv'
<1> SUFFICES ASSUME NEW t \in Tasks PROVE HistoryOf(t)'
  BY DEF HistoryInv, HistoryOf, Known, Told, AlreadyWitnessed, ComplaintWitnessed,
         RetrySucceeds, SettledInGoal
<1>1. \A u \in Tasks : HistoryOf(u)
  BY HistoryByTask
<1>2. CASE Environment \/ Terminated \/ UNCHANGED clientVars
  BY <1>1, <1>2, EnvironmentIsAside, HistoryAside DEF ProvisionerInv, Terminated
<1>3. ASSUME NEW u \in Tasks, Begin(u) \/ TaskStep(u) PROVE HistoryOf(t)'
  <2>1. HistoryOf(u)' /\ StepOf(u)
    BY <1>1, <1>3, HistoryLayer, HistoryUnseen, HistoryAgain, HistoryRead, HistoryReplied
       DEF TaskStep, ClientStep
  <2> QED
    BY <1>1, <2>1, OtherIsAside, HistoryAside DEF ProvisionerInv
<1> QED
  BY <1>2, <1>3 DEF Next

(* The records handlers hold, the copies in the cache and the answers stay *)
(* true to the history of the slots, in every reachable state.             *)
THEOREM HistoryHolds == Spec => []HistoryInv
<1>1. ClientInit => HistoryInv
  <2> SUFFICES ASSUME ClientInit, NEW t \in Tasks PROVE HistoryOf(t)
    BY HistoryByTask
  <2>1. /\ task[t].pc = "idle" /\ task[t].answer = "none" /\ task[t].err = "none"
        /\ SlotOf(t) \in Slots /\ cache[SlotOf(t)] = {}
    BY ClientInitInv, SlotIsSlot DEF ClientInit, IdleTask
  <2> QED
    BY <2>1 DEF HistoryOf, Known, Told, FreshRead, NoErrorYet, WriteFits, CopiesSettled,
                Copies, Holding
<1>2. ProvisionerInv /\ ProvisionerInv' /\ HistoryInv /\ [Next]_clientVars => HistoryInv'
  BY NextKeepsHistory
<1> QED
  BY <1>1, <1>2, InvHolds, PTL DEF Spec

(* GrantAlreadyExists and GrantAlreadyRevoked, unless on a cached record,  *)
(* are true of some moment of the call.                                    *)
THEOREM AlreadyIsWitnessed == Spec => []AlreadyWitnessed
BY HistoryHolds, PTL DEF HistoryInv

(* An error about a record that is there, or is not there, already hides a *)
(* success, unless the handler acted on a cached record.                   *)
THEOREM ComplaintIsWitnessed == Spec => []ComplaintWitnessed
BY HistoryHolds, PTL DEF HistoryInv

(* The builders that look first, and say "already", do not fail over the   *)
(* traces of their own attempts.                                           *)
THEOREM RetriesSucceed == Spec => []RetrySucceeds
BY HistoryHolds, PTL DEF HistoryInv

(* When nobody else touches the membership, success means that it is as    *)
(* requested, after any number of attempts and with any cached record.     *)
THEOREM SuccessIsSettled == Spec => []SettledInGoal
BY HistoryHolds, PTL DEF HistoryInv
-----------------------------------------------------------------------------
(* The retry loop ends.                                                    *)

\* Every step of the builder keeps the count of attempts.
LEMMA StepCounts ==
  ASSUME ProvisionerInv, AttemptsBounded, [Next]_clientVars
  PROVE  Counted
<1>1. ClientInv
  BY DEF ProvisionerInv
<1>2. ASSUME NEW t \in Tasks, Looks(t), Read(t, Decide(t)) PROVE Counted
  <2>1. Decide(t) \in Decisions
    BY <1>2, DecideFit DEF FitDecision
  <2> QED
    BY <1>1, <1>2, <2>1, ReadCounts
<1>3. ASSUME NEW t \in Tasks, WriteReplied(t, AfterWrite) PROVE Counted
  BY <1>1, <1>3, AfterWriteFit, WriteRepliedCounts DEF FitTranslation
<1>4. ASSUME NEW t \in Tasks, AddUnseen(t) PROVE Counted
  <2>1. task[t] \in TaskStates /\ task \in [Tasks -> TaskStates]
    BY <1>1 DEF ClientInv, TypeOK
  <2>2. PICK c : c = IF Kind(t) = "Group" THEN AddUserToGroup ELSE AddUserToPermissionSet
    OBVIOUS
  <2>3. c \in Calls
    BY <2>2, ValuesAssumption DEF AddUserToGroup, AddUserToPermissionSet, CreateObject, Calls
  <2>4. PICK st : st = [task[t] EXCEPT !.pc = "write", !.call = c]
    OBVIOUS
  <2>5. st \in TaskStates /\ st.pc = "write" /\ st.attempts = task[t].attempts
    BY <2>1, <2>3, <2>4 DEF TaskStates, Points
  <2>6. task' = [task EXCEPT ![t] = st] /\ task[t].pc = "start"
    BY <1>4, <2>1, <2>2, <2>4 DEF AddUnseen
  <2>7. task[t].pc # "answered" /\ st.pc # "answered" /\ Stage[st.pc] < Stage[task[t].pc]
    BY <2>5, <2>6 DEF Stage
  <2> QED
    BY <1>1, <2>5, <2>6, <2>7, MoveCounts
<1>5. ASSUME NEW t \in Tasks, CreateAgain(t) PROVE Counted
  <2>1. /\ Running(t) /\ "done" \in {"done", "already"} \cup Errors
        /\ task' = [task EXCEPT ![t] = Outcome(t, "done")]
    BY <1>5 DEF CreateAgain, Running
  <2> QED
    BY <1>1, <2>1, ReturnCounts
<1>6. Environment \/ UNCHANGED clientVars => task' = task
  BY <1>1, EnvironmentQuiet DEF clientVars
<1> QED
  BY <1>1, <1>2, <1>3, <1>4, <1>5, <1>6, BeginCounts, ClientStepCounts, RejectCounts, IdleCounts
     DEF Next, TaskStep, Terminated, ClientStep

(* Every step of a handler, and of the retry loop around it, comes closer  *)
(* to the answer of its call, for every MaxAttempts and any number of      *)
(* tasks: no call makes more than 6 * MaxAttempts + 6 steps.               *)
THEOREM HandlersDoRunOut == Spec => HandlersRunOut
<1>1. ClientInit => AttemptsBounded
  BY InitCounts
<1>2. ProvisionerInv /\ AttemptsBounded /\ [Next]_clientVars =>
        /\ AttemptsBounded'
        /\ [\A t \in Tasks :
              task'[t] # task[t] => Remaining(t)' \in 0 .. Remaining(t) - 1]_clientVars
  BY StepCounts DEF Counted
<1> QED
  BY <1>1, <1>2, InvHolds, PTL DEF Spec, HandlersRunOut
=============================================================================
