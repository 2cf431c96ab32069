-------------------------- MODULE ProvisionerProofs -------------------------
(***************************************************************************)
(* What every builder's proof needs: the shared steps keep ProvisionerInv  *)
(* and are steps of ProvisioningContract, for any Goal, provided that a    *)
(* handler decides only on writes its request allows, and takes only an    *)
(* "ok" for plain success.                                                 *)
(***************************************************************************)
EXTENDS Provisioner, SalesforceClientProofs

\* A handler's decision is fit for request r.
FitDecision(r, d) ==
  d \in Decisions /\ (d.outcome = "write" => CallResult(d.call) \in Allowed[r])

\* A handler's reading of Salesforce's replies is honest.
FitTranslation(f) ==
  /\ f \in [Replies -> {"done", "already"} \cup Errors]
  /\ \A reply \in Replies : f[reply] = "done" <=> reply = "ok"

-----------------------------------------------------------------------------
(* ProvisionerInv.                                                         *)

\* A write that is applied puts an allowed value, in the goal, into the slot.
LEMMA AppliedWrite ==
  ASSUME ProvisionerInv, NEW t \in Tasks, task[t].pc = "write", Serve(t, "ok")
  PROVE  \E rec \in Records : /\ Becomes(SlotOf(t), rec)
                              /\ ValueOf(rec) \in Allowed[req[t]]
                              /\ ValueOf(rec) \in Goal[req[t]]
<1>1. PICK rec \in Records : /\ Becomes(SlotOf(t), rec)
                             /\ ValueOf(rec) = CallResult(task[t].call)
  BY ServeEffect DEF ProvisionerInv, Replies
<1>2. CallResult(task[t].call) \in Allowed[req[t]] /\ req[t] \in Requests
  BY DEF ProvisionerInv, WriteAllowed, ClientInv, TypeOK
<1> QED
  BY <1>1, <1>2, AllowedAssumption

\* No task has an answer or a write to make in the beginning.
LEMMA InitKeeps == ClientInit => ProvisionerInv
<1> SUFFICES ASSUME ClientInit PROVE ProvisionerInv
  OBVIOUS
<1>1. \A t \in Tasks : task[t].pc = "idle" /\ task[t].answer = "none"
  BY DEF ClientInit, IdleTask
<1> QED
  BY <1>1, ClientInitInv DEF ProvisionerInv, WriteAllowed, DoneWitnessed

\* A step in which no task turns successful, or goes to write, keeps it all.
LEMMA QuietKeeps ==
  ASSUME ProvisionerInv, ClientInv', Quiet
  PROVE  ProvisionerInv'
<1>1. WriteAllowed'
  BY DEF ProvisionerInv, Quiet, WriteAllowed
<1>2. DoneWitnessed'
  BY DEF ProvisionerInv, Quiet, DoneWitnessed, Witnessed
<1> QED
  BY <1>1, <1>2 DEF ProvisionerInv

\* Drift and the loss of cache entries answer no task.
LEMMA EnvironmentKeeps ==
  ASSUME ProvisionerInv, Environment
  PROVE  ProvisionerInv'
BY EnvironmentKeepsInv, EnvironmentQuiet, QuietKeeps DEF ProvisionerInv

\* A step that changes nothing keeps the invariant.
LEMMA StutterKeeps ==
  ASSUME ProvisionerInv, UNCHANGED clientVars
  PROVE  ProvisionerInv'
<1>1. ClientInv' /\ Quiet
  BY StutterKeepsInv DEF ProvisionerInv, clientVars, Quiet
<1> QED
  BY <1>1, QuietKeeps

\* A task that begins has no answer, and its history starts anew.
LEMMA BeginKeeps ==
  ASSUME ProvisionerInv, NEW t \in Tasks, Begin(t)
  PROVE  ProvisionerInv'
<1> USE DEF ProvisionerInv
<1>1. ClientInv'
  BY BeginKeepsInv
<1>2. /\ req' = req
      /\ task'[t].answer = "none" /\ task'[t].pc = "start"
      /\ \A u \in Tasks : u # t => task'[u] = task[u] /\ seen'[u] = seen[u]
  BY BeginQuiet
<1>3. WriteAllowed'
  BY <1>2 DEF WriteAllowed
<1>4. DoneWitnessed'
  BY <1>2 DEF DoneWitnessed, Witnessed
<1> QED
  BY <1>1, <1>3, <1>4

\* Queries, failures, pauses and lost replies report no success.
LEMMA ClientStepKeeps ==
  ASSUME ProvisionerInv, NEW t \in Tasks, ClientStep(t)
  PROVE  ProvisionerInv'
BY ClientStepKeepsInv, ClientStepQuiet, QuietKeeps DEF ProvisionerInv

\* A refused request ends in an error.
LEMMA RejectKeeps ==
  ASSUME ProvisionerInv, NEW t \in Tasks, Reject(t)
  PROVE  ProvisionerInv' /\ Quiet
<1> USE DEF ProvisionerInv
<1>1. /\ Running(t) /\ "Permanent" \in Errors
      /\ task \in [Tasks -> TaskStates]
      /\ cache \in [Slots -> SUBSET Records]
      /\ task' = [task EXCEPT ![t] = Failed(t, "Permanent")]
      /\ UNCHANGED <<org, nextId, cache, req, seen, drift>>
  BY DEF Reject, Running, Errors, ClientInv, TypeOK
<1>2. ClientInv'
  BY <1>1, FailedShape, MoveKeepsInv
<1>3. Quiet
  BY <1>1, FailedShape DEF Quiet
<1> QED
  BY <1>2, <1>3, QuietKeeps

\* A decision that fits the request leads to an allowed write, or to no claim.
LEMMA ReadKeeps ==
  ASSUME ProvisionerInv, NEW t \in Tasks, NEW d, FitDecision(req[t], d), Read(t, d)
  PROVE  ProvisionerInv'
<1> USE DEF ProvisionerInv
<1>1. d \in Decisions
  BY DEF FitDecision
<1>2. ClientInv'
  BY <1>1, ReadKeepsInv
<1>3. /\ Running(t) /\ UNCHANGED <<req, seen>>
      /\ task \in [Tasks -> TaskStates]
      /\ task[t].answer = "none"
      /\ task' = [task EXCEPT ![t] =
           IF d.outcome = "write" THEN [task[t] EXCEPT !.pc = "write", !.call = d.call]
           ELSE Outcome(t, d.outcome)]
  BY DEF Read, Running, ClientInv, TypeOK, AnswerLast
<1>4. CASE d.outcome = "write"
  <2>1. /\ task'[t].call = d.call /\ task'[t].answer = "none"
        /\ \A u \in Tasks : u # t => task'[u] = task[u]
    BY <1>3, <1>4 DEF TaskStates
  <2>2. WriteAllowed'
    BY <1>3, <1>4, <2>1 DEF WriteAllowed, FitDecision
  <2>3. DoneWitnessed'
    BY <1>3, <2>1 DEF DoneWitnessed, Witnessed
  <2> QED
    BY <1>2, <2>2, <2>3
<1>5. CASE d.outcome # "write"
  <2>1. d.outcome # "done" /\ d.outcome \in {"done", "already"} \cup Errors
    BY <1>1, <1>5 DEF Decisions, Errors
  <2>2. task'[t].answer # "done" /\ task'[t].pc # "write"
    BY <1>3, <1>5, <2>1, OutcomeShape
  <2>3. Quiet
    BY <1>3, <2>2 DEF Quiet
  <2> QED
    BY <1>2, <2>3, QuietKeeps
<1> QED
  BY <1>4, <1>5

\* A write that is confirmed put the slot into the goal: a witness.
LEMMA WriteRepliedKeeps ==
  ASSUME ProvisionerInv, NEW t \in Tasks, NEW f, FitTranslation(f), WriteReplied(t, f)
  PROVE  /\ ProvisionerInv'
         /\ task'[t].pc # "write" /\ req' = req
         /\ \A u \in Tasks : u # t => task'[u] = task[u]
<1> USE DEF ProvisionerInv
<1>1. PICK reply \in Replies :
        Serve(t, reply) /\ task' = [task EXCEPT ![t] = Outcome(t, f[reply])]
  BY DEF WriteReplied
<1>2. ClientInv'
  BY WriteRepliedKeepsInv DEF FitTranslation
<1>3. /\ task[t].pc = "write" /\ Running(t) /\ req' = req
      /\ task \in [Tasks -> TaskStates]
      /\ SlotOf(t) \in Slots
  BY RequestsAssumption DEF WriteReplied, Running, ClientInv, TypeOK, SlotOf
<1>4. f[reply] \in {"done", "already"} \cup Errors
  BY DEF FitTranslation
<1>5. /\ task'[t].pc # "write"
      /\ task'[t].answer = "done" => f[reply] = "done"
      /\ \A u \in Tasks : u # t => task'[u] = task[u]
  BY <1>1, <1>3, <1>4, OutcomeShape
<1>6. WriteAllowed'
  BY <1>3, <1>5 DEF WriteAllowed
<1>7. \A u \in Tasks : seen[u] \subseteq seen'[u]
  BY <1>1, <1>3, ServeEffect, BecomesAdds DEF ClientInv
<1>8. ASSUME task'[t].answer = "done" PROVE seen'[t] \cap Goal[req[t]] # {}
  <2>1. reply = "ok"
    BY <1>5, <1>8 DEF FitTranslation
  <2>2. PICK rec \in Records : /\ Becomes(SlotOf(t), rec)
                               /\ ValueOf(rec) \in Goal[req[t]]
    BY <1>1, <1>3, <2>1, AppliedWrite
  <2>3. ValueOf(rec) \in seen'[t]
    BY <1>3, <2>2, BecomesAdds DEF ClientInv
  <2> QED
    BY <2>2, <2>3
<1>9. DoneWitnessed'
  BY <1>3, <1>5, <1>7, <1>8 DEF DoneWitnessed, Witnessed
<1> QED
  BY <1>2, <1>3, <1>5, <1>6, <1>9

-----------------------------------------------------------------------------
(* The refinement.                                                         *)

ValueNow == [s \in Slots |-> ValueOf(org[s])]
StatusNow == [t \in Tasks |-> Status(t)]

\* A task is running for the contract when its handler is.
LEMMA StatusRunning ==
  ASSUME TypeOK, NEW t \in Tasks
  PROVE  StatusNow[t] = "running" <=> Running(t)
BY DEF StatusNow, Status, Running, TypeOK, TaskStates, Answers

\* A change of a slot is the contract's Set.
LEMMA BecomesIsSet ==
  ASSUME TypeOK, NEW s \in Slots, NEW rec \in Records, Becomes(s, rec)
  PROVE  Contract!Set(s, ValueOf(rec)) /\ ValueOf(rec) \in SlotValues
<1>1. ValueNow' = [ValueNow EXCEPT ![s] = ValueOf(rec)]
  BY DEF ValueNow, Becomes, TypeOK, ValueOf
<1>2. seen' = [t \in Tasks |-> IF StatusNow[t] = "running" /\ req[t].slot = s
                                 THEN seen[t] \cup {ValueOf(rec)} ELSE seen[t]]
  BY StatusRunning DEF Becomes, SlotOf
<1> QED
  BY <1>1, <1>2 DEF Contract!Set, ValueNow, StatusNow, ValueOf, SlotValues, Records

\* A running task that answers, and changes nothing else the contract sees.
LEMMA MoveIsAnswer ==
  ASSUME TypeOK, NEW t \in Tasks, Running(t), NEW st \in TaskStates,
         task' = [task EXCEPT ![t] = st], UNCHANGED <<org, req, seen, drift>>,
         st.pc # "idle",
         st.pc = "answered" => st.answer \in {"already", "error"}
  PROVE  Contract!Next \/ UNCHANGED Contract!vars
<1>1. task \in [Tasks -> TaskStates]
  BY DEF TypeOK
<1>2. ValueNow' = ValueNow
  BY DEF ValueNow, ValueOf
<1>3. CASE st.pc # "answered"
  <2>1. StatusNow' = StatusNow
    BY <1>1, <1>3 DEF StatusNow, Status, Running
  <2> QED
    BY <1>2, <2>1 DEF Contract!vars, ValueNow, StatusNow
<1>4. CASE st.pc = "answered"
  <2>1. StatusNow' = [StatusNow EXCEPT ![t] = st.answer]
    BY <1>1, <1>4 DEF StatusNow, Status, Running
  <2>2. StatusNow[t] = "running"
    BY StatusRunning
  <2>3. Contract!Answer(t, st.answer)
    BY <1>4, <2>1, <2>2 DEF Contract!Answer, StatusNow
  <2>4. Contract!Work(t)
    BY <1>2, <1>4, <2>3 DEF Contract!Work, ValueNow
  <2> QED
    BY <2>4 DEF Contract!Next
<1> QED
  BY <1>3, <1>4

\* A write that is applied, and the handler returns in the same step.
LEMMA WriteIsWork ==
  ASSUME ProvisionerInv, NEW t \in Tasks, task[t].pc = "write", Serve(t, "ok"),
         NEW st \in TaskStates, task' = [task EXCEPT ![t] = st],
         UNCHANGED <<req, drift>>,
         st.pc \in {"wait", "answered"},
         st.pc = "answered" => st.answer \in {"done", "error"}
  PROVE  Contract!Next
<1>1. task \in [Tasks -> TaskStates] /\ TypeOK /\ Running(t) /\ SlotOf(t) \in Slots
  BY RequestsAssumption DEF ProvisionerInv, ClientInv, TypeOK, Running, SlotOf
<1>2. PICK rec \in Records : /\ Becomes(SlotOf(t), rec)
                             /\ ValueOf(rec) \in Allowed[req[t]]
                             /\ ValueOf(rec) \in Goal[req[t]]
  BY AppliedWrite
<1>3. Contract!Set(SlotOf(t), ValueOf(rec)) /\ ValueOf(rec) \in SlotValues
  BY <1>1, <1>2, BecomesIsSet
<1>4. StatusNow[t] = "running"
  BY <1>1, StatusRunning
<1>5. Contract!Effect(t, ValueOf(rec))
  BY <1>2, <1>3, <1>4 DEF Contract!Effect, SlotOf, StatusNow
<1>6. CASE st.pc = "wait"
  <2>1. StatusNow' = StatusNow
    BY <1>1, <1>6 DEF StatusNow, Status, Running
  <2> QED
    BY <1>3, <1>5, <2>1 DEF Contract!Next, Contract!Work, StatusNow
<1>7. CASE st.pc = "answered"
  <2>1. StatusNow' = [StatusNow EXCEPT ![t] = st.answer]
    BY <1>1, <1>7 DEF StatusNow, Status, Running
  <2>2. ValueOf(rec) \in seen'[t]
    BY <1>1, <1>2, BecomesAdds
  <2>3. Contract!Answer(t, st.answer)
    BY <1>2, <1>4, <2>1, <2>2 DEF Contract!Answer, StatusNow
  <2> QED
    BY <1>3, <1>5, <1>7, <2>3 DEF Contract!Next, Contract!Work
<1> QED
  BY <1>6, <1>7

\* Drift is the drift of the contract; the contract has no cache.
LEMMA EnvironmentIsContractStep ==
  ASSUME ProvisionerInv, Environment \/ UNCHANGED clientVars
  PROVE  Contract!Next \/ UNCHANGED Contract!vars
<1>1. TypeOK
  BY DEF ProvisionerInv, ClientInv
<1>2. CASE ClearCaches \/ (\E s \in Slots : CacheEvict(s)) \/ UNCHANGED clientVars
  <2>1. UNCHANGED <<org, req, task, seen, drift>>
    BY <1>2 DEF ClearCaches, CacheEvict, clientVars
  <2> QED
    BY <2>1 DEF Contract!vars, Status, ValueOf
<1>3. ASSUME NEW s \in Slots, Drift(s) PROVE Contract!Next
  <2>1. PICK rec \in Records : Becomes(s, rec)
    BY <1>1, <1>3, NotFoundIsRecord DEF Drift, DriftCreate, DriftUpdate, DriftDelete, TypeOK, Records
  <2>2. Contract!Set(s, ValueOf(rec)) /\ ValueOf(rec) \in SlotValues
    BY <1>1, <2>1, BecomesIsSet
  <2>3. UNCHANGED <<req, task>> /\ drift' = drift + 1
    BY <1>3 DEF Drift
  <2>4. Contract!Drift(s, ValueOf(rec))
    BY <2>2, <2>3 DEF Contract!Drift, Status
  <2> QED
    BY <2>2, <2>4 DEF Contract!Next
<1> QED
  BY <1>2, <1>3 DEF Environment

\* A task begins for the contract when it begins.
LEMMA BeginIsContractStep ==
  ASSUME ProvisionerInv, NEW t \in Tasks, Begin(t)
  PROVE  Contract!Next
<1>1. TypeOK /\ task \in [Tasks -> TaskStates]
  BY DEF ProvisionerInv, ClientInv, TypeOK
<1>2. /\ task[t].pc = "idle"
      /\ task' = [task EXCEPT ![t].pc = "start"]
      /\ seen' = [seen EXCEPT ![t] = {ValueOf(org[SlotOf(t)])}]
      /\ UNCHANGED <<org, req, drift>>
  BY DEF Begin
<1>3. StatusNow[t] = "idle" /\ StatusNow' = [StatusNow EXCEPT ![t] = "running"]
  BY <1>1, <1>2 DEF StatusNow, Status, TaskStates
<1>4. SlotOf(t) \in Slots /\ ValueOf(org[SlotOf(t)]) = ValueNow[SlotOf(t)]
  BY <1>1, RequestsAssumption DEF SlotOf, TypeOK, ValueNow
<1>5. ValueNow' = ValueNow
  BY <1>2 DEF ValueNow, ValueOf
<1>6. Contract!Begin(t)
  BY <1>2, <1>3, <1>4, <1>5 DEF Contract!Begin, StatusNow, ValueNow, SlotOf
<1> QED
  BY <1>6 DEF Contract!Next

\* A lost reply is an effect with or without an error; the rest is an error or nothing.
LEMMA ClientStepIsContractStep ==
  ASSUME ProvisionerInv, NEW t \in Tasks, ClientStep(t) \/ Reject(t)
  PROVE  Contract!Next \/ UNCHANGED Contract!vars
<1> USE DEF ProvisionerInv
<1>1. TypeOK /\ task \in [Tasks -> TaskStates]
  BY DEF ClientInv, TypeOK
<1>2. CASE Retry(t) \/ Cancelled(t) \/ CacheHit(t) \/ CacheMiss(t) \/ getSObject(t)
  <2>1. Running(t) /\ UNCHANGED <<org, req, seen, drift>>
    BY <1>2 DEF Retry, Cancelled, CacheHit, CacheMiss, getSObject, Running
  <2>2. /\ task' = [task EXCEPT ![t] = task'[t]]
        /\ task'[t].pc # "idle"
        /\ task'[t].pc = "answered" => task'[t].answer \in {"already", "error"}
    <3>1. CASE Retry(t)
      BY <1>1, <3>1 DEF Retry, TaskStates
    <3>2. CASE Cancelled(t)
      BY <1>1, <3>2 DEF Cancelled, TaskStates
    <3>3. CASE CacheHit(t)
      BY <1>1, <3>3 DEF CacheHit, TaskStates
    <3>4. CASE CacheMiss(t)
      BY <1>1, <3>4 DEF CacheMiss, TaskStates
    <3>5. CASE getSObject(t)
      BY <1>1, <3>5 DEF getSObject, TaskStates
    <3> QED
      BY <1>2, <3>1, <3>2, <3>3, <3>4, <3>5
  <2>3. task'[t] \in TaskStates
    BY <1>2, ClientStepKeepsInv DEF ClientStep, QueryStep, ClientInv, TypeOK
  <2> QED
    BY <1>1, <2>1, <2>2, <2>3, MoveIsAnswer
<1>3. CASE QueryFails(t) \/ WriteFails(t) \/ Reject(t)
  <2>1. PICK e \in {"Transient", "Permanent"} : task' = [task EXCEPT ![t] = Failed(t, e)]
    BY <1>3 DEF QueryFails, WriteFails, Reject
  <2>2. Running(t) /\ UNCHANGED <<org, req, seen, drift>> /\ e \in Errors
    BY <1>3 DEF QueryFails, WriteFails, Reject, Running, Errors
  <2>3. /\ Failed(t, e) \in TaskStates /\ Failed(t, e).pc # "idle"
        /\ Failed(t, e).pc = "answered" => Failed(t, e).answer \in {"already", "error"}
    BY <2>2, FailedAnswer, FailedShape
  <2> QED
    BY <1>1, <2>1, <2>2, <2>3, MoveIsAnswer
<1>4. CASE WriteReplyLost(t)
  <2>1. PICK e \in {"Transient", "Permanent"} : task' = [task EXCEPT ![t] = Failed(t, e)]
    BY <1>4 DEF WriteReplyLost
  <2>2. /\ task[t].pc = "write" /\ Serve(t, "ok") /\ UNCHANGED <<req, drift>>
        /\ Running(t) /\ e \in Errors
    BY <1>4 DEF WriteReplyLost, Running, Errors
  <2>3. /\ Failed(t, e) \in TaskStates /\ Failed(t, e).pc \in {"wait", "answered"}
        /\ Failed(t, e).pc = "answered" => Failed(t, e).answer \in {"done", "error"}
    BY <2>2, FailedAnswer, FailedShape
  <2> QED
    BY <2>1, <2>2, <2>3, WriteIsWork
<1> QED
  BY <1>2, <1>3, <1>4 DEF ClientStep, QueryStep, WriteStep

\* A read answers "already" or an error, or is nothing to the contract.
LEMMA ReadIsContractStep ==
  ASSUME ProvisionerInv, NEW t \in Tasks, NEW d, FitDecision(req[t], d), Read(t, d)
  PROVE  Contract!Next \/ UNCHANGED Contract!vars
<1> USE DEF ProvisionerInv
<1> DEFINE st == IF d.outcome = "write"
                   THEN [task[t] EXCEPT !.pc = "write", !.call = d.call]
                   ELSE Outcome(t, d.outcome)
<1>1. d \in Decisions /\ TypeOK /\ task \in [Tasks -> TaskStates]
  BY DEF FitDecision, ClientInv, TypeOK
<1>2. /\ Running(t) /\ UNCHANGED <<org, req, seen, drift>>
      /\ task' = [task EXCEPT ![t] = st]
  BY DEF Read, Running
<1>3. /\ st \in TaskStates /\ st.pc # "idle"
      /\ st.pc = "answered" => st.answer \in {"already", "error"}
  <2>1. CASE d.outcome = "write"
    BY <1>1, <2>1 DEF Decisions, TaskStates, Points
  <2>2. CASE d.outcome # "write"
    <3>1. d.outcome \in {"already", "Missing"} /\ d.outcome \in {"done", "already"} \cup Errors
      BY <1>1, <2>2 DEF Decisions, Errors
    <3>2. Outcome(t, d.outcome).pc = "answered"
            => Outcome(t, d.outcome).answer \in {"already", "error"}
      BY <1>2, <3>1, OutcomeAnswer
    <3> QED
      BY <1>2, <2>2, <3>1, <3>2, OutcomeShape
  <2> QED
    BY <2>1, <2>2
<1> HIDE DEF st
<1> QED
  BY <1>1, <1>2, <1>3, MoveIsAnswer

\* A confirmed write is an effect and an answer in one step.
LEMMA WriteRepliedIsContractStep ==
  ASSUME ProvisionerInv, NEW t \in Tasks, NEW f, FitTranslation(f), WriteReplied(t, f)
  PROVE  Contract!Next \/ UNCHANGED Contract!vars
<1> USE DEF ProvisionerInv
<1>1. PICK reply \in Replies :
        Serve(t, reply) /\ task' = [task EXCEPT ![t] = Outcome(t, f[reply])]
  BY DEF WriteReplied
<1>2. /\ task[t].pc = "write" /\ Running(t) /\ UNCHANGED <<req, drift>> /\ TypeOK
      /\ f[reply] \in {"done", "already"} \cup Errors
  BY DEF WriteReplied, Running, FitTranslation, ClientInv
<1>3. /\ Outcome(t, f[reply]) \in TaskStates
      /\ Outcome(t, f[reply]).pc \in {"wait", "answered"}
  BY <1>2, OutcomeShape
<1>4. CASE reply = "ok"
  <2>1. Outcome(t, f[reply]).answer = "done"
    BY <1>2, <1>4, OutcomeShape DEF FitTranslation
  <2> QED
    BY <1>1, <1>2, <1>3, <1>4, <2>1, WriteIsWork
<1>5. CASE reply # "ok"
  <2>1. UNCHANGED <<org, seen>>
    BY <1>1, <1>5, ServeEffect
  <2>2. f[reply] # "done"
    BY <1>5 DEF FitTranslation
  <2>3. Outcome(t, f[reply]).pc = "answered"
          => Outcome(t, f[reply]).answer \in {"already", "error"}
    BY <1>2, <2>2, OutcomeAnswer
  <2> QED
    BY <1>1, <1>2, <1>3, <2>1, <2>3, MoveIsAnswer
<1> QED
  BY <1>4, <1>5

\* The initial states map to initial states of the contract.
LEMMA InitIsContractInit == ClientInit => Contract!Init
<1> SUFFICES ASSUME ClientInit PROVE Contract!Init
  OBVIOUS
<1>1. TypeOK
  BY ClientInitInv DEF ClientInv
<1>2. [s \in Slots |-> ValueOf(org[s])] \in [Slots -> SlotValues]
  BY <1>1 DEF TypeOK, ValueOf, SlotValues, Records
<1>3. [t \in Tasks |-> Status(t)] = [t \in Tasks |-> "idle"]
  BY DEF ClientInit, IdleTask, Status
<1> QED
  BY <1>2, <1>3 DEF ClientInit, Contract!Init

-----------------------------------------------------------------------------
(* What the record a handler holds, and its copies in the cache, have to   *)
(* do with the history of the slot.                                        *)

\* The record of slot s keeps its Id, comes or goes.
KeepsId(s) == org'[s].id = org[s].id \/ org[s] = NotFound \/ org'[s] = NotFound

\* A step of task t: it touches no other slot and no other task.
StepOf(t) ==
  /\ UNCHANGED <<req, drift>>
  /\ \A u \in Tasks : u # t => task'[u] = task[u] /\ seen[u] \subseteq seen'[u]
  /\ task'[t].pc # "idle"
  /\ \A s \in Slots : KeepsId(s) /\ (s # SlotOf(t) => org'[s] = org[s] /\ cache'[s] = cache[s])

(* A step in which t does not write: the record it then holds is the one   *)
(* it held, a cached one, or the slot's.                                   *)
Looking(t) ==
  /\ StepOf(t)
  /\ org' = org
  /\ Holding(t)' => Running(t) /\ seen'[t] = seen[t]
  /\ cache'[SlotOf(t)] \subseteq Copies(t)
  /\ Holding(t)' =>
       \/ task'[t].rec = org[SlotOf(t)]
       \/ task'[t].cached /\ task'[t].rec \in cache[SlotOf(t)]
       \/ Holding(t) /\ task'[t].rec = task[t].rec /\ task'[t].cached = task[t].cached

\* A step in which t writes, or fails to.
Writing(t) ==
  /\ StepOf(t)
  /\ task[t].pc = "write" /\ ~Holding(t)'
  /\ cache' = cache
  /\ org' = org \/ Serve(t, "ok")

\* A step that does not move t: what is not its slot's is nothing to it.
AsideOf(t) ==
  /\ req' = req /\ task'[t] = task[t] /\ seen[t] \subseteq seen'[t]
  /\ KeepsId(SlotOf(t))
  /\ Undisturbed(t)' => /\ Undisturbed(t)
                        /\ org'[SlotOf(t)] = org[SlotOf(t)]
                        /\ cache'[SlotOf(t)] \subseteq cache[SlotOf(t)]

\* Every request is about a slot.
LEMMA SlotIsSlot ==
  ASSUME ClientInv, NEW t \in Tasks
  PROVE  SlotOf(t) \in Slots /\ req[t] \in Requests /\ (req' = req => SlotOf(t)' = SlotOf(t))
BY RequestsAssumption DEF ClientInv, TypeOK, SlotOf

\* A slot that changes gets a new record, keeps its Id or loses its record.
LEMMA BecomesKeepsId ==
  ASSUME ClientInv, NEW s \in Slots, NEW rec, Becomes(s, rec),
         rec.id = org[s].id \/ org[s] = NotFound \/ rec = NotFound
  PROVE  /\ \A q \in Slots : KeepsId(q) /\ (q # s => org'[q] = org[q])
         /\ \A u \in Tasks : seen[u] \subseteq seen'[u]
<1>1. org \in [Slots -> Records] /\ org' = [org EXCEPT ![s] = rec] /\ TypeOK
  BY DEF ClientInv, TypeOK, Becomes
<1>2. \A q \in Slots : KeepsId(q) /\ (q # s => org'[q] = org[q])
  BY <1>1 DEF KeepsId
<1> QED
  BY <1>1, <1>2, BecomesAdds

\* A write that is applied creates only where there is nothing.
LEMMA ServeKeepsId ==
  ASSUME ClientInv, NEW t \in Tasks, Serve(t, "ok")
  PROVE  /\ \A s \in Slots : KeepsId(s) /\ (s # SlotOf(t) => org'[s] = org[s])
         /\ \A u \in Tasks : seen[u] \subseteq seen'[u]
<1>1. SlotOf(t) \in Slots /\ org \in [Slots -> Records]
  BY SlotIsSlot DEF ClientInv, TypeOK
<1>2. CASE ServeCreate(t, "ok")
  BY <1>1, <1>2, BecomesKeepsId DEF ServeCreate
<1>3. CASE ServeById(t, "ok")
  <2>1. PICK q \in Slots :
          /\ org[q] # NotFound /\ org[q].id = task[t].rec.id
          /\ Becomes(q, IF task[t].call.op = "delete" THEN NotFound
                        ELSE [org[q] EXCEPT !.value = task[t].call.value])
    BY <1>3 DEF ServeById
  <2>2. q = SlotOf(t)
    BY <2>1 DEF ClientInv, IdsOwned, OwnedBy
  <2>3. [org[q] EXCEPT !.value = task[t].call.value].id = org[q].id
    BY <1>1 DEF Records
  <2> QED
    BY <2>1, <2>2, <2>3, BecomesKeepsId
<1> QED
  BY <1>2, <1>3 DEF Serve

-----------------------------------------------------------------------------
(* The steps of the layer, in these terms.                                 *)

\* A step that leaves the org, the histories and the cache alone.
LEMMA MoveIsStep ==
  ASSUME ClientInv, NEW t \in Tasks, UNCHANGED <<org, req, seen, drift, cache>>,
         \A u \in Tasks : u # t => task'[u] = task[u], task'[t].pc # "idle"
  PROVE  StepOf(t)
BY SlotIsSlot DEF StepOf, KeepsId

\* A task that begins holds nothing.
LEMMA BeginIsLooking ==
  ASSUME ClientInv, NEW t \in Tasks, Begin(t)
  PROVE  Looking(t) /\ task'[t] = [task[t] EXCEPT !.pc = "start"]
<1>1. /\ task \in [Tasks -> TaskStates]
      /\ task' = [task EXCEPT ![t].pc = "start"]
      /\ UNCHANGED <<org, nextId, cache, req, drift>>
      /\ seen \in [Tasks -> SUBSET SlotValues]
      /\ seen' = [seen EXCEPT ![t] = {ValueOf(org[SlotOf(t)])}]
  BY DEF Begin, ClientInv, TypeOK
<1>2. /\ task'[t].pc = "start" /\ task'[t] = [task[t] EXCEPT !.pc = "start"]
      /\ \A u \in Tasks : u # t => task'[u] = task[u] /\ seen'[u] = seen[u]
  BY <1>1 DEF TaskStates
<1>3. StepOf(t)
  BY <1>1, <1>2 DEF StepOf, KeepsId
<1> QED
  BY <1>1, <1>2, <1>3 DEF Looking, Holding, Copies

\* The lookup in the cache, the request, a pause and its end.
LEMMA QueryIsLooking ==
  ASSUME ClientInv, NEW t \in Tasks,
         Retry(t) \/ Cancelled(t) \/ CacheHit(t) \/ CacheMiss(t) \/ getSObject(t)
  PROVE  /\ Looking(t)
         /\ task'[t].answer = "error" \/ task'[t].answer = task[t].answer
         /\ task'[t].err = "Transient" \/ task'[t].err = task[t].err
         /\ task'[t].pc = "answered" => task'[t].answer = "error" /\ task'[t].err = "Transient"
         /\ task'[t].pc # "answered" => task'[t].err = task[t].err
<1>1. /\ task \in [Tasks -> TaskStates]
      /\ UNCHANGED <<org, nextId, cache, req, seen, drift>>
  BY DEF Retry, Cancelled, CacheHit, CacheMiss, getSObject, ClientInv, TypeOK
<1>2. CASE Retry(t)
  <2>1. /\ task'[t].pc = "start" /\ task'[t].answer = task[t].answer
        /\ task'[t].err = task[t].err /\ \A u \in Tasks : u # t => task'[u] = task[u]
    BY <1>1, <1>2 DEF Retry, TaskStates
  <2> QED
    BY <1>1, <2>1, MoveIsStep DEF Looking, Holding, Copies
<1>3. CASE Cancelled(t)
  <2>1. /\ task'[t].pc = "answered" /\ task'[t].answer = "error"
        /\ task'[t].err = "Transient" /\ \A u \in Tasks : u # t => task'[u] = task[u]
    BY <1>1, <1>3 DEF Cancelled, TaskStates
  <2> QED
    BY <1>1, <2>1, MoveIsStep DEF Looking, Holding, Copies
<1>4. CASE CacheHit(t)
  <2>1. PICK rec \in cache[SlotOf(t)] :
          task' = [task EXCEPT ![t].pc = "response", ![t].rec = rec, ![t].cached = TRUE]
    BY <1>4 DEF CacheHit
  <2>2. /\ task'[t].pc = "response" /\ task'[t].answer = task[t].answer
        /\ task'[t].rec = rec /\ task'[t].cached
        /\ task'[t].err = task[t].err /\ \A u \in Tasks : u # t => task'[u] = task[u]
    BY <1>1, <2>1 DEF TaskStates
  <2> QED
    BY <1>1, <1>4, <2>2, MoveIsStep DEF Looking, Copies, CacheHit, Running
<1>5. CASE CacheMiss(t)
  <2>1. /\ task'[t].pc = "send" /\ task'[t].answer = task[t].answer
        /\ task'[t].err = task[t].err /\ \A u \in Tasks : u # t => task'[u] = task[u]
    BY <1>1, <1>5 DEF CacheMiss, TaskStates
  <2> QED
    BY <1>1, <2>1, MoveIsStep DEF Looking, Holding, Copies
<1>6. CASE getSObject(t)
  <2>1. /\ task'[t].pc = "response" /\ task'[t].answer = task[t].answer
        /\ task'[t].rec = org[SlotOf(t)]
        /\ task'[t].err = task[t].err /\ \A u \in Tasks : u # t => task'[u] = task[u]
    BY <1>1, <1>6 DEF getSObject, TaskStates
  <2> QED
    BY <1>1, <1>6, <2>1, MoveIsStep DEF Looking, Copies, getSObject, Running
<1> QED
  BY <1>2, <1>3, <1>4, <1>5, <1>6

\* How a handler that returns an error, or an outcome, ends.
LEMMA OutcomeEnds ==
  ASSUME ClientInv, NEW t \in Tasks, Running(t), NoErrorYet(t),
         NEW o \in {"done", "already"} \cup Errors
  PROVE  /\ Outcome(t, o).answer = "already" => o = "already"
         /\ Outcome(t, o).err \in {"none", o}
         /\ Outcome(t, o).answer \in {"done", "already"} => Outcome(t, o).err = "none"
         /\ Outcome(t, o).pc # "answered" => Outcome(t, o).err = "none"
         /\ Outcome(t, o).pc = "answered" => Outcome(t, o).cached = task[t].cached
<1>1. task[t] \in TaskStates /\ task[t].answer = "none" /\ task[t].err = "none"
  BY DEF ClientInv, TypeOK, AnswerLast, Running, NoErrorYet
<1>2. /\ Returned(t) \in TaskStates /\ Returned(t).answer = "none" /\ Returned(t).err = "none"
      /\ Returned(t).cached = task[t].cached
  BY <1>1, NotFoundIsRecord DEF Returned, TaskStates
<1>3. CASE o \in {"done", "already"}
  BY <1>2, <1>3 DEF Outcome, TaskStates
<1>4. CASE o \notin {"done", "already"}
  <2> DEFINE n == IF o = "Transient" THEN task[t].attempts + 1 ELSE task[t].attempts
  <2>1. \/ Outcome(t, o) = [Returned(t) EXCEPT !.pc = "wait", !.cached = FALSE, !.attempts = n]
        \/ Outcome(t, o) = [Returned(t) EXCEPT !.pc = "answered", !.attempts = n,
                                               !.answer = "error", !.err = o]
    BY <1>4 DEF Outcome, Failed
  <2> HIDE DEF n
  <2> QED
    BY <1>2, <1>4, <2>1 DEF TaskStates
<1> QED
  BY <1>3, <1>4

\* Only a transient error is not the answer.
LEMMA OutcomeAnswers ==
  ASSUME ClientInv, NEW t \in Tasks, Running(t), NoErrorYet(t),
         NEW o \in {"done", "already"} \cup Errors, o # "Transient"
  PROVE  /\ Outcome(t, o).pc = "answered" /\ Outcome(t, o).cached = task[t].cached
         /\ o \in {"done", "already"} => Outcome(t, o).answer = o /\ Outcome(t, o).err = "none"
         /\ o \in Errors => Outcome(t, o).answer = "error" /\ Outcome(t, o).err = o
<1>1. task[t] \in TaskStates /\ task[t].err = "none"
  BY DEF ClientInv, TypeOK, Running, NoErrorYet
<1>2. Returned(t) \in TaskStates /\ Returned(t).err = "none" /\ Returned(t).cached = task[t].cached
  BY <1>1, NotFoundIsRecord DEF Returned, TaskStates
<1>3. CASE o \in {"done", "already"}
  BY <1>2, <1>3 DEF Outcome, TaskStates, Errors
<1>4. CASE o \notin {"done", "already"}
  <2>1. Outcome(t, o) = [Returned(t) EXCEPT !.pc = "answered", !.attempts = task[t].attempts,
                                            !.answer = "error", !.err = o]
    BY <1>4 DEF Outcome, Failed
  <2> QED
    BY <1>2, <1>4, <2>1 DEF TaskStates
<1> QED
  BY <1>3, <1>4

\* An error is an outcome.
LEMMA FailedIsOutcome ==
  ASSUME NEW t \in Tasks, NEW e \in Errors
  PROVE  Failed(t, e) = Outcome(t, e)
BY DEF Outcome, Errors

\* A task that returns without a write has looked, and holds nothing any more.
LEMMA ReturnIsLooking ==
  ASSUME ClientInv, NEW t \in Tasks, Running(t), NEW o \in {"done", "already"} \cup Errors,
         task' = [task EXCEPT ![t] = Outcome(t, o)],
         UNCHANGED <<org, req, seen, drift, cache>>
  PROVE  Looking(t) /\ task'[t] = Outcome(t, o) /\ ~Holding(t)'
<1>1. task \in [Tasks -> TaskStates]
  BY DEF ClientInv, TypeOK
<1>2. task'[t].pc \in {"wait", "answered"} /\ task'[t] = Outcome(t, o)
  BY <1>1, OutcomeShape
<1>3. StepOf(t)
  BY <1>1, <1>2, MoveIsStep
<1> QED
  BY <1>2, <1>3 DEF Looking, Holding, Copies

\* A query that fails, and a refused request.
LEMMA FailureIsLooking ==
  ASSUME ClientInv, NEW t \in Tasks, QueryFails(t) \/ Reject(t)
  PROVE  /\ Looking(t) /\ Running(t)
         /\ \E e \in {"Transient", "Permanent"} : task'[t] = Outcome(t, e)
<1>1. PICK e \in {"Transient", "Permanent"} : task' = [task EXCEPT ![t] = Failed(t, e)]
  BY DEF QueryFails, Reject
<1>2. Running(t) /\ e \in Errors /\ UNCHANGED <<org, req, seen, drift, cache>>
  BY DEF QueryFails, Reject, Running, Errors
<1> QED
  BY <1>1, <1>2, FailedIsOutcome, ReturnIsLooking

\* The answer of a query is stored: the cache gets what the handler holds.
LEMMA ReadIsLooking ==
  ASSUME ClientInv, NEW t \in Tasks, NEW d \in Decisions, Read(t, d)
  PROVE  /\ Looking(t) /\ Running(t) /\ Holding(t)
         /\ UNCHANGED <<org, seen, req>>
         /\ d.outcome = "write" => /\ task'[t].pc = "write" /\ task'[t].call = d.call
                                   /\ task'[t].rec = task[t].rec
                                   /\ task'[t].answer = task[t].answer /\ task'[t].err = task[t].err
         /\ d.outcome # "write" => task'[t] = Outcome(t, d.outcome)
<1>1. /\ task \in [Tasks -> TaskStates] /\ cache \in [Slots -> SUBSET Records]
      /\ SlotOf(t) \in Slots /\ Running(t) /\ Holding(t)
      /\ UNCHANGED <<org, req, seen, drift>>
      /\ cache' = [cache EXCEPT ![SlotOf(t)] = {task[t].rec}]
      /\ task' = [task EXCEPT ![t] =
           IF d.outcome = "write" THEN [task[t] EXCEPT !.pc = "write", !.call = d.call]
           ELSE Outcome(t, d.outcome)]
  BY SlotIsSlot DEF Read, Stored, Running, Holding, ClientInv, TypeOK
<1>2. /\ cache'[SlotOf(t)] \subseteq Copies(t)
      /\ \A s \in Slots : KeepsId(s) /\ (s # SlotOf(t) => org'[s] = org[s] /\ cache'[s] = cache[s])
  BY <1>1 DEF Copies, KeepsId
<1>3. CASE d.outcome = "write"
  <2>1. /\ task'[t].pc = "write" /\ task'[t].call = d.call /\ task'[t].rec = task[t].rec
        /\ task'[t].cached = task[t].cached
        /\ task'[t].answer = task[t].answer /\ task'[t].err = task[t].err
        /\ \A u \in Tasks : u # t => task'[u] = task[u]
    BY <1>1, <1>3 DEF TaskStates
  <2>2. StepOf(t)
    BY <1>1, <1>2, <2>1 DEF StepOf
  <2> QED
    BY <1>1, <1>2, <1>3, <2>1, <2>2 DEF Looking
<1>4. CASE d.outcome # "write"
  <2>1. d.outcome \in {"done", "already"} \cup Errors
    BY <1>4 DEF Decisions, Errors
  <2>2. /\ task'[t] = Outcome(t, d.outcome) /\ task'[t].pc \in {"wait", "answered"}
        /\ \A u \in Tasks : u # t => task'[u] = task[u]
    BY <1>1, <1>4, <2>1, OutcomeShape
  <2>3. StepOf(t)
    BY <1>1, <1>2, <2>2 DEF StepOf
  <2> QED
    BY <1>1, <1>2, <1>4, <2>2, <2>3 DEF Looking, Holding
<1> QED
  BY <1>3, <1>4

\* A write that fails, whether it was applied or not.
LEMMA FailureIsWriting ==
  ASSUME ClientInv, NEW t \in Tasks, WriteStep(t)
  PROVE  /\ Writing(t) /\ Running(t)
         /\ \E e \in {"Transient", "Permanent"} : task'[t] = Outcome(t, e)
<1>1. PICK e \in {"Transient", "Permanent"} : task' = [task EXCEPT ![t] = Failed(t, e)]
  BY DEF WriteStep, WriteFails, WriteReplyLost
<1>2. /\ task[t].pc = "write" /\ Running(t) /\ e \in Errors
      /\ UNCHANGED <<req, drift, cache>> /\ task \in [Tasks -> TaskStates]
      /\ (UNCHANGED <<org, seen>>) \/ Serve(t, "ok")
  BY DEF WriteStep, WriteFails, WriteReplyLost, Running, Errors, ClientInv, TypeOK
<1>3. /\ task'[t] = Outcome(t, e) /\ task'[t].pc \in {"wait", "answered"}
      /\ \A u \in Tasks : u # t => task'[u] = task[u]
  BY <1>1, <1>2, FailedIsOutcome, OutcomeShape
<1>4. StepOf(t)
  BY <1>2, <1>3, ServeKeepsId DEF StepOf, KeepsId
<1> QED
  BY <1>2, <1>3, <1>4 DEF Writing, Holding

\* A write that is answered.
LEMMA RepliedIsWriting ==
  ASSUME ClientInv, NEW t \in Tasks, NEW f, FitTranslation(f), WriteReplied(t, f)
  PROVE  /\ Writing(t) /\ Running(t)
         /\ \E reply \in Replies : /\ Serve(t, reply)
                                   /\ f[reply] \in {"done", "already"} \cup Errors
                                   /\ task'[t] = Outcome(t, f[reply])
<1>1. PICK reply \in Replies :
        Serve(t, reply) /\ task' = [task EXCEPT ![t] = Outcome(t, f[reply])]
  BY DEF WriteReplied
<1>2. /\ task[t].pc = "write" /\ Running(t) /\ f[reply] \in {"done", "already"} \cup Errors
      /\ UNCHANGED <<req, drift, cache>> /\ task \in [Tasks -> TaskStates]
  BY DEF WriteReplied, Running, FitTranslation, ClientInv, TypeOK
<1>3. (UNCHANGED <<org, seen>>) \/ Serve(t, "ok")
  BY <1>1, ServeEffect
<1>4. /\ task'[t] = Outcome(t, f[reply]) /\ task'[t].pc \in {"wait", "answered"}
      /\ \A u \in Tasks : u # t => task'[u] = task[u]
  BY <1>1, <1>2, OutcomeShape
<1>5. StepOf(t)
  BY <1>2, <1>3, <1>4, ServeKeepsId DEF StepOf, KeepsId
<1> QED
  BY <1>1, <1>2, <1>3, <1>4, <1>5 DEF Writing, Holding

\* The steps of another task are nothing to t.
LEMMA OtherIsAside ==
  ASSUME ClientInv, NEW t \in Tasks, NEW u \in Tasks, u # t, StepOf(u)
  PROVE  AsideOf(t)
<1>1. SlotOf(t) \in Slots /\ \A v \in Tasks : SlotOf(v)' = SlotOf(v)
  BY SlotIsSlot DEF StepOf
<1>2. req' = req /\ task'[t] = task[t] /\ seen[t] \subseteq seen'[t] /\ KeepsId(SlotOf(t))
  BY <1>1 DEF StepOf
<1>3. ASSUME Undisturbed(t)'
      PROVE  /\ Undisturbed(t)
             /\ org'[SlotOf(t)] = org[SlotOf(t)]
             /\ cache'[SlotOf(t)] \subseteq cache[SlotOf(t)]
  <2>1. SlotOf(u) # SlotOf(t)
    BY <1>1, <1>3 DEF Undisturbed, StepOf
  <2>2. Undisturbed(t)
    BY <1>1, <1>3, <2>1 DEF Undisturbed, StepOf
  <2> QED
    BY <1>1, <2>1, <2>2 DEF StepOf
<1> QED
  BY <1>2, <1>3 DEF AsideOf

\* So is what becomes of the cache, and what others do counts as drift.
LEMMA EnvironmentIsAside ==
  ASSUME ClientInv, Environment \/ UNCHANGED clientVars, NEW t \in Tasks
  PROVE  AsideOf(t)
<1>1. SlotOf(t) \in Slots /\ org \in [Slots -> Records] /\ drift \in Nat
      /\ cache \in [Slots -> SUBSET Records]
  BY SlotIsSlot DEF ClientInv, TypeOK
<1>2. CASE ClearCaches \/ (\E s \in Slots : CacheEvict(s)) \/ UNCHANGED clientVars
  <2>1. /\ UNCHANGED <<org, req, task, seen, drift>>
        /\ cache'[SlotOf(t)] \subseteq cache[SlotOf(t)]
    BY <1>1, <1>2 DEF ClearCaches, CacheEvict, clientVars
  <2> QED
    BY <1>1, <2>1 DEF AsideOf, KeepsId, Undisturbed, SlotOf
<1>3. ASSUME NEW s \in Slots, Drift(s) PROVE AsideOf(t)
  <2>1. PICK rec : /\ Becomes(s, rec)
                   /\ rec.id = org[s].id \/ org[s] = NotFound \/ rec = NotFound
    <3>1. CASE DriftCreate(s) \/ DriftDelete(s)
      BY <3>1 DEF DriftCreate, DriftDelete
    <3>2. CASE DriftUpdate(s)
      <4>1. PICK v \in Values : Becomes(s, [org[s] EXCEPT !.value = v])
        BY <3>2 DEF DriftUpdate
      <4>2. [org[s] EXCEPT !.value = v].id = org[s].id
        BY <1>1 DEF Records
      <4> QED
        BY <4>1, <4>2
    <3> QED
      BY <1>3, <3>1, <3>2 DEF Drift
  <2>2. KeepsId(SlotOf(t)) /\ seen[t] \subseteq seen'[t]
    BY <1>1, <2>1, BecomesKeepsId
  <2>3. UNCHANGED <<req, task>> /\ drift' # 0
    BY <1>1, <1>3 DEF Drift
  <2> QED
    BY <2>2, <2>3 DEF AsideOf, Undisturbed
<1> QED
  BY <1>2, <1>3 DEF Environment

-----------------------------------------------------------------------------
(* What these steps keep.                                                  *)

\* A task that nobody disturbs after its own step was not disturbed before.
LEMMA StillUndisturbed ==
  ASSUME ClientInv, NEW t \in Tasks, StepOf(t), Undisturbed(t)'
  PROVE  Undisturbed(t)
<1>1. drift' = drift /\ \A v \in Tasks : SlotOf(v)' = SlotOf(v) /\ (v # t => task'[v] = task[v])
  BY SlotIsSlot DEF StepOf
<1> QED
  BY <1>1 DEF Undisturbed

\* A fresh record stays one while others work.
LEMMA FreshAside ==
  ASSUME ClientInv, ClientInv', NEW t \in Tasks, AsideOf(t), FreshRead(t)
  PROVE  FreshRead(t)'
<1>1. /\ SlotOf(t)' = SlotOf(t) /\ task'[t] = task[t] /\ seen[t] \subseteq seen'[t]
      /\ KeepsId(SlotOf(t))
      /\ Undisturbed(t)' => Undisturbed(t) /\ org'[SlotOf(t)] = org[SlotOf(t)]
  BY SlotIsSlot DEF AsideOf
<1>2. Holding(t)' = Holding(t)
  BY <1>1 DEF Holding
<1> SUFFICES ASSUME Holding(t), ~task[t].cached
             PROVE  /\ ValueOf(task[t].rec) \in seen'[t]
                    /\ org'[SlotOf(t)].id = task[t].rec.id \/ Absent \in seen'[t]
                    /\ Undisturbed(t)' => task[t].rec = org'[SlotOf(t)]
  BY <1>1, <1>2 DEF FreshRead, ValueOf
<1>3. /\ ValueOf(task[t].rec) \in seen[t]
      /\ org[SlotOf(t)].id = task[t].rec.id \/ Absent \in seen[t]
      /\ Undisturbed(t) => task[t].rec = org[SlotOf(t)]
  BY DEF FreshRead
<1>4. Running(t) /\ Running(t)'
  BY <1>1 DEF Running, Holding
<1>5. org[SlotOf(t)] = NotFound => Absent \in seen[t]
  BY <1>4 DEF ClientInv, SeenNow, ValueOf
<1>6. org'[SlotOf(t)] = NotFound => Absent \in seen'[t]
  BY <1>1, <1>4 DEF ClientInv, SeenNow, ValueOf
<1> QED
  BY <1>1, <1>3, <1>5, <1>6 DEF KeepsId

\* A handler that looks gets a fresh record, or a cached one.
LEMMA FreshLooking ==
  ASSUME ClientInv, NEW t \in Tasks, Looking(t), FreshRead(t)
  PROVE  FreshRead(t)'
<1>1. SlotOf(t)' = SlotOf(t) /\ SlotOf(t) \in Slots /\ org' = org /\ StepOf(t)
  BY SlotIsSlot DEF Looking, StepOf
<1> SUFFICES ASSUME Holding(t)', ~task'[t].cached
             PROVE  /\ ValueOf(task'[t].rec) \in seen'[t]
                    /\ org[SlotOf(t)].id = task'[t].rec.id \/ Absent \in seen'[t]
                    /\ Undisturbed(t)' => task'[t].rec = org[SlotOf(t)]
  BY <1>1 DEF FreshRead, ValueOf
<1>2. seen'[t] = seen[t]
  BY DEF Looking
<1>3. CASE task'[t].rec = org[SlotOf(t)]
  <2>1. ValueOf(org[SlotOf(t)]) \in seen'[t]
    BY <1>2 DEF Looking, ClientInv, SeenNow
  <2> QED
    BY <1>3, <2>1
<1>4. CASE Holding(t) /\ task'[t].rec = task[t].rec /\ task'[t].cached = task[t].cached
  BY <1>1, <1>2, <1>4, StillUndisturbed DEF FreshRead
<1> QED
  BY <1>3, <1>4 DEF Looking

\* A handler that has written holds nothing.
LEMMA FreshWriting ==
  ASSUME NEW t \in Tasks, Writing(t)
  PROVE  FreshRead(t)'
BY DEF Writing, FreshRead

\* Copies stay as they are, or are lost, while others work.
LEMMA CopiesAside ==
  ASSUME ClientInv, NEW t \in Tasks, NEW W, AsideOf(t), CopiesSettled(t, W)
  PROVE  CopiesSettled(t, W)'
<1>1. /\ SlotOf(t)' = SlotOf(t) /\ req' = req /\ task'[t] = task[t]
      /\ Undisturbed(t)' => /\ Undisturbed(t)
                            /\ org'[SlotOf(t)] = org[SlotOf(t)]
                            /\ cache'[SlotOf(t)] \subseteq cache[SlotOf(t)]
  BY SlotIsSlot DEF AsideOf
<1>2. Undisturbed(t)' => Copies(t)' \subseteq Copies(t)
  BY <1>1 DEF Copies, Holding
<1> QED
  BY <1>1, <1>2 DEF CopiesSettled, ValueOf

\* A handler that looks copies what is cached already, or what is there.
LEMMA CopiesLooking ==
  ASSUME ClientInv, NEW t \in Tasks, NEW W, Looking(t), CopiesSettled(t, W)
  PROVE  CopiesSettled(t, W)'
<1>1. SlotOf(t)' = SlotOf(t) /\ UNCHANGED <<req, org>> /\ (Undisturbed(t)' => Undisturbed(t))
  BY SlotIsSlot, StillUndisturbed DEF Looking, StepOf
<1>2. ASSUME NEW rec \in Copies(t)' PROVE rec \in Copies(t) \/ rec = org[SlotOf(t)]
  BY <1>1 DEF Looking, Copies
<1> QED
  BY <1>1, <1>2 DEF CopiesSettled, ValueOf

(* A write on a record that is not up to date changes nothing: the first   *)
(* one left the one value the request allows.                              *)
LEMMA RepeatedWrite ==
  ASSUME ProvisionerInv, NEW t \in Tasks, task[t].pc = "write", Serve(t, "ok"),
         ValueOf(org[SlotOf(t)]) \in Allowed[req[t]],
         \A v, w \in Allowed[req[t]] : v = w
  PROVE  org'[SlotOf(t)] = org[SlotOf(t)]
<1> SUFFICES ASSUME org'[SlotOf(t)] # org[SlotOf(t)] PROVE FALSE
  OBVIOUS
<1> DEFINE s == SlotOf(t)
<1>1. /\ s \in Slots /\ org[s] \in Records /\ org[s].value \in Values
      /\ task[t].call \in Calls /\ task[t].call.value \in Values
  BY SlotIsSlot DEF ProvisionerInv, ClientInv, TypeOK, Records, TaskStates, Calls
<1>2. /\ task[t].call.op = "create" <=> org[s] = NotFound
      /\ task[t].call.op = "update" => org[s].value # task[t].call.value
  BY <1>1, ServeChanges DEF ProvisionerInv
<1>3. CallResult(task[t].call) = ValueOf(org[s])
  BY DEF ProvisionerInv, WriteAllowed
<1>4. task[t].call.op \in {"create", "update", "delete"}
  BY DEF Serve, ServeCreate, ServeById
<1> QED
  BY <1>1, <1>2, <1>3, <1>4, ValuesAssumption DEF CallResult, ValueOf

(* A write makes copies old, but only ones on which the handler would      *)
(* write again.                                                            *)
LEMMA CopiesWriting ==
  ASSUME ProvisionerInv, NEW t \in Tasks, NEW W, Writing(t), CopiesSettled(t, W),
         task[t].rec \in W, \A v, w \in Allowed[req[t]] : v = w
  PROVE  CopiesSettled(t, W)'
<1>1. /\ ClientInv /\ SlotOf(t)' = SlotOf(t) /\ SlotOf(t) \in Slots /\ req' = req
      /\ Undisturbed(t)' => Undisturbed(t)
  BY SlotIsSlot, StillUndisturbed DEF ProvisionerInv, Writing, StepOf
<1>2. Copies(t)' = cache[SlotOf(t)] /\ cache[SlotOf(t)] \subseteq Copies(t)
      /\ task[t].rec \in Copies(t)
  BY <1>1 DEF Writing, Copies, Holding
<1>3. CASE org'[SlotOf(t)] = org[SlotOf(t)]
  BY <1>1, <1>2, <1>3 DEF CopiesSettled, ValueOf
<1>4. CASE org'[SlotOf(t)] # org[SlotOf(t)]
  <2>1. Serve(t, "ok") /\ task[t].pc = "write"
    BY <1>4 DEF Writing
  <2>2. ValueOf(org'[SlotOf(t)]) \in Allowed[req[t]]
    <3>1. PICK rec \in Records : Becomes(SlotOf(t), rec) /\ ValueOf(rec) \in Allowed[req[t]]
      BY <2>1, AppliedWrite
    <3>2. org'[SlotOf(t)] = rec
      BY <1>1, <3>1 DEF Becomes, ClientInv, TypeOK
    <3> QED
      BY <3>1, <3>2
  <2>3. ASSUME Undisturbed(t)
        PROVE  \A rec \in Copies(t) : rec \in W
    <3>1. ValueOf(org[SlotOf(t)]) \notin Allowed[req[t]]
      BY <1>4, <2>1, RepeatedWrite
    <3>2. \A rec \in Copies(t) : rec = org[SlotOf(t)]
      BY <2>3, <3>1 DEF CopiesSettled
    <3> QED
      BY <1>2, <3>2
  <2> QED
    BY <1>1, <1>2, <2>2, <2>3 DEF CopiesSettled, ValueOf
<1> QED
  BY <1>3, <1>4

\* What success was about stays when nobody touches the slot.
LEMMA SettledAside ==
  ASSUME ClientInv, NEW t \in Tasks, AsideOf(t), Undisturbed(t) => Satisfied(t), Undisturbed(t)'
  PROVE  Satisfied(t)'
<1>1. SlotOf(t)' = SlotOf(t) /\ req' = req /\ org'[SlotOf(t)] = org[SlotOf(t)] /\ Undisturbed(t)
  BY SlotIsSlot DEF AsideOf
<1> QED
  BY <1>1 DEF Satisfied, ValueOf

\* A write that is applied satisfies its request.
LEMMA AppliedSatisfies ==
  ASSUME ProvisionerInv, NEW t \in Tasks, task[t].pc = "write", Serve(t, "ok"), req' = req
  PROVE  Satisfied(t)'
<1>1. SlotOf(t)' = SlotOf(t) /\ SlotOf(t) \in Slots /\ org \in [Slots -> Records]
  BY SlotIsSlot DEF ProvisionerInv, ClientInv, TypeOK
<1>2. PICK rec \in Records : Becomes(SlotOf(t), rec) /\ ValueOf(rec) \in Goal[req[t]]
  BY AppliedWrite
<1>3. org'[SlotOf(t)] = rec
  BY <1>1, <1>2 DEF Becomes
<1> QED
  BY <1>1, <1>2, <1>3 DEF Satisfied, ValueOf

\* A task in this state tells nothing of its slot.
SaysNothing(t) ==
  task[t].answer \in {"none", "error"} /\ task[t].err \in {"none", "Transient", "Permanent"}

\* No step of the layer ends in an answer that is about the slot.
LEMMA LayerSaysNothing ==
  ASSUME ClientInv, NEW t \in Tasks, NoErrorYet(t), Begin(t) \/ ClientStep(t) \/ Reject(t)
  PROVE  (Looking(t) \/ Writing(t)) /\ SaysNothing(t)' /\ NoErrorYet(t)'
<1>0. task[t] \in TaskStates
  BY DEF ClientInv, TypeOK
<1>1. CASE Begin(t)
  <2>1. task[t].answer = "none" /\ task[t].err = "none" /\ task[t].pc # "answered"
    BY <1>1 DEF Begin, ClientInv, AnswerLast, NoErrorYet
  <2>2. task'[t] = [task[t] EXCEPT !.pc = "start"] /\ Looking(t)
    BY <1>1, BeginIsLooking
  <2>3. task'[t].answer = "none" /\ task'[t].err = "none"
    BY <1>0, <2>1, <2>2 DEF TaskStates
  <2> QED
    BY <2>2, <2>3 DEF SaysNothing, NoErrorYet
<1>2. CASE Retry(t) \/ Cancelled(t) \/ CacheHit(t) \/ CacheMiss(t) \/ getSObject(t)
  <2>1. task[t].answer = "none" /\ task[t].err = "none"
    BY <1>2 DEF Retry, Cancelled, CacheHit, CacheMiss, getSObject, ClientInv, AnswerLast, NoErrorYet
  <2> QED
    BY <1>2, <2>1, QueryIsLooking DEF SaysNothing, NoErrorYet
<1>3. CASE QueryFails(t) \/ Reject(t) \/ WriteStep(t)
  <2>1. PICK e \in {"Transient", "Permanent"} : task'[t] = Outcome(t, e)
    BY <1>3, FailureIsLooking, FailureIsWriting
  <2>2. Running(t) /\ (Looking(t) \/ Writing(t)) /\ e \in Errors
    BY <1>3, FailureIsLooking, FailureIsWriting DEF Errors
  <2>3. /\ task'[t] \in TaskStates
        /\ task'[t].answer # "done" /\ task'[t].answer # "already"
        /\ task'[t].err \in {"none", "Transient", "Permanent"}
        /\ task'[t].pc # "answered" => task'[t].err = "none"
    BY <2>1, <2>2, OutcomeShape, OutcomeEnds
  <2> QED
    BY <2>2, <2>3 DEF SaysNothing, NoErrorYet, TaskStates, Answers
<1> QED
  BY <1>1, <1>2, <1>3 DEF ClientStep, QueryStep
-----------------------------------------------------------------------------
(* The count of attempts, in what the builders share.                      *)

\* A refused request is answered at once.
LEMMA RejectCounts ==
  ASSUME ClientInv, AttemptsBounded, NEW t \in Tasks, Reject(t)
  PROVE  Counted
<1>1. /\ Running(t) /\ "Permanent" \in {"Transient", "Permanent"}
      /\ task' = [task EXCEPT ![t] = Failed(t, "Permanent")]
  BY DEF Reject, Running
<1> QED
  BY <1>1, FailureCounts
=============================================================================
