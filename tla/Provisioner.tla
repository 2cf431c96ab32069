----------------------------- MODULE Provisioner ----------------------------
(***************************************************************************)
(* What the provisioning builders of pkg/connector have in common, on top  *)
(* of SalesforceClient: the goal of a request, the properties stated in    *)
(* terms of it, and the mapping to ProvisioningContract.                   *)
(***************************************************************************)
EXTENDS SalesforceClient

CONSTANTS
  Goal,     \* Goal[r]: the values of slot r.slot that satisfy request r
  Allowed   \* Allowed[r]: the values a write for r may leave there

ASSUME AllowedAssumption == \A r \in Requests : Allowed[r] \subseteq Goal[r]

(* A handler refuses a principal of the wrong type, or an entitlement it   *)
(* cannot parse, before it makes any call.                                 *)
Reject(t) ==
  /\ task[t].pc = "start"
  /\ task' = [task EXCEPT ![t] = Failed(t, "Permanent")]
  /\ UNCHANGED <<org, nextId, cache, req, seen, drift>>

\* Every task is answered: the process may stop there.
Terminated == (\A t \in Tasks : task[t].pc = "answered") /\ UNCHANGED clientVars

-----------------------------------------------------------------------------
Satisfied(t) == ValueOf(org[SlotOf(t)]) \in Goal[req[t]]
Witnessed(t) == seen[t] \cap Goal[req[t]] # {}

(* Plain success is never reported for a state that never was: between the *)
(* start of the call and its answer the user had, or did not have, what    *)
(* the request was about, with a stale cache, lost replies, retries and    *)
(* other tasks at work on the same slot.                                   *)
DoneWitnessed ==
  \A t \in Tasks : task[t].answer = "done" => Witnessed(t)

\* No task is about to write anything but what its request allows.
WriteAllowed ==
  \A t \in Tasks : task[t].pc = "write" => CallResult(task[t].call) \in Allowed[req[t]]

ProvisionerInv == ClientInv /\ DoneWitnessed /\ WriteAllowed

\* Slot s changes by a write of t, not by someone else.
WrittenBy(t, s) == task[t].pc = "write" /\ task'[t] # task[t] /\ org'[s] # org[s]

\* Nobody but t ever touched its slot.
Undisturbed(t) ==
  /\ drift = 0
  /\ \A u \in Tasks \ {t} : SlotOf(u) = SlotOf(t) => task[u].pc = "idle"

(* When nothing else touches the org, a task that reports success, plain   *)
(* or annotated, leaves its slot as requested, however often the handler   *)
(* ran, whichever replies were lost and whatever was cached.               *)
SettledInGoal ==
  \A t \in Tasks :
    Undisturbed(t) /\ task[t].answer \in {"done", "already"} => Satisfied(t)

\* The handler of t acts on a record, read or cached.
Holding(t) == task[t].pc \in {"response", "write"}

(* A record that came from Salesforce in this attempt shows a value the    *)
(* slot had during the call; its Id is that of the slot still, unless the  *)
(* record went away; and when nobody touches the slot, it is the slot's.   *)
FreshRead(t) ==
  Holding(t) /\ ~task[t].cached =>
    /\ ValueOf(task[t].rec) \in seen[t]
    /\ org[SlotOf(t)].id = task[t].rec.id \/ Absent \in seen[t]
    /\ Undisturbed(t) => task[t].rec = org[SlotOf(t)]

\* What is known of the slot of t outside Salesforce.
Copies(t) == cache[SlotOf(t)] \cup {rec \in {task[t].rec} : Holding(t)}

(* When nobody else touches the slot, a copy that is out of date is one    *)
(* from before the write of t, and such that the handler, when it meets it *)
(* again, writes again.  W: the records t decides to write on.             *)
CopiesSettled(t, W) ==
  Undisturbed(t) =>
    \A rec \in Copies(t) :
      rec = org[SlotOf(t)] \/ (rec \in W /\ ValueOf(org[SlotOf(t)]) \in Allowed[req[t]])

\* Only an answered task has an error.
NoErrorYet(t) == task[t].pc # "answered" => task[t].err = "none"

\* The SDK always gets its answer: no handler hangs or is retried for ever.
EveryTaskAnswered ==
  \A t \in Tasks : task[t].pc = "start" ~> task[t].pc = "answered"

-----------------------------------------------------------------------------
(* The contract.                                                           *)

Status(t) == CASE task[t].pc = "idle" -> "idle"
               [] task[t].pc = "answered" -> task[t].answer
               [] OTHER -> "running"

Contract == INSTANCE ProvisioningContract WITH
  value <- [s \in Slots |-> ValueOf(org[s])],
  request <- req,
  status <- [t \in Tasks |-> Status(t)],
  witness <- seen

(* Every step of the handlers is a step the contract allows: all their     *)
(* writes are to the slot of a running request, to a value it allows, and  *)
(* plain success follows the goal.  A role revoke clears a role, and never *)
(* takes the membership away.                                              *)
KeepsContract == Contract!Spec
=============================================================================
