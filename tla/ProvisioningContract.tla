------------------------ MODULE ProvisioningContract ------------------------
(***************************************************************************)
(* What a provisioner promises, whatever the resource type: the abstract   *)
(* side of the refinements in this project.  A request has a goal, the     *)
(* values of its slot that satisfy it.  While a request runs, the          *)
(* connector may write its slot, any number of times (handlers are run     *)
(* again), and always to a value the request allows.  It reports success   *)
(* only after the slot was in the goal at some moment of the run.  It may  *)
(* report an error at any time, and "already" without a promise: that      *)
(* answer may come from a cached read, and each module says when it can    *)
(* be trusted.                                                             *)
(***************************************************************************)
EXTENDS Naturals

CONSTANTS
  Tasks, Slots, SlotValues,
  Requests,   \* records with a field slot
  Goal,       \* Goal[r]: the values of slot r.slot that satisfy r
  Allowed     \* Allowed[r]: the values a write for r may leave in r.slot

VARIABLES
  value,    \* value[s]
  request,  \* request[t]
  status,   \* status[t]
  witness,  \* witness[t]: the values slot request[t].slot had since t began
  drift     \* number of changes made by anyone else

vars == <<value, request, status, witness, drift>>

Statuses == {"idle", "running", "done", "already", "error"}

Init ==
  /\ value \in [Slots -> SlotValues]
  /\ request \in [Tasks -> Requests]
  /\ status = [t \in Tasks |-> "idle"]
  /\ witness = [t \in Tasks |-> {}]
  /\ drift = 0

Set(s, v) ==
  /\ value' = [value EXCEPT ![s] = v]
  /\ witness' = [t \in Tasks |-> IF status[t] = "running" /\ request[t].slot = s
                                   THEN witness[t] \cup {v} ELSE witness[t]]

Begin(t) ==
  /\ status[t] = "idle"
  /\ status' = [status EXCEPT ![t] = "running"]
  /\ witness' = [witness EXCEPT ![t] = {value[request[t].slot]}]
  /\ UNCHANGED <<value, request, drift>>

Effect(t, v) ==
  /\ status[t] = "running"
  /\ v \in Allowed[request[t]]
  /\ Set(request[t].slot, v)
  /\ UNCHANGED <<request, drift>>

Answer(t, a) ==
  /\ status[t] = "running"
  /\ a = "done" => witness'[t] \cap Goal[request[t]] # {}
  /\ status' = [status EXCEPT ![t] = a]

\* A task writes, answers, or does both in one step.
Work(t) ==
  \/ \E v \in SlotValues : Effect(t, v) /\ UNCHANGED status
  \/ \E v \in SlotValues, a \in {"done", "error"} : Effect(t, v) /\ Answer(t, a)
  \/ /\ UNCHANGED <<value, request, witness, drift>>
     /\ \E a \in {"done", "already", "error"} : Answer(t, a)

\* Anyone else changes a slot at will; the count tells whose step it is.
Drift(s, v) ==
  /\ Set(s, v)
  /\ drift' = drift + 1
  /\ UNCHANGED <<request, status>>

Next ==
  \/ \E t \in Tasks : Begin(t) \/ Work(t)
  \/ \E s \in Slots, v \in SlotValues : Drift(s, v)

Spec == Init /\ [][Next]_vars
=============================================================================
