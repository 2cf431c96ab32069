-------------------------- MODULE SalesforceClient --------------------------
(***************************************************************************)
(* What every provisioning handler of the connector stands on: the calls   *)
(* of pkg/connector/client/request.go, the GET cache of the SDK's HTTP     *)
(* wrapper in front of them, and the SDK loop that runs a Grant or Revoke  *)
(* handler again after a transient failure.                                *)
(*                                                                         *)
(* The org's data is cut down to slots.  A slot is what one query of a     *)
(* handler selects: the association of one user with one territory, one    *)
(* group membership, one field of one user.  It holds at most one record,  *)
(* with the Id Salesforce gave it and the one field the handler looks at.  *)
(* Ids are never used again, so a record that was deleted and made again   *)
(* has another Id: handlers read a record first and write to its Id later. *)
(*                                                                         *)
(* A task is one Grant or Revoke call the SDK received.  Its request is    *)
(* fixed; it begins when the runner picks it up, and several tasks run at  *)
(* once in one process.                                                    *)
(***************************************************************************)
EXTENDS Integers

CONSTANTS
  Tasks,        \* Grant and Revoke calls, each served once
  Slots,        \* what a handler's query selects
  Values,       \* values of the record's field
  EmptyValue,   \* the empty field value
  Absent,       \* "there is no record", as a value of a slot
  Requests,     \* records with a field slot, and whatever the handler needs
  MaxAttempts,  \* RetryConfig.MaxAttempts: 3 for Grant and for Revoke
  FirstId,      \* bound: the Ids below it belong to the org's first records
  MaxDrift      \* bound on the changes made in the org by anyone else

ASSUME ValuesAssumption == EmptyValue \in Values /\ Absent \notin Values
ASSUME RequestsAssumption == \A r \in Requests : r.slot \in Slots
ASSUME BoundsAssumption ==
  /\ MaxAttempts \in Nat \ {0}   \* 0 would mean no limit
  /\ FirstId \in Nat \ {0}
  /\ MaxDrift \in Nat

VARIABLES
  org,      \* org[s]: the record of slot s, in Salesforce
  nextId,   \* the next record Id Salesforce will hand out
  cache,    \* cache[s]: the cached answer to the query for s, {} if none
  req,      \* req[t]: the request of task t
  task,     \* task[t]: where the handler of t is
  seen,     \* history: the values slot req[t].slot had since t began
  drift     \* number of changes made by anyone else

clientVars == <<org, nextId, cache, req, task, seen, drift>>

-----------------------------------------------------------------------------
(* Records, calls and the state of a handler.                              *)

Records == [id : Nat, value : Values]

\* getSObject's ErrObjectNotFound: the query selected nothing.
NotFound == [id |-> 0, value |-> EmptyValue]

SlotValues == Values \cup {Absent}

ValueOf(rec) == IF rec = NotFound THEN Absent ELSE rec.value

\* The write a handler decided on after its read.
Calls == [op : {"none", "create", "update", "delete"}, value : Values]
NoCall == [op |-> "none", value |-> EmptyValue]
CreateObject(v) == [op |-> "create", value |-> v]
UpdateObject(v) == [op |-> "update", value |-> v]
DeleteObject == [op |-> "delete", value |-> EmptyValue]

\* The value of the slot once call c is applied.
CallResult(c) == IF c.op = "delete" THEN Absent ELSE c.value

\* What a handler decides on the record it read.
Decisions == [outcome : {"write", "already", "Missing"}, call : Calls]
Already == [outcome |-> "already", call |-> NoCall]
Complain == [outcome |-> "Missing", call |-> NoCall]
Make(c) == [outcome |-> "write", call |-> c]

(* "start" is the first line of the handler, "send" a query the cache did  *)
(* not answer, "response" a query answer not yet stored in the cache,      *)
(* "write" a decided write, "wait" the pause of ShouldWaitAndRetry.        *)
Points == {"idle", "start", "send", "response", "write", "wait", "answered"}

(* "done" is success without annotation, "already" success annotated       *)
(* GrantAlreadyExists or GrantAlreadyRevoked.                              *)
Answers == {"none", "done", "already", "error"}

(* "Transient" is a gRPC code ShouldWaitAndRetry retries (Unavailable,     *)
(* DeadlineExceeded), "NotFound" Salesforce's 404 to a write by Id,        *)
(* "Duplicate" its DUPLICATE_VALUE, "Missing" a handler's own complaint    *)
(* about what it read, "Permanent" any other failure.                      *)
Errors == {"none", "Transient", "Permanent", "NotFound", "Duplicate", "Missing"}

\* cached, a history: the last lookup of the handler was a hit.
TaskStates == [pc : Points, rec : Records, cached : BOOLEAN, call : Calls,
               attempts : Nat, answer : Answers, err : Errors]

IdleTask == [pc |-> "idle", rec |-> NotFound, cached |-> FALSE, call |-> NoCall,
             attempts |-> 0, answer |-> "none", err |-> "none"]

SlotOf(t) == req[t].slot

Running(t) == task[t].pc \notin {"idle", "answered"}

\* Every variable has its type.
TypeOK ==
  /\ org \in [Slots -> Records]
  /\ nextId \in Nat
  /\ cache \in [Slots -> SUBSET Records]
  /\ req \in [Tasks -> Requests]
  /\ task \in [Tasks -> TaskStates]
  /\ seen \in [Tasks -> SUBSET SlotValues]
  /\ drift \in Nat

\* The process just started: nothing is cached, and the org holds anything.
ClientInit ==
  /\ org \in {f \in [Slots -> [id : 0 .. FirstId - 1, value : Values]] :
                /\ \A s \in Slots : f[s].id = 0 => f[s] = NotFound
                /\ \A s1, s2 \in Slots :
                     f[s1].id = f[s2].id => s1 = s2 \/ f[s1].id = 0}
  /\ nextId = FirstId
  /\ cache = [s \in Slots |-> {}]
  /\ req \in [Tasks -> Requests]
  /\ task = [t \in Tasks |-> IdleTask]
  /\ seen = [t \in Tasks |-> {}]
  /\ drift = 0

-----------------------------------------------------------------------------
(* The org.                                                                *)

\* Slot s becomes rec; the tasks at work on s are witnesses of it.
Becomes(s, rec) ==
  /\ org' = [org EXCEPT ![s] = rec]
  /\ seen' = [t \in Tasks |-> IF Running(t) /\ SlotOf(t) = s
                                THEN seen[t] \cup {ValueOf(rec)}
                                ELSE seen[t]]

\* Salesforce keeps at most one record per slot, and refuses a second.
ServeCreate(t, reply) ==
  /\ task[t].call.op = "create"
  /\ \/ /\ org[SlotOf(t)] = NotFound
        /\ reply = "ok"
        /\ Becomes(SlotOf(t), [id |-> nextId, value |-> task[t].call.value])
        /\ nextId' = nextId + 1
     \/ /\ org[SlotOf(t)] # NotFound
        /\ reply = "duplicate"
        /\ UNCHANGED <<org, seen, nextId>>

\* A PATCH or a DELETE names a record by Id alone.
ServeById(t, reply) ==
  /\ task[t].call.op \in {"update", "delete"}
  /\ \/ \E s \in Slots :
          /\ org[s] # NotFound
          /\ org[s].id = task[t].rec.id
          /\ reply = "ok"
          /\ Becomes(s, IF task[t].call.op = "delete" THEN NotFound
                        ELSE [org[s] EXCEPT !.value = task[t].call.value])
     \/ /\ \A s \in Slots : org[s] = NotFound \/ org[s].id # task[t].rec.id
        /\ reply = "notFound"
        /\ UNCHANGED <<org, seen>>
  /\ UNCHANGED nextId

Serve(t, reply) == ServeCreate(t, reply) \/ ServeById(t, reply)

Replies == {"ok", "duplicate", "notFound"}

(* Someone else (an admin, another integration) fills, changes or empties  *)
(* slot s.                                                                 *)
DriftCreate(s) ==
  /\ org[s] = NotFound
  /\ \E v \in Values : Becomes(s, [id |-> nextId, value |-> v])
  /\ nextId' = nextId + 1

DriftUpdate(s) ==
  /\ org[s] # NotFound
  /\ \E v \in Values \ {org[s].value} : Becomes(s, [org[s] EXCEPT !.value = v])
  /\ UNCHANGED nextId

DriftDelete(s) ==
  /\ org[s] # NotFound
  /\ Becomes(s, NotFound)
  /\ UNCHANGED nextId

Drift(s) ==
  /\ drift < MaxDrift
  /\ drift' = drift + 1
  /\ DriftCreate(s) \/ DriftUpdate(s) \/ DriftDelete(s)
  /\ UNCHANGED <<cache, req, task>>

-----------------------------------------------------------------------------
(* The retry loop of builder.Grant and builder.Revoke.                     *)

\* The runner hands the request of t to its handler.
Begin(t) ==
  /\ task[t].pc = "idle"
  /\ task' = [task EXCEPT ![t].pc = "start"]
  /\ seen' = [seen EXCEPT ![t] = {ValueOf(org[SlotOf(t)])}]
  /\ UNCHANGED <<org, nextId, cache, req, drift>>

\* The handler of t returned, and what it had read and decided is gone.
Returned(t) == [task[t] EXCEPT !.rec = NotFound, !.call = NoCall]

\* Variant: the retry loop forgets to count.
FailedUncounted(t, e) ==
  IF e = "Transient" /\ task[t].attempts <= MaxAttempts
    THEN [Returned(t) EXCEPT !.pc = "wait", !.cached = FALSE]
    ELSE [Returned(t) EXCEPT !.pc = "answered", !.answer = "error", !.err = e]

(* It returned an error.  ShouldWaitAndRetry counts only the transient     *)
(* ones, and gives up at the first count above MaxAttempts.                *)
Failed(t, e) ==
  LET n == IF e = "Transient" THEN task[t].attempts + 1 ELSE task[t].attempts
  IN  IF e = "Transient" /\ n <= MaxAttempts
        THEN [Returned(t) EXCEPT !.pc = "wait", !.cached = FALSE, !.attempts = n]
        ELSE [Returned(t) EXCEPT !.pc = "answered", !.attempts = n,
                                 !.answer = "error", !.err = e]

\* It returned o: one of the two successes, or an error.
Outcome(t, o) ==
  IF o \in {"done", "already"}
    THEN [Returned(t) EXCEPT !.pc = "answered", !.answer = o]
    ELSE Failed(t, o)

\* The pause is over: the handler runs again, from its first line.
Retry(t) ==
  /\ task[t].pc = "wait"
  /\ task' = [task EXCEPT ![t].pc = "start"]
  /\ UNCHANGED <<org, nextId, cache, req, seen, drift>>

\* The request's context ends during the pause.
Cancelled(t) ==
  /\ task[t].pc = "wait"
  /\ task' = [task EXCEPT ![t].pc = "answered", ![t].answer = "error",
                          ![t].err = "Transient"]
  /\ UNCHANGED <<org, nextId, cache, req, seen, drift>>

-----------------------------------------------------------------------------
(* A query, in three steps: the cache lookup, the request, and the storing *)
(* of its answer, which ends in the handler's decision.  A cache hit is    *)
(* stored again, and so outlives a ClearCaches that comes in between.      *)

CacheHit(t) ==
  /\ task[t].pc = "start"
  /\ \E rec \in cache[SlotOf(t)] :
       task' = [task EXCEPT ![t].pc = "response", ![t].rec = rec, ![t].cached = TRUE]
  /\ UNCHANGED <<org, nextId, cache, req, seen, drift>>

CacheMiss(t) ==
  /\ task[t].pc = "start"
  /\ cache[SlotOf(t)] = {}
  /\ task' = [task EXCEPT ![t].pc = "send", ![t].cached = FALSE]
  /\ UNCHANGED <<org, nextId, cache, req, seen, drift>>

\* Variant: the query lost its condition on the user.
getSObjectOfAnyone(t) ==
  /\ task[t].pc = "send"
  /\ \E s \in Slots : task' = [task EXCEPT ![t].pc = "response", ![t].rec = org[s]]
  /\ UNCHANGED <<org, nextId, cache, req, seen, drift>>

\* Salesforce evaluates the query.
getSObject(t) ==
  /\ task[t].pc = "send"
  /\ task' = [task EXCEPT ![t].pc = "response", ![t].rec = org[SlotOf(t)]]
  /\ UNCHANGED <<org, nextId, cache, req, seen, drift>>

\* Logging in, or the query itself, fails; no answer is stored.
QueryFails(t) ==
  /\ task[t].pc \in {"start", "send"}
  /\ \E e \in {"Transient", "Permanent"} : task' = [task EXCEPT ![t] = Failed(t, e)]
  /\ UNCHANGED <<org, nextId, cache, req, seen, drift>>

\* The cache once the answer rec to t's query is stored.
Stored(t, rec) == [cache EXCEPT ![SlotOf(t)] = {rec}]

(* The answer to the query of t is stored, and the handler acts on its     *)
(* decision d: it returns, or goes on to its write.                        *)
Read(t, d) ==
  /\ task[t].pc = "response"
  /\ cache' = Stored(t, task[t].rec)
  /\ task' = [task EXCEPT ![t] =
       IF d.outcome = "write" THEN [task[t] EXCEPT !.pc = "write", !.call = d.call]
       ELSE Outcome(t, d.outcome)]
  /\ UNCHANGED <<org, nextId, req, seen, drift>>

(* An entry expires, makes room for another, or was not accepted at all.   *)
(* A cache that is switched off loses every entry at once.                 *)
CacheEvict(s) ==
  /\ cache[s] # {}
  /\ cache' = [cache EXCEPT ![s] = {}]
  /\ UNCHANGED <<org, nextId, req, task, seen, drift>>

\* The end of a sync drops every entry.
ClearCaches ==
  /\ \E s \in Slots : cache[s] # {}
  /\ cache' = [s \in Slots |-> {}]
  /\ UNCHANGED <<org, nextId, req, task, seen, drift>>

-----------------------------------------------------------------------------
(* A write.  No write touches the cache.                                   *)

\* The write is not applied: it never arrived, or Salesforce refused it.
WriteFails(t) ==
  /\ task[t].pc = "write"
  /\ \E e \in {"Transient", "Permanent"} : task' = [task EXCEPT ![t] = Failed(t, e)]
  /\ UNCHANGED <<org, nextId, cache, req, seen, drift>>

\* The write is applied, and its reply is lost.
WriteReplyLost(t) ==
  /\ task[t].pc = "write"
  /\ Serve(t, "ok")
  /\ \E e \in {"Transient", "Permanent"} : task' = [task EXCEPT ![t] = Failed(t, e)]
  /\ UNCHANGED <<cache, req, drift>>

\* The reply arrives, and the handler returns what it makes of it.
WriteReplied(t, translate) ==
  /\ task[t].pc = "write"
  /\ \E reply \in Replies :
       /\ Serve(t, reply)
       /\ task' = [task EXCEPT ![t] = Outcome(t, translate[reply])]
  /\ UNCHANGED <<cache, req, drift>>

\* What no handler decides about.
QueryStep(t) == CacheHit(t) \/ CacheMiss(t) \/ getSObject(t) \/ QueryFails(t)
WriteStep(t) == WriteFails(t) \/ WriteReplyLost(t)
ClientStep(t) == Retry(t) \/ Cancelled(t) \/ QueryStep(t) \/ WriteStep(t)

Environment == ClearCaches \/ \E s \in Slots : CacheEvict(s) \/ Drift(s)

-----------------------------------------------------------------------------
(* Invariants of the layer.                                                *)

OwnedBy(s, rec) ==
  /\ rec.id < nextId
  /\ rec.id = 0 => rec = NotFound
  /\ \A q \in Slots : org[q].id = rec.id /\ rec.id # 0 => q = s

(* A record Id is one slot's for ever: no copy of a record, in the org, in *)
(* the cache or in a handler, however old, has the Id of another slot's    *)
(* record.                                                                 *)
IdsOwned ==
  /\ nextId > 0
  /\ \A s \in Slots : OwnedBy(s, org[s]) /\ \A rec \in cache[s] : OwnedBy(s, rec)
  /\ \A t \in Tasks : OwnedBy(SlotOf(t), task[t].rec)

\* The history of a running task includes the present.
SeenNow ==
  \A t \in Tasks : Running(t) => ValueOf(org[SlotOf(t)]) \in seen[t]

\* Only an answered task has an answer.
AnswerLast == \A t \in Tasks : task[t].pc # "answered" => task[t].answer = "none"

ClientInv == TypeOK /\ IdsOwned /\ SeenNow /\ AnswerLast

-----------------------------------------------------------------------------
(* Why the retry loop ends.                                                *)

\* A call that is still going on has failed at most MaxAttempts times.
AttemptsBounded ==
  \A t \in Tasks : task[t].pc # "answered" => task[t].attempts <= MaxAttempts

\* The steps one attempt still has to make, in the longest way through it.
Stage == [idle |-> 6, wait |-> 5, start |-> 4, send |-> 3, response |-> 2, write |-> 1]

(* A bound on the steps task t still makes: those of its attempt, and six  *)
(* for each failure the loop still forgives.                               *)
Remaining(t) ==
  IF task[t].pc = "answered" THEN 0
  ELSE 6 * (MaxAttempts - task[t].attempts) + Stage[task[t].pc]

(* Every step of a handler or of the retry loop around it comes closer to  *)
(* the answer, whatever fails and whatever the other tasks, the cache and  *)
(* the org do: a call makes at most 6 * MaxAttempts + 6 steps, and with    *)
(* them at most MaxAttempts + 1 queries and as many writes.                *)
HandlersRunOut ==
  [][\A t \in Tasks :
       task'[t] # task[t] => Remaining(t)' \in 0 .. Remaining(t) - 1]_clientVars
=============================================================================
