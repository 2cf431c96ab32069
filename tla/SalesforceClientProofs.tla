----------------------- MODULE SalesforceClientProofs -----------------------
(***************************************************************************)
(* What the steps of SalesforceClient preserve, for any set of tasks,      *)
(* slots and values, whatever is cached.  The proofs about the             *)
(* builders cite these lemmas.                                             *)
(***************************************************************************)
EXTENDS SalesforceClient, TLAPS

\* The record of no slot is a record.
LEMMA NotFoundIsRecord == NotFound \in Records /\ NotFound.id = 0 /\ NoCall \in Calls
BY ValuesAssumption DEF NotFound, Records, NoCall, Calls

\* A handler that returns is in one of the states of a task.
LEMMA FailedType ==
  ASSUME TypeOK, NEW t \in Tasks, NEW e \in Errors
  PROVE  Failed(t, e) \in TaskStates
<1>1. task[t] \in TaskStates
  BY DEF TypeOK
<1> DEFINE n == IF e = "Transient" THEN task[t].attempts + 1 ELSE task[t].attempts
<1>2. n \in Nat
  BY <1>1 DEF TaskStates
<1> HIDE DEF n
<1>3. Returned(t) \in TaskStates
  BY <1>1, NotFoundIsRecord DEF Returned, TaskStates
<1>4. /\ [Returned(t) EXCEPT !.pc = "wait", !.cached = FALSE, !.attempts = n] \in TaskStates
      /\ [Returned(t) EXCEPT !.pc = "answered", !.attempts = n,
                             !.answer = "error", !.err = e] \in TaskStates
  BY <1>2, <1>3 DEF TaskStates, Points, Answers
<1> QED
  BY <1>4 DEF Failed, n

\* The same when the handler may also have succeeded.
LEMMA OutcomeType ==
  ASSUME TypeOK, NEW t \in Tasks, NEW o \in {"done", "already"} \cup Errors
  PROVE  Outcome(t, o) \in TaskStates
<1>1. CASE o \in {"done", "already"}
  <2>1. task[t] \in TaskStates
    BY DEF TypeOK
  <2>2. Returned(t) \in TaskStates
    BY <2>1, NotFoundIsRecord DEF Returned, TaskStates
  <2> QED
    BY <1>1, <2>2 DEF Outcome, TaskStates, Points, Answers
<1>2. CASE o \notin {"done", "already"}
  BY <1>2, FailedType DEF Outcome
<1> QED
  BY <1>1, <1>2

\* The initial states satisfy the invariants of the layer.
LEMMA ClientInitInv == ClientInit => ClientInv
<1> SUFFICES ASSUME ClientInit PROVE ClientInv
  OBVIOUS
<1> USE ValuesAssumption, BoundsAssumption, NotFoundIsRecord
<1>1. \A s \in Slots : /\ org[s] \in Records
                       /\ org[s].id < nextId
                       /\ org[s].id = 0 => org[s] = NotFound
  BY DEF ClientInit, Records
<1>2. \A s, q \in Slots : org[q].id = org[s].id /\ org[s].id # 0 => q = s
  BY DEF ClientInit
<1>3. IdleTask \in TaskStates
  BY DEF IdleTask, TaskStates, Points, Answers, Errors
<1>4. TypeOK
  BY <1>1, <1>3 DEF TypeOK, ClientInit
<1>5. IdsOwned
  BY <1>1, <1>2 DEF IdsOwned, OwnedBy, ClientInit, IdleTask
<1>6. SeenNow /\ AnswerLast
  BY DEF SeenNow, AnswerLast, ClientInit, IdleTask, Running
<1> QED
  BY <1>4, <1>5, <1>6 DEF ClientInv

(* Steps that leave the org alone keep Ids owned, if they copy records     *)
(* only within a slot.                                                     *)
LEMMA IdsKept ==
  ASSUME TypeOK, IdsOwned, UNCHANGED <<org, nextId, req>>,
         \A s \in Slots : \A rec \in cache'[s] :
           rec \in cache[s] \/ \E t \in Tasks : SlotOf(t) = s /\ rec = task[t].rec,
         \A t \in Tasks : \/ task'[t].rec \in {NotFound, task[t].rec, org[SlotOf(t)]}
                          \/ task'[t].rec \in cache[SlotOf(t)]
  PROVE  IdsOwned'
<1>1. \A t \in Tasks : SlotOf(t) \in Slots
  BY RequestsAssumption DEF TypeOK, SlotOf
<1>2. \A s \in Slots : \A rec : OwnedBy(s, rec) => OwnedBy(s, rec)'
  BY DEF OwnedBy
<1>3. \A s \in Slots : OwnedBy(s, NotFound)
  BY NotFoundIsRecord DEF OwnedBy, IdsOwned
<1>4. \A s \in Slots : OwnedBy(s, org[s])' /\ \A rec \in cache'[s] : OwnedBy(s, rec)'
  BY <1>2 DEF IdsOwned
<1>5. \A t \in Tasks : OwnedBy(SlotOf(t), task[t].rec)'
  BY <1>1, <1>2, <1>3 DEF IdsOwned, SlotOf
<1> QED
  BY <1>4, <1>5 DEF IdsOwned

(* A change of one slot keeps Ids owned, if it gives a record a new Id,    *)
(* keeps its Id or removes it.                                             *)
LEMMA IdsKeptByChange ==
  ASSUME TypeOK, IdsOwned, NEW s \in Slots, NEW rec \in Records,
         Becomes(s, rec), UNCHANGED <<cache, req>>,
         \/ rec.id = nextId /\ nextId' = nextId + 1
         \/ rec = NotFound /\ nextId' = nextId
         \/ rec.id = org[s].id /\ rec.id # 0 /\ nextId' = nextId,
         \A t \in Tasks : task'[t].rec \in {NotFound, task[t].rec}
  PROVE  IdsOwned'
<1> USE NotFoundIsRecord
<1>1. \A t \in Tasks : SlotOf(t) \in Slots /\ SlotOf(t)' = SlotOf(t)
  BY RequestsAssumption DEF TypeOK, SlotOf
<1>2. /\ org' = [org EXCEPT ![s] = rec]
      /\ org \in [Slots -> Records]
      /\ cache \in [Slots -> SUBSET Records]
      /\ nextId \in Nat
      /\ \A q \in Slots : org[q].id \in Nat
  BY DEF Becomes, TypeOK, Records
<1>3. \A t \in Tasks : task[t].rec \in Records
  BY DEF TypeOK, TaskStates
<1>4. ASSUME NEW q \in Slots, NEW old \in Records, OwnedBy(q, old)
      PROVE  OwnedBy(q, old)'
  <2>1. old.id \in Nat /\ rec.id \in Nat
    BY DEF Records
  <2>2. old.id < nextId'
    BY <1>2, <1>4, <2>1 DEF OwnedBy
  <2>3. ASSUME NEW p \in Slots, org'[p].id = old.id, old.id # 0
        PROVE  p = q
    <3>1. org[p].id = old.id
      BY <1>2, <1>4, <2>1, <2>3 DEF OwnedBy
    <3> QED
      BY <1>4, <2>3, <3>1 DEF OwnedBy
  <2> QED
    BY <1>4, <2>2, <2>3 DEF OwnedBy
<1>5. OwnedBy(s, rec)'
  <2>1. rec.id \in Nat /\ rec.id < nextId' /\ (rec.id = 0 => rec = NotFound)
    BY <1>2 DEF IdsOwned, OwnedBy, Records
  <2>2. ASSUME NEW q \in Slots, org'[q].id = rec.id, rec.id # 0
        PROVE  q = s
    BY <1>2, <2>2 DEF IdsOwned, OwnedBy
  <2> QED
    BY <2>1, <2>2 DEF OwnedBy
<1>6. \A q \in Slots : OwnedBy(q, org[q])' /\ \A old \in cache'[q] : OwnedBy(q, old)'
  <2> SUFFICES ASSUME NEW q \in Slots
               PROVE  OwnedBy(q, org[q])' /\ \A old \in cache'[q] : OwnedBy(q, old)'
    OBVIOUS
  <2>1. OwnedBy(q, org[q])'
    <3>1. CASE q = s
      BY <1>2, <1>5, <3>1 DEF OwnedBy
    <3>2. CASE q # s
      <4>1. OwnedBy(q, org[q]) /\ org'[q] = org[q] /\ org[q] \in Records
        BY <1>2, <3>2 DEF IdsOwned
      <4>2. \A old \in Records : OwnedBy(q, old) => OwnedBy(q, old)'
        BY <1>4
      <4> QED
        BY <4>1, <4>2 DEF OwnedBy
    <3> QED
      BY <3>1, <3>2
  <2>2. ASSUME NEW old \in cache'[q] PROVE OwnedBy(q, old)'
    <3>1. old \in Records /\ OwnedBy(q, old)
      BY <1>2 DEF IdsOwned
    <3> QED
      BY <1>4, <3>1
  <2> QED
    BY <2>1, <2>2
<1>7. \A t \in Tasks : OwnedBy(SlotOf(t), task[t].rec)'
  <2> SUFFICES ASSUME NEW t \in Tasks
               PROVE  OwnedBy(SlotOf(t), task[t].rec)'
    OBVIOUS
  <2>1. OwnedBy(SlotOf(t), NotFound) /\ OwnedBy(SlotOf(t), task[t].rec)
    BY <1>1 DEF OwnedBy, IdsOwned
  <2>2. \A old \in Records : OwnedBy(SlotOf(t), old) => OwnedBy(SlotOf(t), old)'
    BY <1>1, <1>4
  <2> QED
    BY <1>3, <2>1, <2>2 DEF OwnedBy
<1>8. nextId' > 0
  BY <1>2 DEF IdsOwned
<1> QED
  BY <1>6, <1>7, <1>8 DEF IdsOwned

-----------------------------------------------------------------------------
(* Two shapes of steps.                                                    *)

(* A running task moves on to state st; the org stays as it is, and what   *)
(* is copied stays within the slot.                                        *)
LEMMA MoveKeepsInv ==
  ASSUME ClientInv, NEW t \in Tasks, NEW st \in TaskStates, Running(t),
         task' = [task EXCEPT ![t] = st],
         UNCHANGED <<org, nextId, req, seen, drift>>,
         cache' \in [Slots -> SUBSET Records],
         \A s \in Slots : \A rec \in cache'[s] :
           rec \in cache[s] \/ (SlotOf(t) = s /\ rec = task[t].rec),
         \/ st.rec \in {NotFound, task[t].rec, org[SlotOf(t)]}
         \/ st.rec \in cache[SlotOf(t)],
         st.pc # "answered" => st.answer = "none"
  PROVE  ClientInv'
<1>1. /\ task \in [Tasks -> TaskStates]
      /\ \A u \in Tasks : u # t => task'[u] = task[u]
      /\ task'[t] = st
  BY DEF ClientInv, TypeOK
<1>2. TypeOK'
  BY <1>1 DEF ClientInv, TypeOK
<1>3. IdsOwned'
  BY <1>1, IdsKept DEF ClientInv
<1>4. SeenNow'
  BY <1>1 DEF ClientInv, SeenNow, Running, SlotOf
<1>5. AnswerLast'
  BY <1>1 DEF ClientInv, AnswerLast
<1> QED
  BY <1>2, <1>3, <1>4, <1>5 DEF ClientInv

(* Slot s changes; at most one task moves, by returning from its handler.  *)
LEMMA ChangeKeepsInv ==
  ASSUME ClientInv, NEW s \in Slots, NEW rec \in Records,
         Becomes(s, rec), UNCHANGED <<cache, req>>, drift' \in Nat,
         \/ rec.id = nextId /\ nextId' = nextId + 1
         \/ rec = NotFound /\ nextId' = nextId
         \/ rec.id = org[s].id /\ rec.id # 0 /\ nextId' = nextId,
         \/ task' = task
         \/ \E t \in Tasks, st \in TaskStates :
              /\ Running(t)
              /\ task' = [task EXCEPT ![t] = st]
              /\ st.rec = NotFound
              /\ st.pc # "answered" => st.answer = "none"
  PROVE  ClientInv'
<1>1. /\ \A u \in Tasks : \/ task'[u] = task[u]
                          \/ /\ Running(u)
                             /\ task'[u].rec = NotFound
                             /\ task'[u].pc # "answered" => task'[u].answer = "none"
      /\ task' \in [Tasks -> TaskStates]
  BY DEF ClientInv, TypeOK
<1>2. /\ org' = [org EXCEPT ![s] = rec]
      /\ seen' = [u \in Tasks |-> IF Running(u) /\ SlotOf(u) = s
                                    THEN seen[u] \cup {ValueOf(rec)} ELSE seen[u]]
  BY DEF Becomes
<1>3. ValueOf(rec) \in SlotValues
  BY DEF ValueOf, SlotValues, Records
<1>4. TypeOK'
  <2>1. org' \in [Slots -> Records] /\ nextId' \in Nat
    BY <1>2 DEF ClientInv, TypeOK
  <2>2. seen' \in [Tasks -> SUBSET SlotValues]
    BY <1>2, <1>3 DEF ClientInv, TypeOK
  <2> QED
    BY <1>1, <2>1, <2>2 DEF ClientInv, TypeOK
<1>5. IdsOwned'
  BY <1>1, IdsKeptByChange DEF ClientInv
<1>6. SeenNow'
  <2> SUFFICES ASSUME NEW u \in Tasks, Running(u)'
               PROVE  ValueOf(org[SlotOf(u)])' \in seen'[u]
    BY DEF SeenNow
  <2>1. Running(u)
    BY <1>1 DEF Running
  <2>2. SlotOf(u)' = SlotOf(u) /\ SlotOf(u) \in Slots
    BY RequestsAssumption DEF SlotOf, ClientInv, TypeOK
  <2>3. ValueOf(org[SlotOf(u)]) \in seen[u]
    BY <2>1 DEF ClientInv, SeenNow
  <2> QED
    BY <1>2, <2>1, <2>2, <2>3 DEF ValueOf, ClientInv, TypeOK
<1>7. AnswerLast'
  BY <1>1 DEF ClientInv, AnswerLast
<1> QED
  BY <1>4, <1>5, <1>6, <1>7 DEF ClientInv

(* What Salesforce does with a write: it takes effect in the task's own    *)
(* slot, or not at all.                                                    *)
LEMMA ServeEffect ==
  ASSUME ClientInv, NEW t \in Tasks, NEW reply \in Replies, Serve(t, reply)
  PROVE  \/ reply # "ok" /\ UNCHANGED <<org, seen, nextId>>
         \/ /\ reply = "ok"
            /\ \E rec \in Records :
                 /\ Becomes(SlotOf(t), rec)
                 /\ ValueOf(rec) = CallResult(task[t].call)
                 /\ \/ rec.id = nextId /\ nextId' = nextId + 1
                    \/ rec = NotFound /\ nextId' = nextId
                    \/ rec.id = org[SlotOf(t)].id /\ rec.id # 0 /\ nextId' = nextId
<1> USE NotFoundIsRecord DEF ClientInv
<1>1. /\ SlotOf(t) \in Slots
      /\ task[t].call.value \in Values
      /\ org \in [Slots -> Records]
      /\ nextId \in Nat /\ nextId > 0
  BY RequestsAssumption DEF SlotOf, TypeOK, IdsOwned, TaskStates, Calls
<1>2. CASE ServeCreate(t, reply)
  <2>1. CASE reply = "ok"
    <3> DEFINE rec == [id |-> nextId, value |-> task[t].call.value]
    <3>1. /\ Becomes(SlotOf(t), rec)
          /\ nextId' = nextId + 1
          /\ task[t].call.op = "create"
      BY <1>2, <2>1 DEF ServeCreate
    <3>2. rec \in Records /\ rec.id = nextId /\ rec # NotFound
      BY <1>1 DEF Records
    <3>3. ValueOf(rec) = CallResult(task[t].call)
      BY <3>1, <3>2 DEF ValueOf, CallResult
    <3> QED
      BY <2>1, <3>1, <3>2, <3>3
  <2>2. CASE reply # "ok"
    BY <1>2, <2>2 DEF ServeCreate
  <2> QED
    BY <2>1, <2>2
<1>3. CASE ServeById(t, reply)
  <2>1. CASE reply = "ok"
    <3>1. PICK s \in Slots :
            /\ org[s] # NotFound
            /\ org[s].id = task[t].rec.id
            /\ Becomes(s, IF task[t].call.op = "delete" THEN NotFound
                          ELSE [org[s] EXCEPT !.value = task[t].call.value])
      BY <1>3, <2>1 DEF ServeById
    <3>2. org[s].id # 0
      BY <3>1 DEF IdsOwned, OwnedBy
    <3>3. s = SlotOf(t)
      BY <3>1, <3>2 DEF IdsOwned, OwnedBy
    <3>4. nextId' = nextId
      BY <1>3 DEF ServeById
    <3>5. CASE task[t].call.op = "delete"
      BY <2>1, <3>1, <3>3, <3>4, <3>5 DEF ValueOf, CallResult
    <3>6. CASE task[t].call.op # "delete"
      <4> DEFINE rec == [org[s] EXCEPT !.value = task[t].call.value]
      <4>1. rec \in Records /\ rec.id = org[s].id /\ rec.value = task[t].call.value
        BY <1>1 DEF Records
      <4>2. rec # NotFound
        BY <3>2, <4>1
      <4>3. ValueOf(rec) = CallResult(task[t].call)
        BY <3>6, <4>1, <4>2 DEF ValueOf, CallResult
      <4>4. Becomes(SlotOf(t), rec)
        BY <3>1, <3>3, <3>6
      <4> HIDE DEF rec
      <4> QED
        BY <2>1, <3>2, <3>3, <3>4, <4>1, <4>3, <4>4
    <3> QED
      BY <3>5, <3>6
  <2>2. CASE reply # "ok"
    BY <1>3, <2>2 DEF ServeById
  <2> QED
    BY <2>1, <2>2
<1> QED
  BY <1>2, <1>3 DEF Serve
-----------------------------------------------------------------------------
(* The steps, one by one.                                                  *)

\* A failed handler waits or has answered, and holds no record.
LEMMA FailedShape ==
  ASSUME ClientInv, NEW t \in Tasks, Running(t), NEW e \in Errors
  PROVE  /\ Failed(t, e) \in TaskStates
         /\ Failed(t, e).rec = NotFound
         /\ Failed(t, e).pc \in {"wait", "answered"}
         /\ Failed(t, e).pc # "answered" => Failed(t, e).answer = "none"
         /\ Failed(t, e).answer \in {"none", "error"}
<1>1. task[t] \in TaskStates /\ task[t].answer = "none"
  BY DEF ClientInv, TypeOK, AnswerLast, Running
<1>2. Failed(t, e) \in TaskStates
  BY FailedType DEF ClientInv
<1> QED
  BY <1>1, <1>2 DEF Failed, Returned, TaskStates

\* The same of a handler that returned anything.
LEMMA OutcomeShape ==
  ASSUME ClientInv, NEW t \in Tasks, Running(t),
         NEW o \in {"done", "already"} \cup Errors
  PROVE  /\ Outcome(t, o) \in TaskStates
         /\ Outcome(t, o).rec = NotFound
         /\ Outcome(t, o).pc \in {"wait", "answered"}
         /\ Outcome(t, o).pc # "answered" => Outcome(t, o).answer = "none"
         /\ Outcome(t, o).answer = "done" <=> o = "done"
<1>1. CASE o \in {"done", "already"}
  <2>1. task[t] \in TaskStates
    BY DEF ClientInv, TypeOK
  <2>2. Outcome(t, o) \in TaskStates
    BY OutcomeType DEF ClientInv
  <2> QED
    BY <1>1, <2>1, <2>2 DEF Outcome, Returned, TaskStates
<1>2. CASE o \notin {"done", "already"}
  BY <1>2, FailedShape DEF Outcome
<1> QED
  BY <1>1, <1>2

\* An answered handler has answered what it returned.
LEMMA FailedAnswer ==
  ASSUME ClientInv, NEW t \in Tasks, Running(t), NEW e \in Errors
  PROVE  Failed(t, e).pc = "answered" => Failed(t, e).answer = "error"
<1>1. task[t] \in TaskStates
  BY DEF ClientInv, TypeOK
<1> QED
  BY <1>1 DEF Failed, Returned, TaskStates

\* A success is answered as it is, an error as an error.
LEMMA OutcomeAnswer ==
  ASSUME ClientInv, NEW t \in Tasks, Running(t),
         NEW o \in {"done", "already"} \cup Errors
  PROVE  Outcome(t, o).pc = "answered" =>
           Outcome(t, o).answer = IF o \in {"done", "already"} THEN o ELSE "error"
<1>1. CASE o \in {"done", "already"}
  <2>1. task[t] \in TaskStates
    BY DEF ClientInv, TypeOK
  <2> QED
    BY <1>1, <2>1 DEF Outcome, Returned, TaskStates
<1>2. CASE o \notin {"done", "already"}
  BY <1>2, FailedShape, FailedAnswer DEF Outcome
<1> QED
  BY <1>1, <1>2

\* A task that begins has seen its slot as it is now.
LEMMA BeginKeepsInv ==
  ASSUME ClientInv, NEW t \in Tasks, Begin(t)
  PROVE  ClientInv'
<1>1. /\ task \in [Tasks -> TaskStates] /\ seen \in [Tasks -> SUBSET SlotValues]
      /\ task' = [task EXCEPT ![t].pc = "start"]
      /\ seen' = [seen EXCEPT ![t] = {ValueOf(org[SlotOf(t)])}]
      /\ UNCHANGED <<org, nextId, cache, req, drift>>
  BY DEF Begin, ClientInv, TypeOK
<1>2. SlotOf(t) \in Slots
  BY RequestsAssumption DEF SlotOf, ClientInv, TypeOK
<1>3. ValueOf(org[SlotOf(t)]) \in SlotValues
  BY <1>2 DEF ClientInv, TypeOK, ValueOf, SlotValues, Records
<1>4. TypeOK'
  BY <1>1, <1>3 DEF ClientInv, TypeOK, TaskStates, Points
<1>5. \A u \in Tasks : task'[u].rec = task[u].rec /\ task'[u].answer = task[u].answer
  BY <1>1 DEF TaskStates
<1>6. IdsOwned'
  BY <1>1, <1>5, IdsKept DEF ClientInv
<1>7. SeenNow'
  BY <1>1 DEF ClientInv, SeenNow, Running, SlotOf, TaskStates
<1>8. AnswerLast'
  BY <1>1, <1>5 DEF ClientInv, AnswerLast, TaskStates, Begin
<1> QED
  BY <1>4, <1>6, <1>7, <1>8 DEF ClientInv

\* The steps of the retry loop, of a query and of a failed write keep ClientInv.
LEMMA ClientStepKeepsInv ==
  ASSUME ClientInv, NEW t \in Tasks, ClientStep(t)
  PROVE  ClientInv'
<1> DEFINE Same == UNCHANGED <<org, nextId, req, seen, drift>>
<1>1. /\ SlotOf(t) \in Slots
      /\ task \in [Tasks -> TaskStates]
      /\ cache \in [Slots -> SUBSET Records]
      /\ org[SlotOf(t)] \in Records
  BY RequestsAssumption DEF SlotOf, ClientInv, TypeOK
<1>2. ASSUME NEW st \in TaskStates, Running(t), Same, cache' = cache,
             task' = [task EXCEPT ![t] = st],
             \/ st.rec \in {NotFound, task[t].rec, org[SlotOf(t)]}
             \/ st.rec \in cache[SlotOf(t)],
             st.pc # "answered" => st.answer = "none"
      PROVE  ClientInv'
  BY <1>1, <1>2, MoveKeepsInv
<1>3. Running(t) => task[t].answer = "none"
  BY DEF ClientInv, AnswerLast, Running
<1>4. CASE Retry(t)
  <2> DEFINE st == [task[t] EXCEPT !.pc = "start"]
  <2>1. st \in TaskStates /\ st.rec = task[t].rec /\ st.answer = task[t].answer
    BY <1>1 DEF TaskStates, Points
  <2>2. Running(t) /\ Same /\ cache' = cache /\ task' = [task EXCEPT ![t] = st]
    BY <1>4 DEF Retry, Running
  <2> HIDE DEF st, Same
  <2> QED
    BY <1>2, <1>3, <2>1, <2>2
<1>5. CASE Cancelled(t)
  <2> DEFINE st == [task[t] EXCEPT !.pc = "answered", !.answer = "error",
                                   !.err = "Transient"]
  <2>1. st \in TaskStates /\ st.rec = task[t].rec /\ st.pc = "answered"
    BY <1>1 DEF TaskStates, Points, Answers, Errors
  <2>2. Running(t) /\ Same /\ cache' = cache /\ task' = [task EXCEPT ![t] = st]
    BY <1>5, <1>1 DEF Cancelled, Running
  <2> HIDE DEF st, Same
  <2> QED
    BY <1>2, <1>3, <2>1, <2>2
<1>6. CASE CacheHit(t)
  <2>1. PICK rec \in cache[SlotOf(t)] :
          task' = [task EXCEPT ![t].pc = "response", ![t].rec = rec, ![t].cached = TRUE]
    BY <1>6 DEF CacheHit
  <2> DEFINE st == [task[t] EXCEPT !.pc = "response", !.rec = rec, !.cached = TRUE]
  <2>2. rec \in Records
    BY <1>1
  <2>3. st \in TaskStates /\ st.rec = rec /\ st.answer = task[t].answer
    BY <1>1, <2>2 DEF TaskStates, Points
  <2>4. Running(t) /\ Same /\ cache' = cache /\ task' = [task EXCEPT ![t] = st]
    BY <1>1, <1>6, <2>1 DEF CacheHit, Running
  <2> HIDE DEF st, Same
  <2> QED
    BY <1>2, <1>3, <2>3, <2>4
<1>7. CASE CacheMiss(t)
  <2> DEFINE st == [task[t] EXCEPT !.pc = "send", !.cached = FALSE]
  <2>1. st \in TaskStates /\ st.rec = task[t].rec /\ st.answer = task[t].answer
    BY <1>1 DEF TaskStates, Points
  <2>2. Running(t) /\ Same /\ cache' = cache /\ task' = [task EXCEPT ![t] = st]
    BY <1>1, <1>7 DEF CacheMiss, Running
  <2> HIDE DEF st, Same
  <2> QED
    BY <1>2, <1>3, <2>1, <2>2
<1>8. CASE getSObject(t)
  <2> DEFINE st == [task[t] EXCEPT !.pc = "response", !.rec = org[SlotOf(t)]]
  <2>1. st \in TaskStates /\ st.rec = org[SlotOf(t)] /\ st.answer = task[t].answer
    BY <1>1 DEF TaskStates, Points
  <2>2. Running(t) /\ Same /\ cache' = cache /\ task' = [task EXCEPT ![t] = st]
    BY <1>1, <1>8 DEF getSObject, Running
  <2> HIDE DEF st, Same
  <2> QED
    BY <1>2, <1>3, <2>1, <2>2
<1>9. CASE QueryFails(t) \/ WriteFails(t)
  <2>1. PICK e \in {"Transient", "Permanent"} : task' = [task EXCEPT ![t] = Failed(t, e)]
    BY <1>9 DEF QueryFails, WriteFails
  <2>2. Running(t) /\ Same /\ cache' = cache
    BY <1>9 DEF QueryFails, WriteFails, Running
  <2>3. e \in Errors
    BY DEF Errors
  <2> HIDE DEF Same
  <2> QED
    BY <1>2, <2>1, <2>2, <2>3, FailedShape
<1>10. CASE WriteReplyLost(t)
  <2>1. PICK e \in {"Transient", "Permanent"} : task' = [task EXCEPT ![t] = Failed(t, e)]
    BY <1>10 DEF WriteReplyLost
  <2>2. /\ Running(t)
        /\ UNCHANGED <<cache, req, drift>>
        /\ Serve(t, "ok")
    BY <1>10 DEF WriteReplyLost, Running
  <2>3. e \in Errors /\ "ok" \in Replies
    BY DEF Errors, Replies
  <2>4. PICK rec \in Records :
          /\ Becomes(SlotOf(t), rec)
          /\ \/ rec.id = nextId /\ nextId' = nextId + 1
             \/ rec = NotFound /\ nextId' = nextId
             \/ rec.id = org[SlotOf(t)].id /\ rec.id # 0 /\ nextId' = nextId
    BY <2>2, <2>3, ServeEffect
  <2>5. drift' \in Nat
    BY <2>2 DEF ClientInv, TypeOK
  <2> QED
    BY <1>1, <2>1, <2>2, <2>3, <2>4, <2>5, FailedShape, ChangeKeepsInv
<1> QED
  BY <1>4, <1>5, <1>6, <1>7, <1>8, <1>9, <1>10 DEF ClientStep, QueryStep, WriteStep

\* Storing a query answer copies a record within its slot.
LEMMA ReadKeepsInv ==
  ASSUME ClientInv, NEW t \in Tasks, NEW d \in Decisions, Read(t, d)
  PROVE  ClientInv'
<1>1. /\ SlotOf(t) \in Slots
      /\ task[t] \in TaskStates /\ task[t].rec \in Records
      /\ cache \in [Slots -> SUBSET Records]
  BY RequestsAssumption DEF SlotOf, ClientInv, TypeOK, TaskStates
<1>2. Running(t) /\ task[t].answer = "none"
  BY DEF Read, Running, ClientInv, AnswerLast
<1> DEFINE st == IF d.outcome = "write"
                   THEN [task[t] EXCEPT !.pc = "write", !.call = d.call]
                   ELSE Outcome(t, d.outcome)
<1>3. /\ st \in TaskStates
      /\ st.rec \in {NotFound, task[t].rec}
      /\ st.pc # "answered" => st.answer = "none"
  <2>1. CASE d.outcome = "write"
    BY <1>1, <1>2, <2>1 DEF Decisions, TaskStates, Points
  <2>2. CASE d.outcome # "write"
    <3>1. d.outcome \in {"done", "already"} \cup Errors
      BY <2>2 DEF Decisions, Errors
    <3> QED
      BY <1>2, <2>2, <3>1, OutcomeShape
  <2> QED
    BY <2>1, <2>2
<1>4. /\ cache' \in [Slots -> SUBSET Records]
      /\ \A s \in Slots : \A rec \in cache'[s] :
           rec \in cache[s] \/ (SlotOf(t) = s /\ rec = task[t].rec)
  BY <1>1 DEF Read, Stored
<1>5. /\ task' = [task EXCEPT ![t] = st]
      /\ UNCHANGED <<org, nextId, req, seen, drift>>
  BY DEF Read
<1> HIDE DEF st
<1> QED
  BY <1>2, <1>3, <1>4, <1>5, MoveKeepsInv

\* A write that is served keeps ClientInv, whatever the reply.
LEMMA WriteRepliedKeepsInv ==
  ASSUME ClientInv, NEW t \in Tasks,
         NEW translate \in [Replies -> {"done", "already"} \cup Errors],
         WriteReplied(t, translate)
  PROVE  ClientInv'
<1>1. PICK reply \in Replies :
        Serve(t, reply) /\ task' = [task EXCEPT ![t] = Outcome(t, translate[reply])]
  BY DEF WriteReplied
<1>2. /\ Running(t)
      /\ UNCHANGED <<cache, req, drift>>
      /\ drift' \in Nat
      /\ SlotOf(t) \in Slots
      /\ cache \in [Slots -> SUBSET Records]
  BY RequestsAssumption DEF WriteReplied, Running, ClientInv, TypeOK, SlotOf
<1> DEFINE st == Outcome(t, translate[reply])
<1>3. /\ st \in TaskStates
      /\ st.rec = NotFound
      /\ st.pc # "answered" => st.answer = "none"
  BY <1>2, OutcomeShape
<1> HIDE DEF st
<1>4. CASE UNCHANGED <<org, seen, nextId>>
  BY <1>1, <1>2, <1>3, <1>4, MoveKeepsInv DEF st
<1>5. CASE \E rec \in Records :
             /\ Becomes(SlotOf(t), rec)
             /\ \/ rec.id = nextId /\ nextId' = nextId + 1
                \/ rec = NotFound /\ nextId' = nextId
                \/ rec.id = org[SlotOf(t)].id /\ rec.id # 0 /\ nextId' = nextId
  BY <1>1, <1>2, <1>3, <1>5, ChangeKeepsInv DEF st
<1> QED
  BY <1>1, <1>4, <1>5, ServeEffect

\* A change by anyone else keeps ClientInv.
LEMMA DriftKeepsInv ==
  ASSUME ClientInv, NEW s \in Slots, Drift(s)
  PROVE  ClientInv'
<1> USE NotFoundIsRecord
<1>1. /\ drift' \in Nat /\ UNCHANGED <<cache, req, task>>
      /\ org[s] \in Records /\ nextId \in Nat
      /\ org[s].id = 0 => org[s] = NotFound
  BY DEF Drift, ClientInv, TypeOK, IdsOwned, OwnedBy
<1>2. CASE DriftCreate(s)
  <2>1. PICK v \in Values : Becomes(s, [id |-> nextId, value |-> v])
    BY <1>2 DEF DriftCreate
  <2>2. nextId' = nextId + 1 /\ [id |-> nextId, value |-> v] \in Records
    BY <1>1, <1>2 DEF DriftCreate, Records
  <2> QED
    BY <1>1, <2>1, <2>2, ChangeKeepsInv
<1>3. CASE DriftUpdate(s)
  <2>1. PICK v \in Values : Becomes(s, [org[s] EXCEPT !.value = v])
    BY <1>3 DEF DriftUpdate
  <2> DEFINE rec == [org[s] EXCEPT !.value = v]
  <2>2. rec \in Records /\ rec.id = org[s].id /\ rec.id # 0 /\ nextId' = nextId
    BY <1>1, <1>3 DEF DriftUpdate, Records
  <2>3. Becomes(s, rec)
    BY <2>1
  <2> HIDE DEF rec
  <2> QED
    BY <1>1, <2>2, <2>3, ChangeKeepsInv
<1>4. CASE DriftDelete(s)
  BY <1>1, <1>4, ChangeKeepsInv DEF DriftDelete
<1> QED
  BY <1>2, <1>3, <1>4 DEF Drift

\* Cache entries may go at any time.
LEMMA CacheLossKeepsInv ==
  ASSUME ClientInv, ClearCaches \/ \E s \in Slots : CacheEvict(s)
  PROVE  ClientInv'
<1>1. /\ UNCHANGED <<org, nextId, req, task, seen, drift>>
      /\ cache' \in [Slots -> SUBSET Records]
      /\ \A s \in Slots : cache'[s] \subseteq cache[s]
  BY DEF ClearCaches, CacheEvict, ClientInv, TypeOK
<1>2. TypeOK'
  BY <1>1 DEF ClientInv, TypeOK
<1>3. IdsOwned'
  BY <1>1, IdsKept DEF ClientInv
<1> QED
  BY <1>1, <1>2, <1>3 DEF ClientInv, SeenNow, AnswerLast, Running, SlotOf, ValueOf

\* Nothing the environment does breaks ClientInv.
LEMMA EnvironmentKeepsInv ==
  ASSUME ClientInv, Environment
  PROVE  ClientInv'
BY DriftKeepsInv, CacheLossKeepsInv DEF Environment

\* ClientInv depends on the variables of the layer alone.
LEMMA StutterKeepsInv ==
  ASSUME ClientInv, UNCHANGED clientVars
  PROVE  ClientInv'
BY DEF clientVars, ClientInv, TypeOK, IdsOwned, OwnedBy, SeenNow, AnswerLast,
       Running, SlotOf, ValueOf

-----------------------------------------------------------------------------
(* What the steps of the layer never do by themselves.                     *)

(* Nothing is forgotten, no task succeeds, and none comes to a write.      *)
Quiet ==
  /\ req' = req
  /\ \A u \in Tasks : /\ seen[u] \subseteq seen'[u]
                      /\ task'[u].answer = "done" => task[u].answer = "done"
                      /\ task'[u].pc = "write" => task'[u] = task[u]

\* A change of a slot only adds to the histories.
LEMMA BecomesAdds ==
  ASSUME TypeOK, NEW s \in Slots, NEW rec, Becomes(s, rec)
  PROVE  \A u \in Tasks : /\ seen[u] \subseteq seen'[u]
                          /\ Running(u) /\ SlotOf(u) = s => ValueOf(rec) \in seen'[u]
BY DEF Becomes, TypeOK

\* The environment moves no task.
LEMMA EnvironmentQuiet ==
  ASSUME ClientInv, Environment
  PROVE  Quiet /\ task' = task
<1>1. CASE ClearCaches \/ \E s \in Slots : CacheEvict(s)
  BY <1>1 DEF ClearCaches, CacheEvict, Quiet
<1>2. CASE \E s \in Slots : Drift(s)
  <2>1. PICK s \in Slots : Drift(s)
    BY <1>2
  <2>2. PICK rec : Becomes(s, rec)
    BY <2>1 DEF Drift, DriftCreate, DriftUpdate, DriftDelete
  <2>3. req' = req /\ task' = task
    BY <2>1 DEF Drift
  <2> QED
    BY <2>2, <2>3, BecomesAdds DEF Quiet, ClientInv
<1> QED
  BY <1>1, <1>2 DEF Environment

\* A task that begins neither answers nor writes.
LEMMA BeginQuiet ==
  ASSUME ClientInv, NEW t \in Tasks, Begin(t)
  PROVE  /\ req' = req
         /\ task'[t].answer = "none" /\ task'[t].pc = "start"
         /\ \A u \in Tasks : u # t => task'[u] = task[u] /\ seen'[u] = seen[u]
<1>1. task \in [Tasks -> TaskStates] /\ task[t].answer = "none"
  BY DEF Begin, ClientInv, TypeOK, AnswerLast
<1> QED
  BY <1>1 DEF Begin, ClientInv, TypeOK, TaskStates

\* No step of the layer reports a success or decides on a write.
LEMMA ClientStepQuiet ==
  ASSUME ClientInv, NEW t \in Tasks, ClientStep(t)
  PROVE  Quiet
<1>1. task \in [Tasks -> TaskStates] /\ SlotOf(t) \in Slots
  BY RequestsAssumption DEF SlotOf, ClientInv, TypeOK
<1>2. CASE Retry(t) \/ Cancelled(t) \/ CacheHit(t) \/ CacheMiss(t) \/ getSObject(t)
  <2>1. UNCHANGED <<req, seen>> /\ \A u \in Tasks : u # t => task'[u] = task[u]
    BY <1>1, <1>2 DEF Retry, Cancelled, CacheHit, CacheMiss, getSObject
  <2>2. /\ task'[t].pc # "write"
        /\ task'[t].answer = "error" \/ task'[t].answer = task[t].answer
    <3>1. CASE Retry(t) \/ Cancelled(t)
      BY <1>1, <3>1 DEF Retry, Cancelled, TaskStates
    <3>2. CASE CacheHit(t)
      BY <1>1, <3>2 DEF CacheHit, TaskStates
    <3>3. CASE CacheMiss(t) \/ getSObject(t)
      BY <1>1, <3>3 DEF CacheMiss, getSObject, TaskStates
    <3> QED
      BY <1>2, <3>1, <3>2, <3>3
  <2> QED
    BY <2>1, <2>2 DEF Quiet
<1>3. CASE QueryFails(t) \/ WriteFails(t) \/ WriteReplyLost(t)
  <2>1. PICK e \in {"Transient", "Permanent"} : task' = [task EXCEPT ![t] = Failed(t, e)]
    BY <1>3 DEF QueryFails, WriteFails, WriteReplyLost
  <2>2. Running(t) /\ req' = req /\ e \in Errors
    BY <1>3 DEF QueryFails, WriteFails, WriteReplyLost, Running, Errors
  <2>3. \A u \in Tasks : /\ task'[u].answer = "done" => task[u].answer = "done"
                         /\ task'[u].pc = "write" => task'[u] = task[u]
    BY <1>1, <2>1, <2>2, FailedShape
  <2>4. \A u \in Tasks : seen[u] \subseteq seen'[u]
    <3>1. CASE WriteReplyLost(t)
      <4>1. Serve(t, "ok") /\ "ok" \in Replies
        BY <3>1 DEF WriteReplyLost, Replies
      <4> QED
        BY <1>1, <4>1, ServeEffect, BecomesAdds DEF ClientInv
    <3>2. CASE ~WriteReplyLost(t)
      BY <1>3, <3>2 DEF QueryFails, WriteFails
    <3> QED
      BY <3>1, <3>2
  <2> QED
    BY <2>2, <2>3, <2>4 DEF Quiet
<1> QED
  BY <1>2, <1>3 DEF ClientStep, QueryStep, WriteStep

(* A write changes no slot but the task's own, and only if it is a create  *)
(* of what was missing, a delete of what was there, or an update to        *)
(* another value.                                                          *)
LEMMA ServeChanges ==
  ASSUME ClientInv, NEW t \in Tasks, NEW reply, Serve(t, reply),
         NEW s \in Slots, org'[s] # org[s]
  PROVE  /\ s = SlotOf(t)
         /\ task[t].call.op = "create" <=> org[s] = NotFound
         /\ task[t].call.op = "update" => org[s].value # task[t].call.value
<1> USE DEF ClientInv
<1>1. org \in [Slots -> Records] /\ SlotOf(t) \in Slots
  BY RequestsAssumption DEF TypeOK, SlotOf
<1>2. CASE ServeCreate(t, reply)
  BY <1>1, <1>2 DEF ServeCreate, Becomes
<1>3. CASE ServeById(t, reply)
  <2>1. PICK q \in Slots :
          /\ org[q] # NotFound
          /\ org[q].id = task[t].rec.id
          /\ Becomes(q, IF task[t].call.op = "delete" THEN NotFound
                        ELSE [org[q] EXCEPT !.value = task[t].call.value])
    BY <1>3 DEF ServeById
  <2>2. q = SlotOf(t)
    BY <2>1 DEF IdsOwned, OwnedBy
  <2>3. s = q
    BY <1>1, <2>1 DEF Becomes
  <2>4. ASSUME task[t].call.op = "update", org[s].value = task[t].call.value
        PROVE  FALSE
    <3>1. [org[q] EXCEPT !.value = task[t].call.value] = org[q]
      BY <1>1, <2>3, <2>4 DEF Records
    <3>2. org'[s] = org[q]
      BY <1>1, <2>1, <2>3, <2>4, <3>1 DEF Becomes
    <3> QED
      BY <2>3, <3>2
  <2> QED
    BY <1>3, <2>1, <2>2, <2>3, <2>4 DEF ServeById
<1> QED
  BY <1>2, <1>3 DEF Serve

-----------------------------------------------------------------------------
(* Every step of a task comes closer to its answer.                        *)

\* The bound on attempts is kept, and no task gets further from its answer.
Counted ==
  /\ AttemptsBounded'
  /\ \A u \in Tasks : task'[u] # task[u] => Remaining(u)' \in 0 .. Remaining(u) - 1

\* A stage is a number of its own, below the price of one more attempt.
LEMMA StageType ==
  /\ \A p \in Points \ {"answered"} : Stage[p] \in 1 .. 6
  /\ Stage["idle"] = 6 /\ Stage["wait"] = 5 /\ Stage["start"] = 4
  /\ Stage["send"] = 3 /\ Stage["response"] = 2 /\ Stage["write"] = 1
BY DEF Points, Stage

(* A task that moves on within its attempt, or fails within the bound, or  *)
(* is answered, keeps the count.                                           *)
LEMMA MoveCounts ==
  ASSUME ClientInv, AttemptsBounded, NEW t \in Tasks, NEW st \in TaskStates,
         task' = [task EXCEPT ![t] = st],
         task[t].pc # "answered",
         \/ st.pc = "answered"
         \/ /\ st.pc # "answered" /\ st.attempts = task[t].attempts
            /\ Stage[st.pc] < Stage[task[t].pc]
         \/ /\ st.pc = "wait" /\ st.attempts = task[t].attempts + 1
            /\ st.attempts <= MaxAttempts
  PROVE  Counted
<1>1. /\ task \in [Tasks -> TaskStates] /\ task[t] \in TaskStates
      /\ task'[t] = st /\ \A u \in Tasks : u # t => task'[u] = task[u]
  BY DEF ClientInv, TypeOK
<1>2. /\ MaxAttempts \in Nat
      /\ st.attempts \in Nat /\ st.pc \in Points
      /\ task[t].attempts \in Nat /\ task[t].attempts <= MaxAttempts
      /\ task[t].pc \in Points
  BY <1>1, BoundsAssumption DEF TaskStates, AttemptsBounded
<1>3. Stage[task[t].pc] \in 1 .. 6
  BY <1>2, StageType
<1>4. st.pc # "answered" => st.attempts <= MaxAttempts /\ Stage[st.pc] \in 1 .. 6
  BY <1>2, StageType
<1>5. AttemptsBounded'
  BY <1>1, <1>4 DEF AttemptsBounded
<1> DEFINE before == 6 * (MaxAttempts - task[t].attempts) + Stage[task[t].pc]
           after == IF st.pc = "answered" THEN 0
                    ELSE 6 * (MaxAttempts - st.attempts) + Stage[st.pc]
<1>6. Remaining(t) = before /\ Remaining(t)' = after
  BY <1>1 DEF Remaining
<1>7. after \in 0 .. before - 1
  <2>1. CASE st.pc = "answered"
    BY <1>2, <1>3, <2>1
  <2>2. CASE st.pc # "answered" /\ st.attempts = task[t].attempts
    BY <1>2, <1>3, <1>4, <2>2
  <2>3. CASE st.pc = "wait" /\ st.attempts = task[t].attempts + 1
    BY <1>2, <1>3, <1>4, <2>3, StageType
  <2> QED
    BY <2>1, <2>2, <2>3
<1> QED
  BY <1>1, <1>5, <1>6, <1>7 DEF Counted

\* The steps within an attempt, by the points they lead from and to.
LEMMA AdvanceCounts ==
  ASSUME ClientInv, AttemptsBounded, NEW t \in Tasks, NEW st \in TaskStates,
         task' = [task EXCEPT ![t] = st], st.attempts = task[t].attempts,
         \/ task[t].pc \in {"idle", "wait"} /\ st.pc = "start"
         \/ task[t].pc = "start" /\ st.pc \in {"send", "response"}
         \/ task[t].pc = "send" /\ st.pc = "response"
         \/ task[t].pc = "response" /\ st.pc = "write"
  PROVE  Counted
<1>1. /\ task[t].pc # "answered" /\ st.pc # "answered"
      /\ Stage[st.pc] < Stage[task[t].pc]
  BY DEF Stage
<1> QED
  BY <1>1, MoveCounts

\* A handler that fails is answered, or its failure is counted.
LEMMA FailedCounts ==
  ASSUME ClientInv, NEW t \in Tasks, NEW e \in Errors
  PROVE  LET st == Failed(t, e)
         IN  \/ st.pc = "answered"
             \/ /\ st.pc = "wait" /\ st.attempts = task[t].attempts + 1
                /\ st.attempts <= MaxAttempts
<1>1. task[t] \in TaskStates
  BY DEF ClientInv, TypeOK
<1> QED
  BY <1>1 DEF Failed, Returned, TaskStates

\* So does one that returns.
LEMMA OutcomeCounts ==
  ASSUME ClientInv, NEW t \in Tasks, NEW o \in {"done", "already"} \cup Errors
  PROVE  LET st == Outcome(t, o)
         IN  \/ st.pc = "answered"
             \/ /\ st.pc = "wait" /\ st.attempts = task[t].attempts + 1
                /\ st.attempts <= MaxAttempts
<1>1. task[t] \in TaskStates
  BY DEF ClientInv, TypeOK
<1>2. CASE o \in {"done", "already"}
  BY <1>1, <1>2 DEF Outcome, Returned, TaskStates
<1>3. CASE o \notin {"done", "already"}
  BY <1>3, FailedCounts DEF Outcome
<1> QED
  BY <1>2, <1>3

\* A handler that returned, with whatever outcome, keeps the count.
LEMMA ReturnCounts ==
  ASSUME ClientInv, AttemptsBounded, NEW t \in Tasks, Running(t),
         NEW o \in {"done", "already"} \cup Errors,
         task' = [task EXCEPT ![t] = Outcome(t, o)]
  PROVE  Counted
<1>1. PICK st : st = Outcome(t, o)
  OBVIOUS
<1>2. st \in TaskStates
  BY <1>1, OutcomeShape
<1>3. \/ st.pc = "answered"
      \/ /\ st.pc = "wait" /\ st.attempts = task[t].attempts + 1
         /\ st.attempts <= MaxAttempts
  BY <1>1, OutcomeCounts
<1> QED
  BY <1>1, <1>2, <1>3, MoveCounts DEF Running

\* One that failed is one that returned.
LEMMA FailureCounts ==
  ASSUME ClientInv, AttemptsBounded, NEW t \in Tasks, Running(t),
         NEW e \in {"Transient", "Permanent"},
         task' = [task EXCEPT ![t] = Failed(t, e)]
  PROVE  Counted
<1>1. e \in Errors /\ Outcome(t, e) = Failed(t, e)
  BY DEF Errors, Outcome
<1> QED
  BY <1>1, ReturnCounts

\* The environment moves no task, and neither does a stuttering step.
LEMMA IdleCounts ==
  ASSUME AttemptsBounded, task' = task
  PROVE  Counted
BY DEF Counted, AttemptsBounded

\* The first step of a task, and the steps of the layer.
LEMMA BeginCounts ==
  ASSUME ClientInv, AttemptsBounded, NEW t \in Tasks, Begin(t)
  PROVE  Counted
<1>1. task[t] \in TaskStates
  BY DEF ClientInv, TypeOK
<1>2. PICK st : st = [task[t] EXCEPT !.pc = "start"]
  OBVIOUS
<1>3. st \in TaskStates /\ st.pc = "start" /\ st.attempts = task[t].attempts
  BY <1>1, <1>2 DEF TaskStates, Points
<1>4. task' = [task EXCEPT ![t] = st] /\ task[t].pc = "idle"
  BY <1>2 DEF Begin
<1> QED
  BY <1>3, <1>4, AdvanceCounts

LEMMA ClientStepCounts ==
  ASSUME ClientInv, AttemptsBounded, NEW t \in Tasks, ClientStep(t)
  PROVE  Counted
<1>1. /\ task \in [Tasks -> TaskStates] /\ task[t] \in TaskStates /\ SlotOf(t) \in Slots
      /\ cache \in [Slots -> SUBSET Records] /\ org \in [Slots -> Records]
  BY RequestsAssumption DEF ClientInv, TypeOK, SlotOf
<1>2. CASE Retry(t)
  <2>1. PICK st : st = [task[t] EXCEPT !.pc = "start"]
    OBVIOUS
  <2>2. st \in TaskStates /\ st.pc = "start" /\ st.attempts = task[t].attempts
    BY <1>1, <2>1 DEF TaskStates, Points
  <2>3. task' = [task EXCEPT ![t] = st] /\ task[t].pc = "wait"
    BY <1>2, <2>1 DEF Retry
  <2> QED
    BY <2>2, <2>3, AdvanceCounts
<1>3. CASE Cancelled(t)
  <2>1. PICK st : st = [task[t] EXCEPT !.pc = "answered", !.answer = "error",
                                       !.err = "Transient"]
    OBVIOUS
  <2>2. st \in TaskStates /\ st.pc = "answered"
    BY <1>1, <2>1 DEF TaskStates, Points, Answers, Errors
  <2>3. task' = [task EXCEPT ![t] = st] /\ task[t].pc = "wait"
    BY <1>1, <1>3, <2>1 DEF Cancelled
  <2> QED
    BY <2>2, <2>3, MoveCounts
<1>4. CASE CacheHit(t)
  <2>1. PICK rec \in cache[SlotOf(t)] :
          task' = [task EXCEPT ![t].pc = "response", ![t].rec = rec, ![t].cached = TRUE]
    BY <1>4 DEF CacheHit
  <2>2. PICK st : st = [task[t] EXCEPT !.pc = "response", !.rec = rec, !.cached = TRUE]
    OBVIOUS
  <2>3. st \in TaskStates /\ st.pc = "response" /\ st.attempts = task[t].attempts
    BY <1>1, <2>2 DEF TaskStates, Points
  <2>4. task' = [task EXCEPT ![t] = st] /\ task[t].pc = "start"
    BY <1>1, <1>4, <2>1, <2>2 DEF CacheHit
  <2> QED
    BY <2>3, <2>4, AdvanceCounts
<1>5. CASE CacheMiss(t)
  <2>1. PICK st : st = [task[t] EXCEPT !.pc = "send", !.cached = FALSE]
    OBVIOUS
  <2>2. st \in TaskStates /\ st.pc = "send" /\ st.attempts = task[t].attempts
    BY <1>1, <2>1 DEF TaskStates, Points
  <2>3. task' = [task EXCEPT ![t] = st] /\ task[t].pc = "start"
    BY <1>1, <1>5, <2>1 DEF CacheMiss
  <2> QED
    BY <2>2, <2>3, AdvanceCounts
<1>6. CASE getSObject(t)
  <2>1. PICK st : st = [task[t] EXCEPT !.pc = "response", !.rec = org[SlotOf(t)]]
    OBVIOUS
  <2>2. st \in TaskStates /\ st.pc = "response" /\ st.attempts = task[t].attempts
    BY <1>1, <2>1 DEF TaskStates, Points
  <2>3. task' = [task EXCEPT ![t] = st] /\ task[t].pc = "send"
    BY <1>1, <1>6, <2>1 DEF getSObject
  <2> QED
    BY <2>2, <2>3, AdvanceCounts
<1>7. CASE QueryFails(t) \/ WriteFails(t) \/ WriteReplyLost(t)
  <2>1. PICK e \in {"Transient", "Permanent"} : task' = [task EXCEPT ![t] = Failed(t, e)]
    BY <1>7 DEF QueryFails, WriteFails, WriteReplyLost
  <2>2. Running(t)
    BY <1>7 DEF QueryFails, WriteFails, WriteReplyLost, Running
  <2> QED
    BY <2>1, <2>2, FailureCounts
<1> QED
  BY <1>2, <1>3, <1>4, <1>5, <1>6, <1>7 DEF ClientStep, QueryStep, WriteStep

\* The decision on the record that was read, and the reply to a write.
LEMMA ReadCounts ==
  ASSUME ClientInv, AttemptsBounded, NEW t \in Tasks, NEW d \in Decisions, Read(t, d)
  PROVE  Counted
<1>1. task[t] \in TaskStates /\ task[t].pc = "response" /\ Running(t)
  BY DEF ClientInv, TypeOK, Read, Running
<1>2. CASE d.outcome = "write"
  <2>1. PICK st : st = [task[t] EXCEPT !.pc = "write", !.call = d.call]
    OBVIOUS
  <2>2. st \in TaskStates /\ st.pc = "write" /\ st.attempts = task[t].attempts
    BY <1>1, <2>1 DEF TaskStates, Points, Decisions
  <2>3. task' = [task EXCEPT ![t] = st]
    BY <1>2, <2>1 DEF Read
  <2> QED
    BY <1>1, <2>2, <2>3, AdvanceCounts
<1>3. CASE d.outcome # "write"
  <2>1. d.outcome \in {"done", "already"} \cup Errors
    BY <1>3 DEF Decisions, Errors
  <2>2. task' = [task EXCEPT ![t] = Outcome(t, d.outcome)]
    BY <1>3 DEF Read
  <2> QED
    BY <1>1, <2>1, <2>2, ReturnCounts
<1> QED
  BY <1>2, <1>3

LEMMA WriteRepliedCounts ==
  ASSUME ClientInv, AttemptsBounded, NEW t \in Tasks,
         NEW translate \in [Replies -> {"done", "already"} \cup Errors],
         WriteReplied(t, translate)
  PROVE  Counted
<1>1. PICK reply \in Replies : task' = [task EXCEPT ![t] = Outcome(t, translate[reply])]
  BY DEF WriteReplied
<1>2. Running(t) /\ translate[reply] \in {"done", "already"} \cup Errors
  BY DEF WriteReplied, Running
<1> QED
  BY <1>1, <1>2, ReturnCounts

\* No task has failed before the process started.
LEMMA InitCounts == ClientInit => AttemptsBounded
BY BoundsAssumption DEF ClientInit, AttemptsBounded, IdleTask
=============================================================================
