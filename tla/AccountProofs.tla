---------------------------- MODULE AccountProofs ---------------------------
(***************************************************************************)
(* Theorems about CreateAccount, Delete and updateUserStatus, for any      *)
(* number of calls, users and tries.                                       *)
(*                                                                         *)
(* The inductive invariant says of an answer, cached or in a handler's     *)
(* hands, which calls it is true of: all those that ran when Salesforce    *)
(* gave it have it in their history.  A call alone in the process then     *)
(* finds only answers of its own time once it has cleared the cache.  The  *)
(* last part adds what a call that nobody disturbs knows of the present.   *)
(***************************************************************************)
EXTENDS AccountProvisioning, TLAPS, WellFoundedInduction

(* Answer e to query k is one that every call that ran when it was given   *)
(* has in its history.  Users who were found stay.                         *)
TrueEntry(k, e) ==
  /\ \A u \in e.since : call[u].pc # "idle" /\ <<k, e.ans>> \in seen[u]
  /\ k = ByEmail /\ e.ans # NotFound => users[e.ans.id].exists

EntriesTrue ==
  /\ \A k \in Queries : \A e \in cache[k] : TrueEntry(k, e)
  /\ \A t \in Calls : Querying(t, "store") => TrueEntry(KeyOf(t), call[t].got)

\* The history of a running call includes the present.
SeenNow == \A t \in Calls : Running(t) => Now \subseteq seen[t]

\* Calls that run at once know of each other.
AloneUnlessMet ==
  \A t, u \in Calls : t # u /\ Running(t) /\ Running(u) => met[t]

\* What a call has told and done fits where it is.
InOrder(t) ==
  /\ call[t].pc = "idle" => call[t] = IdleCall
  /\ Running(t) => /\ call[t].answer = "none" /\ call[t].err = "none" /\ ~call[t].enabled
                   /\ req[t].op = "CreateAccount" \/ call[t].pc = "patch"
                   /\ call[t].pc \in {"mail", "login"} => call[t].user # NotFound
                   /\ call[t].pc = "login" => call[t].mailed = call[t].user.id
                   /\ call[t].pc # "login" => call[t].mailed = 0
  /\ call[t].pc = "patch" /\ req[t].op = "CreateAccount" =>
       call[t].user # NotFound /\ users[call[t].user.id].exists
  /\ Querying(t, "store") /\ ~call[t].stale => t \in call[t].got.since

\* A call on its way to the mail has a user to mail to.
UsableLater(t) ==
  call[t].pc \in {"clear", "find", "pause", "mail", "login"} => call[t].stale \/ SawUsable(t)

\* A call that is alone has read nothing older than itself since it cleared the cache.
OwnAnswers(t) ==
  ~met[t] =>
    /\ call[t].pc \in {"find", "mail", "login"} =>
         \A k \in Queries : \A e \in cache[k] : t \in e.since
    /\ Querying(t, "store") /\ call[t].pc \in {"find", "login"} => t \in call[t].got.since
    /\ call[t].pc \in {"mail", "login"} => <<ByEmail, call[t].user>> \in seen[t]

\* What the properties say of one call.
Says(t) ==
  /\ call[t].pc = "create" /\ ~call[t].stale =>
       call[t].denied \/ <<ByEmail, NotFound>> \in seen[t]
  /\ call[t].mailed # 0 /\ ~met[t] =>
       \E a \in Answers : <<ByEmail, a>> \in seen[t] /\ a.id = call[t].mailed
  /\ call[t].answer = "done" /\ req[t].op = "CreateAccount" =>
       /\ call[t].mailed = call[t].user.id /\ call[t].mailed # 0
       /\ call[t].stale \/ SawUsable(t)
  /\ call[t].enabled /\ ~met[t] =>
       /\ \E a \in Answers :
            <<ByEmail, a>> \in seen[t] /\ a.id = call[t].user.id /\ a.active
       /\ \E a \in Answers : <<call[t].user.id, a>> \in seen[t] /\ ~a.frozen
  /\ call[t].answer = "done" /\ req[t].op # "CreateAccount" =>
       \E a \in Answers : <<req[t].id, a>> \in seen[t] /\ a.active = req[t].active

CallInv(t) == InOrder(t) /\ UsableLater(t) /\ OwnAnswers(t) /\ Says(t)

UsersProper == \A i \in Ids : ~users[i].exists => users[i] = NoUser

AccountInv ==
  /\ TypeOK /\ EntriesTrue /\ SeenNow /\ AloneUnlessMet /\ UsersProper
  /\ \A t \in Calls : CallInv(t)

-----------------------------------------------------------------------------
\* Among the users that are found, one comes first.
LEMMA SomeoneIsFirst ==
  ASSUME NEW i \in Ids, users[i].found
  PROVE  \E j \in Ids : First(j)
<1> DEFINE T == {j \in Nat : j \in Ids /\ users[j].found}
           R == OpToRel(<, Nat)
<1>0. Ids \subseteq Nat /\ 1 \in Nat
  BY AccountBounds DEF Ids
<1>1. T \subseteq Nat /\ T # {} /\ IsWellFoundedOn(R, Nat)
  BY <1>0, NatLessThanWellFounded
<1>2. PICK j \in T : \A k \in T : ~ (<<k, j>> \in R)
  <2> HIDE DEF T, R
  <2> QED
    BY <1>1, WFMin
<1>3. \A k \in T : ~(k < j)
  BY <1>2 DEF OpToRel
<1>4. j \in Nat /\ j \in Ids /\ users[j].found
  BY <1>2
<1> HIDE DEF R
<1>5. ASSUME NEW k \in 1 .. j - 1 PROVE ~users[k].found
  <2> HIDE DEF T
  <2>1. k \in Nat /\ k < j /\ k \in Ids
    BY <1>4, AccountBounds DEF Ids
  <2> QED
    BY <1>3, <2>1 DEF T
<1> QED
  BY <1>4, <1>5 DEF First

\* What an answer is.
LEMMA AnswerFacts ==
  ASSUME NEW a \in Answers
  PROVE  /\ a.id \in Queries /\ a.active \in BOOLEAN /\ a.frozen \in BOOLEAN
         /\ a.id = 0 <=> a = NotFound
         /\ a # NotFound => a.id \in Ids
<1>1. 0 \notin Ids
  BY AccountBounds DEF Ids
<1>2. CASE a = NotFound
  BY <1>1, <1>2 DEF NotFound, Queries, ByEmail
<1>3. CASE a \in [id : Ids, active : BOOLEAN, frozen : BOOLEAN]
  BY <1>1, <1>3 DEF NotFound, Queries
<1> QED
  BY <1>2, <1>3 DEF Answers

\* Salesforce's answers are answers.
LEMMA AnswerType ==
  ASSUME TypeOK
  PROVE  /\ \A i \in Ids : /\ Snapshot(i) \in Answers /\ Snapshot(i) # NotFound
                           /\ Snapshot(i).id = i /\ Snapshot(i).active = users[i].active
         /\ \/ GetUserByEmail = NotFound /\ \A i \in Ids : ~users[i].found
            \/ \E i \in Ids : First(i) /\ users[i].found /\ GetUserByEmail = Snapshot(i)
         /\ \A k \in Queries : Answer(k) \in Answers /\ <<k, Answer(k)>> \in Now
         /\ Answer(ByEmail) = GetUserByEmail /\ ByEmail \in Queries
         /\ \A i \in Ids : Answer(i) = Snapshot(i) /\ i \in Queries /\ i # ByEmail
<1>0. 0 \notin Ids /\ ByEmail \notin Ids
  BY AccountBounds DEF Ids, ByEmail
<1>1. ASSUME NEW i \in Ids
      PROVE  /\ Snapshot(i) \in Answers /\ Snapshot(i) # NotFound
             /\ Snapshot(i).id = i /\ Snapshot(i).active = users[i].active
  <2>1. users[i].active \in BOOLEAN /\ users[i].frozen \in BOOLEAN
    BY DEF TypeOK, UserRecords
  <2> QED
    BY <1>0, <2>1 DEF Snapshot, Answers, NotFound
<1>2. \/ GetUserByEmail = NotFound /\ \A i \in Ids : ~users[i].found
      \/ \E i \in Ids : First(i) /\ users[i].found /\ GetUserByEmail = Snapshot(i)
  <2>1. CASE \E i \in Ids : First(i)
    <3>1. PICK j : j = CHOOSE i \in Ids : First(i)
      OBVIOUS
    <3>2. j \in Ids /\ First(j)
      BY <2>1, <3>1
    <3>3. GetUserByEmail = Snapshot(j)
      BY <2>1, <3>1 DEF GetUserByEmail
    <3> QED
      BY <3>2, <3>3 DEF First
  <2>2. CASE ~\E i \in Ids : First(i)
    BY <2>2, SomeoneIsFirst DEF GetUserByEmail
  <2> QED
    BY <2>1, <2>2
<1>3. Answer(ByEmail) = GetUserByEmail /\ ByEmail \in Queries
  BY DEF Answer, Queries
<1>4. ASSUME NEW i \in Ids PROVE Answer(i) = Snapshot(i) /\ i \in Queries /\ i # ByEmail
  BY <1>0 DEF Answer, Queries
<1>5. GetUserByEmail \in Answers
  BY <1>1, <1>2 DEF Answers
<1>6. ASSUME NEW k \in Queries PROVE Answer(k) \in Answers /\ <<k, Answer(k)>> \in Now
  BY <1>1, <1>3, <1>4, <1>5 DEF Queries, Now
<1> QED
  BY <1>1, <1>2, <1>3, <1>4, <1>6

\* A handler that goes on, and one that returns an error.
LEMMA MovedShape ==
  ASSUME TypeOK, NEW t \in Calls, NEW p \in Points
  PROVE  /\ Moved(t, p) \in CallStates
         /\ Moved(t, p).pc = p /\ Moved(t, p).phase = "look"
         /\ Moved(t, p).user = call[t].user /\ Moved(t, p).tries = call[t].tries
         /\ Moved(t, p).mailed = call[t].mailed /\ Moved(t, p).enabled = call[t].enabled
         /\ Moved(t, p).made = call[t].made /\ Moved(t, p).stale = call[t].stale
         /\ Moved(t, p).answer = call[t].answer /\ Moved(t, p).err = call[t].err
         /\ Moved(t, p).denied = call[t].denied
<1>1. call[t] \in CallStates /\ NoEntry \in Entries
  BY DEF TypeOK, NoEntry, Entries, Answers
<1> QED
  BY <1>1 DEF Moved, CallStates

\* Nothing but the mail is left of a call that failed.
LEMMA FailedShape ==
  ASSUME TypeOK, NEW t \in Calls, NEW e \in Errors
  PROVE  /\ Failed(t, e) \in CallStates
         /\ Failed(t, e).pc = "answered" /\ Failed(t, e).phase = "look"
         /\ Failed(t, e).mailed = call[t].mailed /\ Failed(t, e).enabled = call[t].enabled
         /\ Failed(t, e).stale = call[t].stale /\ Failed(t, e).denied = call[t].denied
         /\ Failed(t, e).answer = "error" /\ Failed(t, e).err = e
<1>1. "answered" \in Points /\ NotFound \in Answers
  BY DEF Points, Answers
<1>2. Moved(t, "answered") \in CallStates
  BY <1>1, MovedShape
<1>3. PICK m : m = Moved(t, "answered")
  OBVIOUS
<1>4. /\ m \in CallStates /\ m.pc = "answered" /\ m.phase = "look"
      /\ m.mailed = call[t].mailed /\ m.enabled = call[t].enabled /\ m.stale = call[t].stale
      /\ m.denied = call[t].denied
  BY <1>1, <1>3, MovedShape
<1>5. Failed(t, e) = [m EXCEPT !.user = NotFound, !.tries = 0, !.made = 0,
                               !.answer = "error", !.err = e]
  BY <1>3 DEF Failed
<1>6. Failed(t, e) \in CallStates
  <2>1. [m EXCEPT !.user = NotFound] \in CallStates
    BY <1>1, <1>4 DEF CallStates
  <2>2. [m EXCEPT !.user = NotFound, !.tries = 0] \in CallStates
    BY <2>1 DEF CallStates
  <2>3. [m EXCEPT !.user = NotFound, !.tries = 0, !.made = 0] \in CallStates
    BY <2>2 DEF CallStates, Queries, ByEmail
  <2>4. [m EXCEPT !.user = NotFound, !.tries = 0, !.made = 0, !.answer = "error"] \in CallStates
    BY <2>3 DEF CallStates
  <2> QED
    BY <1>5, <2>4 DEF CallStates
<1> QED
  BY <1>4, <1>5, <1>6 DEF CallStates

-----------------------------------------------------------------------------
(* What a step of one call leaves alone.                                   *)

\* Histories grow, calls do not begin again, and users stay.
Grows ==
  /\ \A u \in Calls : call[u].pc # "idle" => call'[u].pc # "idle" /\ seen[u] \subseteq seen'[u]
  /\ \A i \in Ids : users[i].exists => users'[i].exists

(* A step of call t: a change of one user at most, no answer in the cache  *)
(* but the one t read, and none in the hands of t but a cached one or      *)
(* Salesforce's.                                                           *)
Work(t) ==
  /\ UNCHANGED <<req, drift, met>>
  /\ call' = [call EXCEPT ![t] = call'[t]]
  /\ call'[t] \in CallStates /\ call'[t].pc # "idle" /\ (Running(t)' => Running(t))
  /\ \/ UNCHANGED <<users, seen>>
     \/ Running(t) /\ \E i \in Ids, w \in UserRecords : w.exists /\ Becomes(i, w)
  /\ cache' \in [Queries -> SUBSET Entries]
  /\ \A k \in Queries : \A e \in cache'[k] :
       e \in cache[k] \/ (Querying(t, "store") /\ k = KeyOf(t) /\ e = call[t].got)
  /\ Querying(t, "store")' =>
       /\ KeyOf(t)' = KeyOf(t)
       /\ \/ call'[t].got \in cache[KeyOf(t)]
          \/ call'[t].got = [ans |-> Answer(KeyOf(t)), since |-> {u \in Calls : Running(u)}]

\* An answer stays as true as it was.
LEMMA TrueEntryKept ==
  ASSUME Grows, NEW k \in Queries, NEW e \in Entries, TrueEntry(k, e)
  PROVE  TrueEntry(k, e)'
<1>1. e.since \subseteq Calls /\ (e.ans # NotFound => e.ans.id \in Ids)
  BY AnswerFacts DEF Entries
<1> QED
  BY <1>1 DEF TrueEntry, Grows

\* The query of a call is a query.
LEMMA KeyType ==
  ASSUME TypeOK, NEW t \in Calls
  PROVE  KeyOf(t) \in Queries /\ call[t].got \in Entries /\ call[t].user \in Answers
<1>1. call[t].user \in Answers /\ call[t].got \in Entries
  BY DEF TypeOK, CallStates
<1> QED
  BY <1>1, AnswerFacts DEF KeyOf, Queries

\* Salesforce's answer is true of all the calls that run.
LEMMA FreshEntry ==
  ASSUME AccountInv, NEW k \in Queries
  PROVE  TrueEntry(k, [ans |-> Answer(k), since |-> {u \in Calls : Running(u)}])
<1>1. \A u \in Calls : Running(u) => call[u].pc # "idle" /\ <<k, Answer(k)>> \in seen[u]
  BY AnswerType DEF AccountInv, SeenNow, Running
<1>2. k = ByEmail /\ Answer(k) # NotFound => users[Answer(k).id].exists
  <2>1. ASSUME NEW i \in Ids, users[i].found PROVE users[i].exists
    BY <2>1 DEF AccountInv, UsersProper, NoUser
  <2> QED
    BY <2>1, AnswerType DEF AccountInv
<1> QED
  BY <1>1, <1>2 DEF TrueEntry

\* What a change of a user does to the histories.
LEMMA BecomesGrows ==
  ASSUME TypeOK, NEW i \in Ids, NEW w \in UserRecords, Becomes(i, w), w.exists
  PROVE  /\ users' = [users EXCEPT ![i] = w] /\ users' \in [Ids -> UserRecords]
         /\ \A u \in Calls : seen[u] \subseteq seen'[u]
         /\ \A u \in Calls : Running(u) => Now' \subseteq seen'[u]
         /\ \A j \in Ids : users[j].exists => users'[j].exists
<1>1. users' = [users EXCEPT ![i] = w] /\ users \in [Ids -> UserRecords]
  BY DEF Becomes, TypeOK
<1>2. seen' = [t \in Calls |-> IF Running(t) THEN seen[t] \cup Now' ELSE seen[t]]
  BY DEF Becomes
<1> QED
  BY <1>1, <1>2

\* What a history may hold.
LEMMA SeenType ==
  ASSUME TypeOK, NEW i \in Ids, NEW w \in UserRecords, w.exists, Becomes(i, w)
  PROVE  seen' \in [Calls -> SUBSET (Queries \X Answers)]
<1>1. users' \in [Ids -> UserRecords]
  BY BecomesGrows
<1>2. \A j \in Ids : Snapshot(j)' \in Answers
  <2> SUFFICES ASSUME NEW j \in Ids PROVE Snapshot(j)' \in Answers
    OBVIOUS
  <2>1. users'[j].active \in BOOLEAN /\ users'[j].frozen \in BOOLEAN
    BY <1>1 DEF UserRecords
  <2> QED
    BY <2>1 DEF Snapshot, Answers
<1>3. GetUserByEmail' \in Answers
  <2>1. CASE \E j \in Ids : First(j)'
    <3>1. PICK j : j = CHOOSE q \in Ids : First(q)'
      OBVIOUS
    <3>2. j \in Ids
      BY <2>1, <3>1
    <3>3. GetUserByEmail' = Snapshot(j)'
      BY <2>1, <3>1 DEF GetUserByEmail, First, Snapshot
    <3> QED
      BY <1>2, <3>2, <3>3
  <2>2. CASE ~\E j \in Ids : First(j)'
    BY <2>2 DEF GetUserByEmail, Answers
  <2> QED
    BY <2>1, <2>2
<1>4. Now' \subseteq Queries \X Answers
  BY <1>2, <1>3 DEF Now, Answer, Queries
<1>5. seen' = [t \in Calls |-> IF Running(t) THEN seen[t] \cup Now' ELSE seen[t]]
  BY DEF Becomes
<1> QED
  BY <1>4, <1>5 DEF TypeOK

\* What is not about t stays as it was.
LEMMA CallAside ==
  ASSUME AccountInv, NEW u \in Calls, CallInv(u), Grows, req' = req,
         call'[u] = call[u], seen[u] \subseteq seen'[u], met[u] => met'[u],
         ~met'[u] /\ Running(u) => \A k \in Queries : cache'[k] \subseteq cache[k]
  PROVE  CallInv(u)'
<1>0. call[u] \in CallStates /\ call[u].user \in Answers /\ call[u].made \in Queries
  BY DEF AccountInv, TypeOK, CallStates
<1>1. /\ Running(u)' <=> Running(u)
      /\ \A ph : Querying(u, ph)' <=> Querying(u, ph)
  BY DEF Running, Querying
<1>2. InOrder(u)'
  BY <1>0, <1>1, AnswerFacts DEF CallInv, InOrder, Grows
<1>3. SawUsable(u) => SawUsable(u)'
  BY DEF SawUsable, SawActive
<1>4. UsableLater(u)'
  BY <1>3 DEF CallInv, UsableLater
<1>5. OwnAnswers(u)'
  <2>1. call[u].pc \in {"find", "mail", "login"} => Running(u)
    BY DEF Running
  <2> QED
    BY <1>1, <2>1 DEF CallInv, OwnAnswers
<1>6. Says(u)'
  BY <1>3 DEF CallInv, Says
<1> QED
  BY <1>2, <1>4, <1>5, <1>6 DEF CallInv

\* A step of a call keeps histories and users.
LEMMA WorkGrows ==
  ASSUME AccountInv, NEW t \in Calls, Work(t)
  PROVE  /\ Grows /\ call' \in [Calls -> CallStates]
         /\ \A u \in Calls : u # t => call'[u] = call[u]
         /\ \A u \in Calls : seen[u] \subseteq seen'[u]
<1>1. /\ TypeOK /\ call \in [Calls -> CallStates]
      /\ call' = [call EXCEPT ![t] = call'[t]] /\ call'[t] \in CallStates
      /\ call'[t].pc # "idle"
  BY DEF AccountInv, TypeOK, Work
<1>2. call' \in [Calls -> CallStates] /\ \A u \in Calls : u # t => call'[u] = call[u]
  BY <1>1
<1>3. /\ \A u \in Calls : seen[u] \subseteq seen'[u]
      /\ \A i \in Ids : users[i].exists => users'[i].exists
  BY <1>1, BecomesGrows DEF Work
<1> QED
  BY <1>1, <1>2, <1>3 DEF Grows

\* A step of a call keeps what is not about the call itself.
LEMMA WorkKeeps ==
  ASSUME AccountInv, NEW t \in Calls, Work(t)
  PROVE  /\ TypeOK' /\ EntriesTrue' /\ SeenNow' /\ AloneUnlessMet' /\ UsersProper'
         /\ \A u \in Calls : u # t => CallInv(u)'
<1>0. TypeOK
  BY DEF AccountInv
<1>1. /\ Grows /\ call' \in [Calls -> CallStates]
      /\ \A u \in Calls : u # t => call'[u] = call[u]
      /\ \A u \in Calls : seen[u] \subseteq seen'[u]
  BY WorkGrows
<1>2. \A u \in Calls : Running(u)' => Running(u)
  BY <1>1 DEF Work, Running
<1>3. TypeOK'
  <2>1. users' \in [Ids -> UserRecords] /\ seen' \in [Calls -> SUBSET (Queries \X Answers)]
    BY <1>0, BecomesGrows, SeenType DEF Work, TypeOK
  <2> QED
    BY <1>0, <1>1, <2>1 DEF TypeOK, Work
<1>4. SeenNow'
  <2>1. CASE UNCHANGED <<users, seen>>
    <3>1. Now' = Now
      BY <2>1 DEF Now, Answer, GetUserByEmail, First, Snapshot
    <3> QED
      BY <1>2, <2>1, <3>1 DEF AccountInv, SeenNow
  <2>2. CASE \E i \in Ids, w \in UserRecords : w.exists /\ Becomes(i, w)
    BY <1>0, <1>2, <2>2, BecomesGrows DEF SeenNow
  <2> QED
    BY <2>1, <2>2 DEF Work
<1>5. AloneUnlessMet'
  BY <1>2 DEF AccountInv, AloneUnlessMet, Work
<1>6. UsersProper'
  <2>1. CASE UNCHANGED <<users, seen>>
    BY <2>1 DEF AccountInv, UsersProper
  <2>2. CASE \E i \in Ids, w \in UserRecords : w.exists /\ Becomes(i, w)
    BY <1>0, <2>2, BecomesGrows DEF AccountInv, UsersProper, TypeOK
  <2> QED
    BY <2>1, <2>2 DEF Work
<1>7. EntriesTrue'
  <2>1. ASSUME NEW k \in Queries, NEW e \in cache'[k] PROVE TrueEntry(k, e)'
    <3>1. e \in Entries /\ TrueEntry(k, e)
      BY <1>0, <2>1, KeyType DEF Work, AccountInv, EntriesTrue, TypeOK
    <3> QED
      BY <1>1, <3>1, TrueEntryKept
  <2>2. ASSUME NEW u \in Calls, Querying(u, "store")'
        PROVE  TrueEntry(KeyOf(u), call[u].got)'
    <3>1. CASE u # t
      <4>1. call'[u] = call[u] /\ Querying(u, "store") /\ KeyOf(u)' = KeyOf(u)
        BY <1>1, <2>2, <3>1 DEF Querying, KeyOf
      <4>2. TrueEntry(KeyOf(u), call[u].got) /\ KeyOf(u) \in Queries /\ call[u].got \in Entries
        BY <1>0, <4>1, KeyType DEF AccountInv, EntriesTrue
      <4>3. PICK k \in Queries, g \in Entries : k = KeyOf(u) /\ g = call[u].got
        BY <4>2
      <4>4. TrueEntry(k, g)'
        BY <1>1, <4>2, <4>3, TrueEntryKept
      <4> QED
        BY <4>1, <4>3, <4>4 DEF TrueEntry
    <3>2. CASE u = t
      <4>0. KeyOf(t)' = KeyOf(t) /\ KeyOf(t) \in Queries
        BY <1>0, <2>2, <3>2, KeyType DEF Work
      <4>1. PICK k \in Queries : k = KeyOf(t)
        BY <4>0
      <4>2. PICK g : g = call'[t].got
        OBVIOUS
      <4>3. g \in cache[k] \/ g = [ans |-> Answer(k), since |-> {v \in Calls : Running(v)}]
        BY <2>2, <3>2, <4>1, <4>2 DEF Work
      <4>4. g \in Entries /\ TrueEntry(k, g)
        BY <1>0, <4>2, <4>3, <1>1, FreshEntry DEF AccountInv, EntriesTrue, CallStates
      <4>5. TrueEntry(k, g)'
        BY <1>1, <4>4, TrueEntryKept
      <4> QED
        BY <3>2, <4>0, <4>1, <4>2, <4>5 DEF TrueEntry
    <3> QED
      BY <3>1, <3>2
  <2> QED
    BY <2>1, <2>2 DEF EntriesTrue
<1>8. ASSUME NEW u \in Calls, u # t PROVE CallInv(u)'
  <2>1. CallInv(u) /\ req' = req /\ met' = met
    BY DEF AccountInv, Work
  <2>2. ~met'[u] /\ Running(u) => ~Running(t)
    BY <1>8, <2>1 DEF AccountInv, AloneUnlessMet
  <2>3. ~Running(t) => \A k \in Queries : cache'[k] \subseteq cache[k]
    BY DEF Work, Running, Querying
  <2> QED
    BY <1>1, <1>8, <2>1, <2>2, <2>3, CallAside
<1> QED
  BY <1>3, <1>4, <1>5, <1>6, <1>7, <1>8

-----------------------------------------------------------------------------
(* The steps of a call.                                                    *)

\* A step of t that touches neither the org nor the cache.
LEMMA MoveIsWork ==
  ASSUME AccountInv, NEW t \in Calls, NEW st \in CallStates, Step(t, st),
         st.pc # "idle", st.phase = "look", st.pc = "answered" \/ Running(t),
         UNCHANGED <<users, cache, req, seen, met, drift>>
  PROVE  Work(t) /\ call'[t] = st
<1>1. call \in [Calls -> CallStates] /\ cache \in [Queries -> SUBSET Entries]
  BY DEF AccountInv, TypeOK
<1>2. call' = [call EXCEPT ![t] = st] /\ call'[t] = st
  BY <1>1 DEF Step
<1>3. Running(t)' => Running(t)
  BY <1>2 DEF Running
<1>4. ~Querying(t, "store")'
  BY <1>2 DEF Querying
<1> QED
  BY <1>1, <1>2, <1>3, <1>4 DEF Work

\* A step of t that changes user i.
LEMMA BecomesIsWork ==
  ASSUME AccountInv, NEW t \in Calls, NEW st \in CallStates, Step(t, st), Running(t),
         st.pc # "idle", st.phase = "look",
         NEW i \in Ids, NEW w \in UserRecords, w.exists, Becomes(i, w),
         UNCHANGED <<cache, req, met, drift>>
  PROVE  Work(t) /\ call'[t] = st
<1>1. call \in [Calls -> CallStates] /\ cache \in [Queries -> SUBSET Entries]
  BY DEF AccountInv, TypeOK
<1>2. call' = [call EXCEPT ![t] = st] /\ call'[t] = st
  BY <1>1 DEF Step
<1>3. ~Querying(t, "store")'
  BY <1>2 DEF Querying
<1> QED
  BY <1>1, <1>2, <1>3 DEF Work

\* A call that failed says nothing, and mailed to whom it had to.
LEMMA FailedSays ==
  ASSUME AccountInv, NEW t \in Calls, Work(t), Running(t) \/ call[t].pc = "idle",
         call'[t].pc = "answered", call'[t].answer = "error",
         call'[t].enabled = call[t].enabled,
         call'[t].mailed # call[t].mailed =>
           call[t].pc = "mail" /\ call'[t].mailed = call[t].user.id
  PROVE  CallInv(t)'
<1>0. InOrder(t) /\ OwnAnswers(t) /\ call[t].user \in Answers
  BY KeyType DEF AccountInv, CallInv
<1>1. ~call[t].enabled /\ call[t].mailed \in {0, call[t].user.id}
      /\ (call[t].mailed # 0 => call[t].pc = "login")
  BY <1>0 DEF InOrder, IdleCall
<1>2. call'[t].mailed # 0 /\ ~met'[t] =>
        \E a \in Answers : <<ByEmail, a>> \in seen'[t] /\ a.id = call'[t].mailed
  <2>1. seen[t] \subseteq seen'[t] /\ met' = met
    BY WorkGrows DEF Work
  <2> QED
    BY <1>0, <1>1, <2>1 DEF OwnAnswers
<1>3. InOrder(t)' /\ UsableLater(t)' /\ OwnAnswers(t)'
  BY DEF InOrder, UsableLater, OwnAnswers, Running, Querying
<1> QED
  BY <1>1, <1>2, <1>3 DEF CallInv, Says

\* A failure without effect.
LEMMA FailureKeeps ==
  ASSUME AccountInv, NEW t \in Calls, NEW e \in Errors, Step(t, Failed(t, e)),
         Running(t) \/ call[t].pc = "idle", UNCHANGED <<users, cache, req, seen, met, drift>>
  PROVE  Work(t) /\ CallInv(t)' /\ call'[t].err = e
<1>0. PICK st : st = Failed(t, e)
  OBVIOUS
<1>1. /\ st \in CallStates /\ st.pc = "answered" /\ st.phase = "look" /\ st.err = e
      /\ st.mailed = call[t].mailed /\ st.enabled = call[t].enabled /\ st.answer = "error"
  BY <1>0, FailedShape DEF AccountInv
<1>2. Work(t) /\ call'[t] = st
  BY <1>0, <1>1, MoveIsWork
<1> QED
  BY <1>1, <1>2, FailedSays

\* A change whose reply is lost.
LEMMA LostKeeps ==
  ASSUME AccountInv, NEW t \in Calls, Step(t, Failed(t, "Failed")), Running(t),
         NEW i \in Ids, NEW w \in UserRecords, w.exists, Becomes(i, w),
         UNCHANGED <<cache, req, met, drift>>
  PROVE  Work(t) /\ CallInv(t)' /\ call'[t].err = "Failed"
<1>0. PICK st : st = Failed(t, "Failed")
  OBVIOUS
<1>1. /\ st \in CallStates /\ st.pc = "answered" /\ st.phase = "look" /\ st.err = "Failed"
      /\ st.mailed = call[t].mailed /\ st.enabled = call[t].enabled /\ st.answer = "error"
  BY <1>0, FailedShape DEF AccountInv, Errors
<1>2. Work(t) /\ call'[t] = st
  BY <1>0, <1>1, BecomesIsWork
<1> QED
  BY <1>1, <1>2, FailedSays

\* A failed query, request or parameter.
LEMMA FailuresKeep ==
  ASSUME AccountInv, NEW t \in Calls,
         getUserCreateRequestParams(t) \/ QueryFails(t) \/ RequestFails(t)
  PROVE  Work(t) /\ CallInv(t)' /\ call'[t].err = "Failed"
<1>1. /\ Step(t, Failed(t, "Failed")) /\ UNCHANGED <<users, cache, req, seen, met, drift>>
      /\ Running(t) \/ call[t].pc = "idle"
  BY DEF getUserCreateRequestParams, QueryFails, RequestFails, Running, Querying
<1>2. "Failed" \in Errors
  BY DEF Errors
<1> QED
  BY <1>1, <1>2, FailureKeeps

\* A 404 for which the call is given up.
LEMMA DeniedFailureKeeps ==
  ASSUME AccountInv, NEW t \in Calls, Running(t), Step(t, Denied(Failed(t, "NotFound"))),
         UNCHANGED <<users, cache, req, seen, met, drift>>
  PROVE  Work(t) /\ CallInv(t)' /\ call'[t].denied /\ call'[t].pc = "answered"
<1>0. PICK f, st : f = Failed(t, "NotFound") /\ st = [f EXCEPT !.denied = TRUE]
  OBVIOUS
<1>1. /\ f \in CallStates /\ f.pc = "answered" /\ f.phase = "look"
      /\ f.mailed = call[t].mailed /\ f.enabled = call[t].enabled /\ f.answer = "error"
  BY <1>0, FailedShape DEF AccountInv, Errors
<1>2. /\ st \in CallStates /\ st.pc = "answered" /\ st.phase = "look" /\ st.denied
      /\ st.mailed = call[t].mailed /\ st.enabled = call[t].enabled /\ st.answer = "error"
  BY <1>0, <1>1 DEF CallStates
<1>3. Work(t) /\ call'[t] = st
  BY <1>0, <1>2, MoveIsWork DEF Denied
<1> QED
  BY <1>2, <1>3, FailedSays

\* A 404 that is taken for "no user", or is the error that ends the call.
LEMMA NotFoundKeeps ==
  ASSUME AccountInv, NEW t \in Calls, QueryNotFound(t)
  PROVE  /\ Work(t) /\ CallInv(t)' /\ call'[t].denied
         /\ call'[t].pc \in {"create", "pause", "answered"}
<1>1. /\ Querying(t, "look") /\ call[t].pc \in {"exist", "again", "find", "login"}
      /\ Running(t) /\ UNCHANGED <<users, cache, req, seen, met, drift>> /\ TypeOK
      /\ InOrder(t) /\ UsableLater(t) /\ call[t].tries \in Nat
  BY DEF QueryNotFound, Querying, Running, AccountInv, CallInv, TypeOK, CallStates
<1>2. CASE Step(t, Denied(Failed(t, "NotFound")))
  BY <1>1, <1>2, DeniedFailureKeeps
<1>3. CASE call[t].pc = "exist" /\ Step(t, Denied(Moved(t, "create")))
  <2>0. PICK f, st : f = Moved(t, "create") /\ st = [f EXCEPT !.denied = TRUE]
    OBVIOUS
  <2>1. /\ f \in CallStates /\ f.pc = "create" /\ f.phase = "look" /\ f.err = call[t].err
        /\ f.mailed = call[t].mailed /\ f.enabled = call[t].enabled
        /\ f.answer = call[t].answer
    BY <1>1, <2>0, MovedShape DEF Points
  <2>2. /\ st \in CallStates /\ st.pc = "create" /\ st.phase = "look" /\ st.err = call[t].err
        /\ st.mailed = call[t].mailed /\ st.enabled = call[t].enabled
        /\ st.answer = call[t].answer /\ st.denied
    BY <2>0, <2>1 DEF CallStates
  <2>3. Work(t) /\ call'[t] = st
    BY <1>1, <1>3, <2>0, <2>2, MoveIsWork DEF Denied
  <2>4. InOrder(t)' /\ OwnAnswers(t)' /\ UsableLater(t)'
    BY <1>1, <1>3, <2>2, <2>3 DEF InOrder, OwnAnswers, UsableLater, Running, Querying
  <2>5. Says(t)'
    BY <1>1, <1>3, <2>2, <2>3 DEF InOrder, Says
  <2> QED
    BY <2>2, <2>3, <2>4, <2>5 DEF CallInv
<1>4. CASE /\ call[t].pc = "find" /\ call[t].tries + 1 < maxRetries
           /\ Step(t, Denied(TryAgain(t)))
  <2>0. PICK f, g, st : /\ f = Moved(t, "pause") /\ g = [f EXCEPT !.tries = f.tries + 1]
                        /\ st = [g EXCEPT !.denied = TRUE]
    OBVIOUS
  <2>1. /\ f \in CallStates /\ f.pc = "pause" /\ f.phase = "look" /\ f.err = call[t].err
        /\ f.mailed = call[t].mailed /\ f.enabled = call[t].enabled /\ f.tries = call[t].tries
        /\ f.answer = call[t].answer /\ f.stale = call[t].stale /\ f.made = call[t].made
    BY <1>1, <2>0, MovedShape DEF Points
  <2>2. /\ g \in CallStates /\ g.pc = "pause" /\ g.phase = "look" /\ g.err = f.err
        /\ g.mailed = f.mailed /\ g.enabled = f.enabled
        /\ g.answer = f.answer /\ g.stale = f.stale /\ g.made = f.made
    BY <1>1, <2>0, <2>1 DEF CallStates
  <2>3. /\ st \in CallStates /\ st.pc = "pause" /\ st.phase = "look" /\ st.err = f.err
        /\ st.mailed = f.mailed /\ st.enabled = f.enabled /\ st.denied
        /\ st.answer = f.answer /\ st.stale = f.stale /\ st.made = f.made
    BY <2>0, <2>2 DEF CallStates
  <2>4. TryAgain(t) = g
    BY <1>4, <2>0 DEF TryAgain
  <2>5. Work(t) /\ call'[t] = st
    BY <1>1, <1>4, <2>0, <2>3, <2>4, MoveIsWork DEF Denied
  <2>6. InOrder(t)' /\ OwnAnswers(t)'
    BY <1>1, <1>4, <2>1, <2>3, <2>5 DEF InOrder, OwnAnswers, Running, Querying
  <2>7. UsableLater(t)'
    BY <1>1, <1>4, <2>1, <2>3, <2>5 DEF UsableLater, SawUsable, SawActive
  <2>8. Says(t)'
    BY <1>1, <1>4, <2>1, <2>3, <2>5 DEF InOrder, Says
  <2> QED
    BY <2>3, <2>5, <2>6, <2>7, <2>8 DEF CallInv
<1>5. CASE /\ call[t].pc = "find" /\ ~(call[t].tries + 1 < maxRetries)
           /\ Step(t, Denied(TryAgain(t)))
  <2>1. TryAgain(t) = Failed(t, "NotFound")
    BY <1>5 DEF TryAgain
  <2> QED
    BY <1>1, <1>5, <2>1, DeniedFailureKeeps
<1> QED
  BY <1>2, <1>3, <1>4, <1>5 DEF QueryNotFound

\* The pause between two tries is over.
LEMMA PauseKeeps ==
  ASSUME AccountInv, NEW t \in Calls, PauseOver(t)
  PROVE  Work(t) /\ CallInv(t)'
<1>0. PICK st : st = Moved(t, "clear")
  OBVIOUS
<1>1. /\ st \in CallStates /\ st.pc = "clear" /\ st.phase = "look" /\ st.err = call[t].err
      /\ st.mailed = call[t].mailed /\ st.enabled = call[t].enabled
      /\ st.answer = call[t].answer /\ st.stale = call[t].stale /\ st.made = call[t].made
  BY <1>0, MovedShape DEF AccountInv, Points
<1>2. call[t].pc = "pause" /\ Running(t) /\ UNCHANGED <<users, cache, req, seen, met, drift>>
  BY DEF PauseOver, Running
<1>3. Work(t) /\ call'[t] = st
  BY <1>0, <1>1, <1>2, MoveIsWork DEF PauseOver
<1>4. InOrder(t) /\ UsableLater(t)
  BY DEF AccountInv, CallInv
<1>5. InOrder(t)' /\ OwnAnswers(t)'
  BY <1>1, <1>2, <1>3, <1>4 DEF InOrder, OwnAnswers, Running, Querying
<1>6. UsableLater(t)'
  BY <1>1, <1>2, <1>3, <1>4 DEF UsableLater, SawUsable, SawActive
<1>7. Says(t)'
  BY <1>1, <1>2, <1>3, <1>4 DEF InOrder, Says
<1> QED
  BY <1>3, <1>5, <1>6, <1>7 DEF CallInv

\* The cache is cleared before a try.
LEMMA ClearKeeps ==
  ASSUME AccountInv, NEW t \in Calls, ClearCaches(t)
  PROVE  Work(t) /\ CallInv(t)'
<1>0. PICK st : st = Moved(t, "find")
  OBVIOUS
<1>1. /\ st \in CallStates /\ st.pc = "find" /\ st.phase = "look" /\ st.err = call[t].err
      /\ st.mailed = call[t].mailed /\ st.enabled = call[t].enabled
      /\ st.answer = call[t].answer /\ st.stale = call[t].stale /\ st.made = call[t].made
  BY <1>0, MovedShape DEF AccountInv, Points
<1>2. /\ call[t].pc = "clear" /\ Running(t) /\ UNCHANGED <<users, req, seen, met, drift>>
      /\ cache' = [k \in Queries |-> {}] /\ call \in [Calls -> CallStates]
  BY DEF ClearCaches, Running, AccountInv, TypeOK
<1>3. call' = [call EXCEPT ![t] = st] /\ call'[t] = st
  BY <1>0, <1>2 DEF ClearCaches, Step
<1>4. InOrder(t) /\ UsableLater(t)
  BY DEF AccountInv, CallInv
<1>5. InOrder(t)' /\ OwnAnswers(t)' /\ ~Querying(t, "store")'
  BY <1>1, <1>2, <1>3, <1>4 DEF InOrder, OwnAnswers, Running, Querying
<1>6. Work(t)
  BY <1>1, <1>2, <1>3, <1>5 DEF Work
<1>7. UsableLater(t)'
  BY <1>1, <1>2, <1>3, <1>4 DEF UsableLater, SawUsable, SawActive
<1>8. Says(t)'
  BY <1>1, <1>2, <1>3, <1>4 DEF InOrder, Says
<1> QED
  BY <1>5, <1>6, <1>7, <1>8 DEF CallInv

\* The mail goes to the user that was found.
LEMMA MailKeeps ==
  ASSUME AccountInv, NEW t \in Calls, SendResetPasswordEmail(t)
  PROVE  Work(t) /\ CallInv(t)' /\ call'[t].err \in {"none", "Failed"}
<1>1. /\ call[t].pc = "mail" /\ Running(t) /\ UNCHANGED <<users, cache, req, seen, met, drift>>
      /\ InOrder(t) /\ UsableLater(t) /\ OwnAnswers(t) /\ TypeOK
      /\ call[t].user \in Answers /\ call[t].user # NotFound /\ call[t].user.id # 0
      /\ call[t].user.id \in Queries
  BY KeyType, AnswerFacts DEF SendResetPasswordEmail, AccountInv, CallInv, InOrder, Running
<1>2. CASE Step(t, [Failed(t, "Failed") EXCEPT !.mailed = call[t].user.id])
  <2>0. PICK f, st : f = Failed(t, "Failed") /\ st = [f EXCEPT !.mailed = call[t].user.id]
    OBVIOUS
  <2>1. /\ f \in CallStates /\ f.pc = "answered" /\ f.phase = "look" /\ f.err = "Failed"
        /\ f.enabled = call[t].enabled /\ f.answer = "error"
    BY <1>1, <2>0, FailedShape DEF Errors
  <2>2. /\ st \in CallStates /\ st.pc = "answered" /\ st.phase = "look" /\ st.err = "Failed"
        /\ st.mailed = call[t].user.id /\ st.enabled = f.enabled /\ st.answer = "error"
    BY <1>1, <2>0, <2>1 DEF CallStates
  <2>3. Work(t) /\ call'[t] = st
    BY <1>1, <1>2, <2>0, <2>2, MoveIsWork
  <2> QED
    BY <1>1, <2>1, <2>2, <2>3, FailedSays
<1>3. CASE Step(t, [Moved(t, "login") EXCEPT !.mailed = call[t].user.id])
  <2>0. PICK f, st : f = Moved(t, "login") /\ st = [f EXCEPT !.mailed = call[t].user.id]
    OBVIOUS
  <2>1. /\ f \in CallStates /\ f.pc = "login" /\ f.phase = "look" /\ f.err = call[t].err
        /\ f.enabled = call[t].enabled /\ f.answer = call[t].answer /\ f.user = call[t].user
        /\ f.stale = call[t].stale /\ f.made = call[t].made
    BY <1>1, <2>0, MovedShape DEF Points
  <2>2. /\ st \in CallStates /\ st.pc = "login" /\ st.phase = "look" /\ st.err = f.err
        /\ st.mailed = call[t].user.id /\ st.enabled = f.enabled /\ st.answer = f.answer
        /\ st.stale = f.stale /\ st.made = f.made /\ st.user = f.user
    BY <1>1, <2>0, <2>1 DEF CallStates
  <2>3. Work(t) /\ call'[t] = st
    BY <1>1, <1>3, <2>0, <2>2, MoveIsWork DEF Running
  <2>4. InOrder(t)' /\ OwnAnswers(t)'
    BY <1>1, <2>1, <2>2, <2>3 DEF InOrder, OwnAnswers, Running, Querying
  <2>5. UsableLater(t)'
    BY <1>1, <2>1, <2>2, <2>3 DEF UsableLater, SawUsable, SawActive
  <2>6. Says(t)'
    BY <1>1, <2>1, <2>2, <2>3 DEF InOrder, Says, OwnAnswers, Running
  <2> QED
    BY <1>1, <2>1, <2>2, <2>3, <2>4, <2>5, <2>6 DEF CallInv, InOrder
<1> QED
  BY <1>2, <1>3 DEF SendResetPasswordEmail

\* An answer comes into the hands of t, from the cache or from Salesforce.
LEMMA AnswerKeeps ==
  ASSUME AccountInv, NEW t \in Calls, NEW g \in Entries, NEW old \in BOOLEAN,
         Querying(t, "look"),
         g \in cache[KeyOf(t)] \/
           g = [ans |-> Answer(KeyOf(t)), since |-> {u \in Calls : Running(u)}],
         old \/ t \in g.since, call[t].stale => old,
         Step(t, [call[t] EXCEPT !.phase = "store", !.got = g, !.stale = old]),
         UNCHANGED <<users, cache, req, seen, met, drift>>
  PROVE  /\ Work(t) /\ CallInv(t)'
         /\ call'[t].pc = call[t].pc /\ call'[t].got = g /\ call'[t].stale = old
         /\ call'[t].err = call[t].err
<1>0. PICK st : st = [call[t] EXCEPT !.phase = "store", !.got = g, !.stale = old]
  OBVIOUS
<1>1. /\ call[t] \in CallStates /\ call \in [Calls -> CallStates] /\ Running(t)
      /\ cache \in [Queries -> SUBSET Entries] /\ KeyOf(t) \in Queries
      /\ CallInv(t) /\ call[t].pc \in {"exist", "again", "find", "login"}
  BY KeyType DEF AccountInv, TypeOK, Querying, Running
<1>2. /\ st \in CallStates /\ st.pc = call[t].pc /\ st.got = g /\ (st.stale <=> old)
      /\ st.user = call[t].user /\ st.mailed = call[t].mailed /\ (st.enabled <=> call[t].enabled)
      /\ st.answer = call[t].answer /\ st.err = call[t].err /\ st.made = call[t].made
      /\ st.stale = old
  BY <1>0, <1>1 DEF CallStates
<1>3. call' = [call EXCEPT ![t] = st] /\ call'[t] = st
  BY <1>0, <1>1 DEF Step
<1>4. KeyOf(t)' = KeyOf(t) /\ Running(t)'
  BY <1>1, <1>2, <1>3 DEF KeyOf, Running
<1>5. Work(t)
  BY <1>1, <1>2, <1>3, <1>4 DEF Work
<1>6. InOrder(t)'
  BY <1>1, <1>2, <1>3, <1>4 DEF CallInv, InOrder, Running
<1>7. UsableLater(t)'
  BY <1>1, <1>2, <1>3 DEF CallInv, UsableLater, SawUsable, SawActive
<1>8. OwnAnswers(t)'
  <2>1. ASSUME ~met[t], call[t].pc \in {"find", "login"} PROVE t \in g.since
    BY <1>1, <2>1 DEF CallInv, OwnAnswers
  <2> QED
    BY <1>1, <1>2, <1>3, <2>1 DEF CallInv, OwnAnswers
<1>9. Says(t)'
  BY <1>1, <1>2, <1>3 DEF CallInv, InOrder, Says
<1> QED
  BY <1>2, <1>3, <1>5, <1>6, <1>7, <1>8, <1>9 DEF CallInv

\* A lookup, answered by the cache or by Salesforce.
LEMMA LookupKeeps ==
  ASSUME AccountInv, NEW t \in Calls, CacheHit(t) \/ query(t)
  PROVE  /\ Work(t) /\ CallInv(t)' /\ call'[t].pc = call[t].pc /\ call'[t].err = call[t].err
         /\ UNCHANGED <<users, cache, req, seen, met, drift>> /\ Querying(t, "look")
         /\ call[t].stale => call'[t].stale
         /\ \/ call'[t].got \in cache[KeyOf(t)]
               /\ (t \in call'[t].got.since \/ call'[t].stale)
            \/ call'[t].got = [ans |-> Answer(KeyOf(t)), since |-> {u \in Calls : Running(u)}]
<1>0. /\ call[t] \in CallStates /\ call[t].stale \in BOOLEAN /\ KeyOf(t) \in Queries
      /\ Querying(t, "look") /\ Running(t) /\ UNCHANGED <<users, cache, req, seen, met, drift>>
      /\ cache \in [Queries -> SUBSET Entries] /\ TypeOK
  BY KeyType DEF AccountInv, TypeOK, CallStates, CacheHit, query, Querying, Running
<1>1. CASE CacheHit(t)
  <2>1. PICK e \in cache[KeyOf(t)] :
          Step(t, [call[t] EXCEPT !.phase = "store", !.got = e,
                                  !.stale = call[t].stale \/ t \notin e.since])
    BY <1>1 DEF CacheHit
  <2>2. PICK old \in BOOLEAN : old = (call[t].stale \/ t \notin e.since)
    OBVIOUS
  <2>3. e \in Entries /\ Step(t, [call[t] EXCEPT !.phase = "store", !.got = e, !.stale = old])
    BY <1>0, <2>1, <2>2
  <2>4. (old \/ t \in e.since) /\ (call[t].stale => old)
    BY <2>2
  <2>5. /\ Work(t) /\ CallInv(t)' /\ call'[t].pc = call[t].pc /\ call'[t].got = e
        /\ call'[t].stale = old /\ call'[t].err = call[t].err
    BY <1>0, <2>3, <2>4, AnswerKeeps
  <2> QED
    BY <1>0, <2>4, <2>5
<1>2. CASE query(t)
  <2>1. PICK e : e = [ans |-> Answer(KeyOf(t)), since |-> {u \in Calls : Running(u)}]
    OBVIOUS
  <2>2. e \in Entries /\ t \in e.since
    BY <1>0, <2>1, AnswerType DEF Entries
  <2>3. Step(t, [call[t] EXCEPT !.phase = "store", !.got = e])
    BY <1>2, <2>1 DEF query
  <2>4. [call[t] EXCEPT !.phase = "store", !.got = e] =
        [call[t] EXCEPT !.phase = "store", !.got = e, !.stale = call[t].stale]
    BY <1>0 DEF CallStates
  <2>5. /\ Work(t) /\ CallInv(t)' /\ call'[t].pc = call[t].pc /\ call'[t].got = e
        /\ call'[t].stale = call[t].stale /\ call'[t].err = call[t].err
    BY <1>0, <2>1, <2>2, <2>3, <2>4, AnswerKeeps
  <2> QED
    BY <1>0, <2>1, <2>5
<1> QED
  BY <1>1, <1>2

\* What each of the four lookups leads to.
LEMMA ReadCases ==
  ASSUME AccountInv, NEW t \in Calls, Read(t)
  PROVE  /\ Querying(t, "store") /\ Running(t) /\ CallInv(t) /\ TypeOK
         /\ call[t].pc \in {"exist", "again", "find", "login"}
         /\ call[t].pc = "exist" => Step(t, UserExist(t))
         /\ call[t].pc = "again" => Step(t, ActivateIfInactive(t))
         /\ call[t].pc = "find" => Step(t, GetUserByEmailWithRetry(t))
         /\ call[t].pc = "login" => Step(t, userResource(t))
         /\ cache' = [cache EXCEPT ![KeyOf(t)] = {call[t].got}]
         /\ UNCHANGED <<users, req, seen, met, drift>>
         /\ call[t].got \in Entries /\ call[t].got.ans \in Answers
         /\ TrueEntry(KeyOf(t), call[t].got)
         /\ call[t].pc # "login" => KeyOf(t) = ByEmail
         /\ call[t].pc = "login" => KeyOf(t) = call[t].user.id
<1>1. /\ Querying(t, "store") /\ call[t].pc \in {"exist", "again", "find", "login"}
      /\ CallInv(t) /\ TypeOK /\ TrueEntry(KeyOf(t), call[t].got) /\ call[t].got \in Entries
  BY KeyType DEF Read, Querying, AccountInv, EntriesTrue
<1>2. /\ call[t].pc = "exist" => Step(t, UserExist(t))
      /\ call[t].pc = "again" => Step(t, ActivateIfInactive(t))
      /\ call[t].pc = "find" => Step(t, GetUserByEmailWithRetry(t))
      /\ call[t].pc = "login" => Step(t, userResource(t))
  BY <1>1 DEF Read
<1>3. Running(t) /\ call[t].got.ans \in Answers
  BY <1>1 DEF Running, Entries
<1> QED
  BY <1>1, <1>2, <1>3 DEF Read, KeyOf

\* A read stores the answer t has, and nothing else.
LEMMA ReadIsWork ==
  ASSUME AccountInv, NEW t \in Calls, Read(t), NEW st \in CallStates, Step(t, st),
         st.pc # "idle", st.phase = "look"
  PROVE  /\ Work(t) /\ call'[t] = st
         /\ \A k \in Queries : \A e \in cache'[k] : e \in cache[k] \/ e = call[t].got
<1>1. call \in [Calls -> CallStates] /\ cache \in [Queries -> SUBSET Entries]
  BY DEF AccountInv, TypeOK
<1>2. call' = [call EXCEPT ![t] = st] /\ call'[t] = st /\ ~Querying(t, "store")'
  BY <1>1 DEF Step, Querying
<1>3. /\ cache' \in [Queries -> SUBSET Entries]
      /\ \A k \in Queries : \A e \in cache'[k] :
           e \in cache[k] \/ (k = KeyOf(t) /\ e = call[t].got)
  BY <1>1, ReadCases
<1> QED
  BY <1>1, <1>2, <1>3, ReadCases DEF Work

\* UserExist: on a NotFound that is not stale, nobody had the address.
LEMMA ExistKeeps ==
  ASSUME AccountInv, NEW t \in Calls, Read(t), call[t].pc = "exist"
  PROVE  /\ Work(t) /\ CallInv(t)' /\ call'[t].stale = call[t].stale /\ call'[t].err = "none"
         /\ call'[t].pc = IF call[t].got.ans = NotFound THEN "create" ELSE "again"
<1>0. PICK p, st : p = (IF call[t].got.ans = NotFound THEN "create" ELSE "again")
                   /\ st = Moved(t, p)
  OBVIOUS
<1>1. /\ p \in {"create", "again"} /\ Step(t, st) /\ Running(t) /\ InOrder(t)
      /\ UNCHANGED <<users, req, seen, met, drift>>
  BY <1>0, ReadCases DEF UserExist, CallInv
<1>2. /\ st \in CallStates /\ st.pc = p /\ st.phase = "look" /\ st.err = call[t].err
      /\ st.mailed = call[t].mailed /\ st.enabled = call[t].enabled
      /\ st.answer = call[t].answer /\ st.stale = call[t].stale
  BY <1>0, <1>1, MovedShape DEF AccountInv, Points
<1>3. Work(t) /\ call'[t] = st
  BY <1>1, <1>2, ReadIsWork
<1>4. p = "create" /\ ~call[t].stale => <<ByEmail, NotFound>> \in seen[t]
  BY <1>0, <1>1, ReadCases DEF InOrder, TrueEntry
<1>5. InOrder(t)' /\ OwnAnswers(t)' /\ UsableLater(t)'
  BY <1>1, <1>2, <1>3 DEF InOrder, OwnAnswers, UsableLater, Running, Querying
<1>6. Says(t)'
  BY <1>1, <1>2, <1>3, <1>4 DEF InOrder, Says
<1> QED
  BY <1>0, <1>1, <1>2, <1>3, <1>5, <1>6 DEF CallInv, InOrder

\* The user that exists is activated, or was active.
LEMMA AgainKeeps ==
  ASSUME AccountInv, NEW t \in Calls, Read(t), call[t].pc = "again"
  PROVE  /\ Work(t) /\ CallInv(t)' /\ call'[t].stale = call[t].stale
         /\ call'[t].err = IF call[t].got.ans = NotFound THEN "NotFound" ELSE "none"
         /\ call'[t].pc \in {"answered", "clear", "patch"}
<1>0. PICK a \in Answers : a = call[t].got.ans
  BY ReadCases
<1>1. /\ Step(t, ActivateIfInactive(t)) /\ Running(t) /\ CallInv(t) /\ InOrder(t) /\ TypeOK
      /\ UNCHANGED <<users, req, seen, met, drift>> /\ KeyOf(t) = ByEmail
      /\ req[t].op = "CreateAccount"
      /\ ~call[t].stale => <<ByEmail, a>> \in seen[t]
      /\ a # NotFound => users[a.id].exists
  BY <1>0, ReadCases DEF CallInv, InOrder, TrueEntry
<1>2. CASE a = NotFound
  <2>0. PICK st : st = Failed(t, "NotFound")
    OBVIOUS
  <2>1. Step(t, st)
    BY <1>0, <1>1, <1>2, <2>0 DEF ActivateIfInactive
  <2>2. /\ st \in CallStates /\ st.pc = "answered" /\ st.phase = "look" /\ st.err = "NotFound"
        /\ st.mailed = call[t].mailed /\ st.enabled = call[t].enabled /\ st.answer = "error"
        /\ st.stale = call[t].stale
    BY <1>1, <2>0, FailedShape DEF Errors
  <2>3. Work(t) /\ call'[t] = st
    BY <2>1, <2>2, ReadIsWork
  <2> QED
    BY <1>0, <1>1, <1>2, <2>2, <2>3, FailedSays
<1>3. CASE a # NotFound /\ a.active
  <2>0. PICK st : st = Moved(t, "clear")
    OBVIOUS
  <2>1. Step(t, st)
    BY <1>0, <1>1, <1>3, <2>0 DEF ActivateIfInactive
  <2>2. /\ st \in CallStates /\ st.pc = "clear" /\ st.phase = "look" /\ st.err = call[t].err
        /\ st.mailed = call[t].mailed /\ st.enabled = call[t].enabled
        /\ st.answer = call[t].answer /\ st.stale = call[t].stale
    BY <1>1, <2>0, MovedShape DEF Points
  <2>3. Work(t) /\ call'[t] = st
    BY <2>1, <2>2, ReadIsWork
  <2>4. InOrder(t)' /\ OwnAnswers(t)'
    BY <1>1, <2>2, <2>3 DEF InOrder, OwnAnswers, Running, Querying
  <2>5. UsableLater(t)'
    BY <1>1, <1>3, <2>2, <2>3 DEF UsableLater, SawUsable, SawActive
  <2>6. Says(t)'
    BY <1>1, <2>2, <2>3 DEF InOrder, Says
  <2> QED
    BY <1>0, <1>1, <1>3, <2>2, <2>3, <2>4, <2>5, <2>6 DEF CallInv, InOrder
<1>4. CASE a # NotFound /\ ~a.active
  <2>0. PICK f, st : f = Moved(t, "patch") /\ st = [f EXCEPT !.user = a]
    OBVIOUS
  <2>1. Step(t, st)
    BY <1>0, <1>1, <1>4, <2>0 DEF ActivateIfInactive
  <2>2. /\ f \in CallStates /\ f.pc = "patch" /\ f.phase = "look" /\ f.err = call[t].err
        /\ f.mailed = call[t].mailed /\ f.enabled = call[t].enabled
        /\ f.answer = call[t].answer /\ f.stale = call[t].stale
    BY <1>1, <2>0, MovedShape DEF Points
  <2>3. /\ st \in CallStates /\ st.pc = "patch" /\ st.phase = "look" /\ st.err = f.err
        /\ st.mailed = f.mailed /\ st.enabled = f.enabled
        /\ st.answer = f.answer /\ st.stale = f.stale /\ st.user = a
    BY <2>0, <2>2 DEF CallStates
  <2>4. Work(t) /\ call'[t] = st
    BY <2>1, <2>3, ReadIsWork
  <2>5. InOrder(t)' /\ OwnAnswers(t)' /\ UsableLater(t)'
    BY <1>1, <1>4, <2>2, <2>3, <2>4 DEF InOrder, OwnAnswers, UsableLater, Running, Querying
  <2>6. Says(t)'
    BY <1>1, <2>2, <2>3, <2>4 DEF InOrder, Says
  <2> QED
    BY <1>0, <1>1, <1>4, <2>2, <2>3, <2>4, <2>5, <2>6 DEF CallInv, InOrder
<1> QED
  BY <1>2, <1>3, <1>4

\* One try to find the user: found, to be tried again, or given up.
LEMMA FindKeeps ==
  ASSUME AccountInv, NEW t \in Calls, Read(t), call[t].pc = "find"
  PROVE  /\ Work(t) /\ CallInv(t)' /\ call'[t].stale = call[t].stale
         /\ call'[t].err \in {"none", "NotFound"}
         /\ call'[t].err = "NotFound" => call[t].got.ans = NotFound
         /\ call'[t].pc \in {"mail", "pause", "answered"}
<1>0. PICK a \in Answers : a = call[t].got.ans
  BY ReadCases
<1>1. /\ Step(t, GetUserByEmailWithRetry(t)) /\ Running(t) /\ CallInv(t) /\ InOrder(t)
      /\ OwnAnswers(t) /\ UsableLater(t) /\ TypeOK /\ Querying(t, "store")
      /\ UNCHANGED <<users, req, seen, met, drift>> /\ KeyOf(t) = ByEmail
      /\ req[t].op = "CreateAccount"
      /\ call[t].tries \in Nat
      /\ t \in call[t].got.since => <<ByEmail, a>> \in seen[t]
  BY <1>0, ReadCases DEF CallInv, InOrder, TrueEntry, TypeOK, CallStates
<1>2. CASE a # NotFound
  <2>0. PICK f, st : f = Moved(t, "mail") /\ st = [f EXCEPT !.user = a]
    OBVIOUS
  <2>1. Step(t, st)
    BY <1>0, <1>1, <1>2, <2>0 DEF GetUserByEmailWithRetry
  <2>2. /\ f \in CallStates /\ f.pc = "mail" /\ f.phase = "look" /\ f.err = call[t].err
        /\ f.mailed = call[t].mailed /\ f.enabled = call[t].enabled
        /\ f.answer = call[t].answer /\ f.stale = call[t].stale /\ f.made = call[t].made
    BY <1>1, <2>0, MovedShape DEF Points
  <2>3. /\ st \in CallStates /\ st.pc = "mail" /\ st.phase = "look" /\ st.err = f.err
        /\ st.mailed = f.mailed /\ st.enabled = f.enabled
        /\ st.answer = f.answer /\ st.stale = f.stale /\ st.user = a /\ st.made = f.made
    BY <2>0, <2>2 DEF CallStates
  <2>4. /\ Work(t) /\ call'[t] = st
        /\ \A k \in Queries : \A e \in cache'[k] : e \in cache[k] \/ e = call[t].got
    BY <2>1, <2>3, ReadIsWork
  <2>5. InOrder(t)'
    BY <1>1, <1>2, <2>2, <2>3, <2>4 DEF InOrder, Running, Querying
  <2>6. UsableLater(t)'
    BY <1>1, <2>2, <2>3, <2>4 DEF UsableLater, SawUsable, SawActive
  <2>7. OwnAnswers(t)'
    <3>1. ~met[t] => /\ t \in call[t].got.since /\ <<ByEmail, a>> \in seen[t]
                     /\ \A k \in Queries : \A e \in cache'[k] : t \in e.since
      BY <1>1, <2>4 DEF OwnAnswers
    <3> QED
      BY <1>1, <2>3, <2>4, <3>1 DEF OwnAnswers, Querying
  <2>8. Says(t)'
    BY <1>1, <2>2, <2>3, <2>4 DEF InOrder, Says
  <2> QED
    BY <1>1, <2>2, <2>3, <2>4, <2>5, <2>6, <2>7, <2>8 DEF CallInv, InOrder
<1>3. CASE a = NotFound /\ call[t].tries + 1 < maxRetries
  <2>0. PICK f, st : f = Moved(t, "pause") /\ st = [f EXCEPT !.tries = f.tries + 1]
    OBVIOUS
  <2>1. Step(t, st)
    BY <1>0, <1>1, <1>3, <2>0, AccountBounds DEF GetUserByEmailWithRetry, TryAgain
  <2>2. /\ f \in CallStates /\ f.pc = "pause" /\ f.phase = "look" /\ f.err = call[t].err
        /\ f.mailed = call[t].mailed /\ f.enabled = call[t].enabled /\ f.tries = call[t].tries
        /\ f.answer = call[t].answer /\ f.stale = call[t].stale /\ f.made = call[t].made
    BY <1>1, <2>0, MovedShape DEF Points
  <2>3. /\ st \in CallStates /\ st.pc = "pause" /\ st.phase = "look" /\ st.err = f.err
        /\ st.mailed = f.mailed /\ st.enabled = f.enabled
        /\ st.answer = f.answer /\ st.stale = f.stale /\ st.made = f.made
    BY <1>1, <2>0, <2>2 DEF CallStates
  <2>4. Work(t) /\ call'[t] = st
    BY <2>1, <2>3, ReadIsWork
  <2>5. InOrder(t)' /\ OwnAnswers(t)'
    BY <1>1, <2>2, <2>3, <2>4 DEF InOrder, OwnAnswers, Running, Querying
  <2>6. UsableLater(t)'
    BY <1>1, <2>2, <2>3, <2>4 DEF UsableLater, SawUsable, SawActive
  <2>7. Says(t)'
    BY <1>1, <2>2, <2>3, <2>4 DEF InOrder, Says
  <2> QED
    BY <1>1, <2>2, <2>3, <2>4, <2>5, <2>6, <2>7 DEF CallInv, InOrder
<1>4. CASE a = NotFound /\ ~(call[t].tries + 1 < maxRetries)
  <2>0. PICK st : st = Failed(t, "NotFound")
    OBVIOUS
  <2>1. Step(t, st)
    BY <1>0, <1>1, <1>4, <2>0, AccountBounds DEF GetUserByEmailWithRetry, TryAgain
  <2>2. /\ st \in CallStates /\ st.pc = "answered" /\ st.phase = "look" /\ st.err = "NotFound"
        /\ st.mailed = call[t].mailed /\ st.enabled = call[t].enabled /\ st.answer = "error"
        /\ st.stale = call[t].stale
    BY <1>1, <2>0, FailedShape DEF Errors
  <2>3. Work(t) /\ call'[t] = st
    BY <2>1, <2>2, ReadIsWork
  <2> QED
    BY <1>0, <1>1, <1>4, <2>2, <2>3, FailedSays
<1> QED
  BY <1>2, <1>3, <1>4

\* The report: enabled is what the two answers say.
LEMMA LoginKeeps ==
  ASSUME AccountInv, NEW t \in Calls, Read(t), call[t].pc = "login"
  PROVE  Work(t) /\ CallInv(t)' /\ call'[t].stale = call[t].stale /\ call'[t].err = "none"
         /\ call'[t].pc = "answered"
<1>0. PICK a \in Answers, on \in BOOLEAN :
        a = call[t].got.ans /\ on = (call[t].user.active /\ ~call[t].got.ans.frozen)
  BY ReadCases
<1>1. /\ Step(t, userResource(t)) /\ Running(t) /\ CallInv(t) /\ InOrder(t)
      /\ OwnAnswers(t) /\ UsableLater(t) /\ TypeOK /\ Querying(t, "store")
      /\ UNCHANGED <<users, req, seen, met, drift>> /\ KeyOf(t) = call[t].user.id
      /\ req[t].op = "CreateAccount" /\ call[t].user \in Answers /\ call[t].user # NotFound
      /\ call[t].user.id # 0
      /\ t \in call[t].got.since => <<call[t].user.id, a>> \in seen[t]
  <2>1. /\ Step(t, userResource(t)) /\ Running(t) /\ CallInv(t) /\ TypeOK
        /\ Querying(t, "store") /\ KeyOf(t) = call[t].user.id
        /\ UNCHANGED <<users, req, seen, met, drift>> /\ TrueEntry(KeyOf(t), call[t].got)
    BY ReadCases
  <2>2. /\ InOrder(t) /\ OwnAnswers(t) /\ UsableLater(t)
        /\ req[t].op = "CreateAccount" /\ call[t].user # NotFound
    BY <2>1 DEF CallInv, InOrder
  <2>3. call[t].user \in Answers /\ call[t].user.id # 0
    BY <2>1, <2>2, KeyType, AnswerFacts
  <2>4. t \in call[t].got.since => <<call[t].user.id, a>> \in seen[t]
    BY <1>0, <2>1 DEF TrueEntry
  <2> QED
    BY <2>1, <2>2, <2>3, <2>4
<1>2. PICK f, st : f = Moved(t, "answered")
                   /\ st = [f EXCEPT !.answer = "done", !.enabled = on]
  OBVIOUS
<1>3. Step(t, st)
  BY <1>0, <1>1, <1>2 DEF userResource
<1>4. /\ f \in CallStates /\ f.pc = "answered" /\ f.phase = "look" /\ f.err = call[t].err
      /\ f.mailed = call[t].mailed /\ f.stale = call[t].stale /\ f.made = call[t].made
      /\ f.user = call[t].user
  BY <1>1, <1>2, MovedShape DEF Points
<1>5. /\ st \in CallStates /\ st.pc = "answered" /\ st.phase = "look" /\ st.err = f.err
      /\ st.mailed = f.mailed /\ st.enabled = on /\ st.user = f.user
      /\ st.answer = "done" /\ st.stale = f.stale /\ st.made = f.made
  BY <1>2, <1>4 DEF CallStates
<1>6. Work(t) /\ call'[t] = st
  BY <1>3, <1>5, ReadIsWork
<1>7. InOrder(t)' /\ OwnAnswers(t)' /\ UsableLater(t)'
  BY <1>5, <1>6 DEF InOrder, OwnAnswers, UsableLater, Running, Querying
<1>8. Says(t)'
  <2>1. call[t].stale \/ SawUsable(t)
    BY <1>1 DEF UsableLater
  <2>2. call'[t].stale \/ SawUsable(t)'
    BY <1>1, <1>4, <1>5, <1>6, <2>1 DEF SawUsable, SawActive
  <2>3. ~met[t] => <<ByEmail, call[t].user>> \in seen[t] /\ <<call[t].user.id, a>> \in seen[t]
    BY <1>1 DEF OwnAnswers
  <2>4. on => call[t].user.active /\ ~a.frozen
    BY <1>0
  <2>5. call[t].mailed = call[t].user.id
    BY <1>1 DEF InOrder
  <2> QED
    BY <1>1, <1>4, <1>5, <1>6, <2>2, <2>3, <2>4, <2>5 DEF Says
<1> QED
  BY <1>1, <1>4, <1>5, <1>6, <1>7, <1>8 DEF CallInv, InOrder

\* Every read keeps what is known.
LEMMA ReadKeeps ==
  ASSUME AccountInv, NEW t \in Calls, Read(t)
  PROVE  Work(t) /\ CallInv(t)'
BY ReadCases, ExistKeeps, AgainKeeps, FindKeeps, LoginKeeps

\* A running call sees what becomes of a user.
LEMMA BecomesSeen ==
  ASSUME TypeOK, NEW t \in Calls, Running(t), NEW i \in Ids, NEW w \in UserRecords, Becomes(i, w)
  PROVE  \E a \in Answers : <<i, a>> \in seen'[t] /\ a.active = w.active
<1>1. users'[i] = w /\ w.active \in BOOLEAN /\ w.frozen \in BOOLEAN
  BY DEF TypeOK, Becomes, UserRecords
<1>2. PICK a : a = [id |-> i, active |-> w.active, frozen |-> w.frozen]
  OBVIOUS
<1>3. a \in Answers /\ a.active = w.active
  BY <1>1, <1>2 DEF Answers
<1>4. Answer(i)' = a /\ i \in Queries
  <2>1. i # ByEmail
    BY AccountBounds DEF Ids, ByEmail
  <2> QED
    BY <1>1, <1>2, <2>1 DEF Answer, Snapshot, Queries
<1>5. <<i, a>> \in Now'
  BY <1>4 DEF Now
<1>6. seen'[t] = seen[t] \cup Now'
  BY DEF Becomes
<1> QED
  BY <1>3, <1>5, <1>6

\* A creation, refused, lost or confirmed.
LEMMA CreateKeeps ==
  ASSUME AccountInv, NEW t \in Calls, CreateUser(t)
  PROVE  /\ Work(t) /\ CallInv(t)' /\ (call'[t].pc # "answered" => call'[t].stale = call[t].stale)
         /\ call'[t].pc \in {"clear", "answered"}
         /\ \/ /\ call'[t].err = "Duplicate" /\ UNCHANGED users /\ call'[t].pc = "answered"
               /\ \E i \in Ids : users[i].named
            \/ /\ call'[t].err \in {"none", "Failed"}
               /\ \E i \in Ids : users'[i].named
               /\ \A i \in Ids : ~users[i].named
               /\ \A i \in Ids : users[i].exists => users'[i] = users[i]
<1>1. /\ call[t].pc = "create" /\ Running(t) /\ UNCHANGED <<cache, req, met, drift>>
      /\ TypeOK /\ InOrder(t) /\ req[t].op = "CreateAccount"
  BY DEF CreateUser, Running, AccountInv, CallInv, InOrder
<1>2. CASE \E i \in Ids : users[i].named
  <2>1. Step(t, Failed(t, "Duplicate")) /\ UNCHANGED <<users, seen>> /\ "Duplicate" \in Errors
    BY <1>2 DEF CreateUser, Errors
  <2>2. PICK st : st = Failed(t, "Duplicate")
    OBVIOUS
  <2>3. /\ st.pc = "answered" /\ call'[t] = st
    BY <1>1, <2>1, <2>2, FailedShape DEF Step, TypeOK
  <2> QED
    BY <1>1, <1>2, <2>1, <2>3, FailureKeeps
<1>3. CASE \A i \in Ids : ~users[i].named
  <2>1. PICK i \in Ids, found \in BOOLEAN :
          /\ ~users[i].exists
          /\ Becomes(i, NewUser(found))
          /\ \/ Step(t, [Moved(t, "clear") EXCEPT !.made = i])
             \/ Step(t, Failed(t, "Failed"))
    BY <1>3 DEF CreateUser
  <2>2. PICK w \in UserRecords : w = NewUser(found) /\ w.exists /\ w.named /\ w.active = TRUE
    <3>1. PICK x : x = NewUser(found)
      OBVIOUS
    <3>2. /\ x = [exists |-> TRUE, named |-> TRUE, found |-> found,
                  active |-> TRUE, frozen |-> FALSE]
          /\ found \in BOOLEAN
      BY <3>1 DEF NewUser
    <3>3. x \in UserRecords
      BY <3>2 DEF UserRecords
    <3>4. x.exists /\ x.named /\ x.active = TRUE
      BY <3>2
    <3> QED
      BY <3>1, <3>3, <3>4
  <2>3. /\ users' = [users EXCEPT ![i] = w] /\ users \in [Ids -> UserRecords]
    BY <1>1, <2>1, <2>2 DEF Becomes, TypeOK
  <2>4. /\ \E j \in Ids : users'[j].named
        /\ \A j \in Ids : users[j].exists => users'[j] = users[j]
    BY <2>1, <2>2, <2>3
  <2>5. CASE Step(t, Failed(t, "Failed"))
    <3>1. Work(t) /\ CallInv(t)' /\ call'[t].err = "Failed"
      BY <1>1, <2>1, <2>2, <2>5, LostKeeps
    <3>2. call'[t].pc = "answered"
      BY <1>1, <2>5, FailedShape DEF Step, TypeOK, Errors
    <3> QED
      BY <1>3, <2>4, <3>1, <3>2
  <2>6. CASE Step(t, [Moved(t, "clear") EXCEPT !.made = i])
    <3>0. PICK f, st : f = Moved(t, "clear") /\ st = [f EXCEPT !.made = i]
      OBVIOUS
    <3>1. /\ f \in CallStates /\ f.pc = "clear" /\ f.phase = "look" /\ f.err = call[t].err
          /\ f.mailed = call[t].mailed /\ f.enabled = call[t].enabled
          /\ f.answer = call[t].answer /\ f.stale = call[t].stale
      BY <1>1, <3>0, MovedShape DEF Points
    <3>2. i \in Queries /\ i # 0
      BY AccountBounds DEF Queries, Ids
    <3>3. /\ st \in CallStates /\ st.pc = "clear" /\ st.phase = "look" /\ st.err = f.err
          /\ st.mailed = f.mailed /\ st.enabled = f.enabled
          /\ st.answer = f.answer /\ st.stale = f.stale /\ st.made = i
      BY <3>0, <3>1, <3>2 DEF CallStates
    <3>4. Work(t) /\ call'[t] = st
      BY <1>1, <2>1, <2>2, <2>6, <3>0, <3>3, BecomesIsWork
    <3>5. InOrder(t)' /\ OwnAnswers(t)'
      BY <1>1, <3>1, <3>3, <3>4 DEF InOrder, OwnAnswers, Running, Querying
    <3>6. UsableLater(t)'
      <4>1. \E a \in Answers : <<i, a>> \in seen'[t] /\ a.active
        BY <1>1, <2>1, <2>2, BecomesSeen
      <4> QED
        BY <3>2, <3>3, <3>4, <4>1 DEF UsableLater, SawUsable, SawActive
    <3>7. Says(t)'
      BY <1>1, <3>1, <3>3, <3>4 DEF InOrder, Says
    <3> QED
      BY <1>1, <1>3, <2>4, <3>1, <3>3, <3>4, <3>5, <3>6, <3>7 DEF CallInv, InOrder
  <2> QED
    BY <2>1, <2>5, <2>6
<1> QED
  BY <1>2, <1>3

\* SetUserActiveState, refused, lost or confirmed.
LEMMA PatchKeeps ==
  ASSUME AccountInv, NEW t \in Calls, SetUserActiveState(t)
  PROVE  /\ Work(t) /\ CallInv(t)'
         /\ req[t].op = "CreateAccount" =>
              /\ call'[t].err \in {"none", "Failed"} /\ call'[t].pc \in {"clear", "answered"}
              /\ call'[t].pc # "answered" => call'[t].stale = call[t].stale
         /\ \A i \in Ids : users'[i].named = users[i].named /\ users'[i].found = users[i].found
<1>1. /\ call[t].pc = "patch" /\ Running(t) /\ UNCHANGED <<cache, req, met, drift>>
      /\ TypeOK /\ InOrder(t) /\ users \in [Ids -> UserRecords]
      /\ call[t].user \in Answers /\ req[t] \in Requests
  BY KeyType DEF SetUserActiveState, Running, AccountInv, CallInv, TypeOK
<1>2. /\ Target(t) \in Ids /\ req[t].active \in BOOLEAN
      /\ req[t].op = "CreateAccount" => req[t].active /\ users[Target(t)].exists
      /\ req[t].op # "CreateAccount" => Target(t) = req[t].id
      /\ req[t].op = "CreateAccount" => Target(t) = call[t].user.id
  <2>1. CASE req[t].op = "CreateAccount"
    BY <1>1, <2>1, AnswerFacts DEF InOrder, Target, Requests
  <2>2. CASE req[t].op # "CreateAccount"
    BY <1>1, <2>2 DEF Target, Requests, Queries
  <2> QED
    BY <2>1, <2>2
<1>3. PICK i \in Ids : i = Target(t)
  BY <1>2
<1>4. CASE ~users[i].exists
  <2>1. /\ Step(t, Failed(t, "NotFound")) /\ UNCHANGED <<users, seen>> /\ "NotFound" \in Errors
        /\ req[t].op # "CreateAccount"
    BY <1>2, <1>3, <1>4 DEF SetUserActiveState, Errors
  <2> QED
    BY <1>1, <2>1, FailureKeeps
<1>5. CASE users[i].exists
  <2>1. PICK w : w = [users[i] EXCEPT !.active = req[t].active]
    OBVIOUS
  <2>2. users[i] \in UserRecords
    BY <1>1
  <2>3. /\ w \in UserRecords /\ w.exists /\ w.active = req[t].active
        /\ w.named = users[i].named /\ w.found = users[i].found
    BY <1>2, <1>5, <2>1, <2>2 DEF UserRecords
  <2>4. /\ Becomes(i, w) /\ (Step(t, Activated(t)) \/ Step(t, Failed(t, "Failed")))
    BY <1>3, <1>5, <2>1 DEF SetUserActiveState, setOneValue
  <2>5. \A j \in Ids : users'[j].named = users[j].named /\ users'[j].found = users[j].found
    BY <1>1, <2>3, <2>4 DEF Becomes
  <2>6. CASE Step(t, Failed(t, "Failed"))
    <3>1. Work(t) /\ CallInv(t)' /\ call'[t].err = "Failed"
      BY <1>1, <2>3, <2>4, <2>6, LostKeeps
    <3>2. call'[t].pc = "answered"
      BY <1>1, <2>6, FailedShape DEF Step, TypeOK, Errors
    <3> QED
      BY <2>5, <3>1, <3>2
  <2>7. CASE Step(t, Activated(t)) /\ req[t].op = "CreateAccount"
    <3>0. PICK f, st : f = Moved(t, "clear") /\ st = [f EXCEPT !.made = call[t].user.id]
      OBVIOUS
    <3>1. /\ f \in CallStates /\ f.pc = "clear" /\ f.phase = "look" /\ f.err = call[t].err
          /\ f.mailed = call[t].mailed /\ f.enabled = call[t].enabled
          /\ f.answer = call[t].answer /\ f.stale = call[t].stale
      BY <1>1, <3>0, MovedShape DEF Points
    <3>2. i \in Queries /\ i # 0 /\ i = call[t].user.id
      BY <1>2, <1>3, <2>7, AccountBounds DEF Queries, Ids
    <3>3. /\ st \in CallStates /\ st.pc = "clear" /\ st.phase = "look" /\ st.err = f.err
          /\ st.mailed = f.mailed /\ st.enabled = f.enabled
          /\ st.answer = f.answer /\ st.stale = f.stale /\ st.made = i
      BY <3>0, <3>1, <3>2 DEF CallStates
    <3>4. Step(t, st)
      BY <2>7, <3>0 DEF Activated
    <3>5. Work(t) /\ call'[t] = st
      BY <1>1, <2>3, <2>4, <3>3, <3>4, BecomesIsWork
    <3>6. InOrder(t)' /\ OwnAnswers(t)'
      BY <1>1, <2>7, <3>1, <3>3, <3>5 DEF InOrder, OwnAnswers, Running, Querying
    <3>7. UsableLater(t)'
      <4>1. \E a \in Answers : <<i, a>> \in seen'[t] /\ a.active
        BY <1>1, <1>2, <2>3, <2>4, <2>7, BecomesSeen
      <4> QED
        BY <3>2, <3>3, <3>5, <4>1 DEF UsableLater, SawUsable, SawActive
    <3>8. Says(t)'
      BY <1>1, <3>1, <3>3, <3>5 DEF InOrder, Says
    <3> QED
      BY <1>1, <2>5, <3>1, <3>3, <3>5, <3>6, <3>7, <3>8 DEF CallInv, InOrder
  <2>8. CASE Step(t, Activated(t)) /\ req[t].op # "CreateAccount"
    <3>0. PICK f, st : f = Moved(t, "answered") /\ st = [f EXCEPT !.answer = "done"]
      OBVIOUS
    <3>1. /\ f \in CallStates /\ f.pc = "answered" /\ f.phase = "look"
          /\ f.mailed = call[t].mailed /\ f.enabled = call[t].enabled
      BY <1>1, <3>0, MovedShape DEF Points
    <3>2. /\ st \in CallStates /\ st.pc = "answered" /\ st.phase = "look"
          /\ st.mailed = f.mailed /\ st.enabled = f.enabled /\ st.answer = "done"
      BY <3>0, <3>1 DEF CallStates
    <3>3. Step(t, st)
      BY <2>8, <3>0 DEF Activated
    <3>4. Work(t) /\ call'[t] = st
      BY <1>1, <2>3, <2>4, <3>2, <3>3, BecomesIsWork
    <3>5. InOrder(t)' /\ OwnAnswers(t)' /\ UsableLater(t)'
      BY <3>2, <3>4 DEF InOrder, OwnAnswers, UsableLater, Running, Querying
    <3>6. \E a \in Answers : <<req[t].id, a>> \in seen'[t] /\ a.active = req[t].active
      <4>1. PICK a \in Answers : <<i, a>> \in seen'[t] /\ a.active = w.active
        BY <1>1, <2>3, <2>4, BecomesSeen
      <4>2. i = req[t].id /\ w.active = req[t].active
        BY <1>2, <1>3, <2>3, <2>8
      <4> QED
        BY <4>1, <4>2
    <3>7. Says(t)'
      BY <1>1, <2>8, <3>1, <3>2, <3>4, <3>6 DEF InOrder, Says
    <3> QED
      BY <2>5, <2>8, <3>4, <3>5, <3>7 DEF CallInv
  <2> QED
    BY <2>4, <2>6, <2>7, <2>8
<1> QED
  BY <1>4, <1>5

-----------------------------------------------------------------------------
(* The steps that are not of a handler at work.                            *)

\* What a call is when it begins.
LEMMA BeginShape ==
  ASSUME AccountInv, NEW t \in Calls, Begin(t)
  PROVE  /\ call[t] = IdleCall /\ call' \in [Calls -> CallStates]
         /\ \A u \in Calls : u # t => call'[u] = call[u] /\ seen'[u] = seen[u]
         /\ call'[t].pc = IF req[t].op = "CreateAccount" THEN "exist" ELSE "patch"
         /\ call'[t].phase = "look" /\ call'[t].answer = "none" /\ call'[t].err = "none"
         /\ call'[t].mailed = 0 /\ call'[t].enabled = FALSE /\ call'[t].stale = FALSE
         /\ seen'[t] = Now /\ Now' = Now
         /\ seen' \in [Calls -> SUBSET (Queries \X Answers)]
<1>1. /\ call[t] = IdleCall /\ TypeOK
  BY DEF AccountInv, CallInv, InOrder, Begin
<1>2. PICK p : p = IF req[t].op = "CreateAccount" THEN "exist" ELSE "patch"
  OBVIOUS
<1>3. PICK st : st = [call[t] EXCEPT !.pc = p]
  OBVIOUS
<1>4. p \in Points /\ call[t] \in CallStates
  BY <1>1, <1>2 DEF Points, TypeOK
<1>5. /\ st \in CallStates /\ st.pc = p /\ st.phase = "look" /\ st.answer = "none"
      /\ st.err = "none" /\ st.mailed = 0 /\ st.enabled = FALSE /\ st.stale = FALSE
  <2>1. /\ st.pc = p /\ st.phase = call[t].phase /\ st.answer = call[t].answer
        /\ st.err = call[t].err /\ st.mailed = call[t].mailed
        /\ st.enabled = call[t].enabled /\ st.stale = call[t].stale
    BY <1>3, <1>4 DEF CallStates
  <2>2. /\ call[t].phase = "look" /\ call[t].answer = "none" /\ call[t].err = "none"
        /\ call[t].mailed = 0 /\ call[t].enabled = FALSE /\ call[t].stale = FALSE
    BY <1>1 DEF IdleCall
  <2>3. st \in CallStates
    BY <1>3, <1>4 DEF CallStates
  <2> QED
    BY <2>1, <2>2, <2>3
<1>6. call' = [call EXCEPT ![t] = st]
  BY <1>2, <1>3 DEF Begin
<1>7. Now' = Now /\ Now \subseteq Queries \X Answers
  <2>1. users' = users
    BY DEF Begin
  <2>2. Now' = Now
    BY <2>1 DEF Now, Answer, GetUserByEmail, First, Snapshot
  <2>3. Now \subseteq Queries \X Answers
    BY <1>1, AnswerType DEF Now
  <2> QED
    BY <2>2, <2>3
<1>8. seen' = [seen EXCEPT ![t] = Now] /\ seen \in [Calls -> SUBSET (Queries \X Answers)]
  BY <1>1 DEF Begin, TypeOK
<1>9. call \in [Calls -> CallStates]
  BY <1>1 DEF TypeOK
<1> QED
  BY <1>1, <1>2, <1>5, <1>6, <1>7, <1>8, <1>9

\* A call that begins meets the ones that run.
LEMMA BeginKeeps ==
  ASSUME AccountInv, NEW t \in Calls, Begin(t)
  PROVE  AccountInv'
<1>1. /\ TypeOK /\ UNCHANGED <<users, cache, req, drift>> /\ call[t].pc = "idle"
      /\ met' = [u \in Calls |->
           \/ met[u]
           \/ u = t /\ \E v \in Calls : Running(v)
           \/ u # t /\ Running(u)]
  BY DEF AccountInv, Begin
<1>2. /\ \A u \in Calls : u # t => (Running(u)' <=> Running(u))
      /\ ~Running(t) /\ call'[t].pc \in {"exist", "patch"} /\ call'[t].phase = "look"
  BY <1>1, BeginShape DEF Running
<1>3. Grows
  BY <1>1, <1>2, BeginShape DEF Grows
<1>4. TypeOK'
  <2>1. met' \in [Calls -> BOOLEAN]
    BY <1>1
  <2> QED
    BY <1>1, <2>1, BeginShape DEF TypeOK
<1>5. EntriesTrue'
  <2>1. ASSUME NEW k \in Queries, NEW e \in cache'[k] PROVE TrueEntry(k, e)'
    <3>1. e \in cache[k] /\ e \in Entries /\ TrueEntry(k, e)
      BY <1>1, <2>1 DEF AccountInv, EntriesTrue, TypeOK
    <3> QED
      BY <1>3, <3>1, TrueEntryKept
  <2>2. ASSUME NEW u \in Calls, Querying(u, "store")' PROVE TrueEntry(KeyOf(u), call[u].got)'
    <3>1. u # t
      BY <1>2, <2>2 DEF Querying
    <3>2. call'[u] = call[u]
      BY <3>1, BeginShape
    <3>3. Querying(u, "store") /\ KeyOf(u)' = KeyOf(u)
      BY <2>2, <3>2 DEF Querying, KeyOf
    <3>4. TrueEntry(KeyOf(u), call[u].got) /\ KeyOf(u) \in Queries /\ call[u].got \in Entries
      BY <1>1, <3>3, KeyType DEF AccountInv, EntriesTrue
    <3>5. PICK k, e : k = KeyOf(u) /\ e = call[u].got
      OBVIOUS
    <3>6. TrueEntry(k, e)'
      BY <1>3, <3>4, <3>5, TrueEntryKept
    <3> QED
      BY <3>2, <3>3, <3>5, <3>6 DEF TrueEntry
  <2> QED
    BY <2>1, <2>2 DEF EntriesTrue
<1>6. SeenNow'
  BY <1>2, BeginShape DEF AccountInv, SeenNow
<1>7. AloneUnlessMet'
  <2> SUFFICES ASSUME NEW a \in Calls, NEW b \in Calls, a # b, Running(a)', Running(b)'
               PROVE  met'[a]
    BY DEF AloneUnlessMet
  <2>1. CASE a = t
    BY <1>1, <1>2, <2>1
  <2>2. CASE a # t
    BY <1>1, <1>2, <2>2
  <2> QED
    BY <2>1, <2>2
<1>8. UsersProper'
  BY <1>1 DEF AccountInv, UsersProper
<1>9. ASSUME NEW u \in Calls, u # t PROVE CallInv(u)'
  <2>1. /\ CallInv(u) /\ call'[u] = call[u] /\ seen[u] \subseteq seen'[u]
    BY <1>9, BeginShape DEF AccountInv
  <2>2. met[u] => met'[u]
    BY <1>1
  <2> QED
    BY <1>1, <1>3, <2>1, <2>2, CallAside
<1>10. CallInv(t)'
  <2>1. /\ call'[t].pc \in {"exist", "patch"} /\ call'[t].phase = "look"
        /\ call'[t].pc = "patch" => req'[t].op # "CreateAccount"
        /\ call'[t].pc # "patch" => req'[t].op = "CreateAccount"
        /\ call'[t].answer = "none" /\ call'[t].err = "none"
        /\ call'[t].mailed = 0 /\ ~call'[t].enabled
    BY <1>1, <1>2, BeginShape
  <2>2. InOrder(t)'
    BY <2>1 DEF InOrder, Querying
  <2>3. UsableLater(t)' /\ OwnAnswers(t)' /\ Says(t)'
    BY <2>1 DEF UsableLater, OwnAnswers, Says, Querying
  <2> QED
    BY <2>2, <2>3 DEF CallInv
<1> QED
  BY <1>4, <1>5, <1>6, <1>7, <1>8, <1>9, <1>10 DEF AccountInv

\* Anyone else's change of a user leaves one that exists.
LEMMA DriftShape ==
  ASSUME TypeOK, NEW i \in Ids, Drift(i)
  PROVE  \E w \in UserRecords : w.exists /\ Becomes(i, w)
<1>1. users[i] \in UserRecords /\ users[i].exists
  BY DEF TypeOK, Drift
<1>2. PICK w : /\ Becomes(i, w)
               /\ \/ w = [users[i] EXCEPT !.active = ~users[i].active]
                  \/ w = [users[i] EXCEPT !.frozen = ~users[i].frozen]
                  \/ w = [users[i] EXCEPT !.found = ~users[i].found]
  BY DEF Drift
<1>3. w \in UserRecords /\ w.exists
  BY <1>1, <1>2 DEF UserRecords
<1> QED
  BY <1>2, <1>3

\* Anyone else's change of a user, and an answer that leaves the cache.
LEMMA EnvironmentKeeps ==
  ASSUME AccountInv, Environment \/ UNCHANGED accountVars
  PROVE  AccountInv'
<1>0. TypeOK
  BY DEF AccountInv
<1>1. /\ UNCHANGED <<call, req, met>> /\ drift' \in Nat
      /\ cache' \in [Queries -> SUBSET Entries]
      /\ \A k \in Queries : cache'[k] \subseteq cache[k]
      /\ \/ UNCHANGED <<users, seen>>
         \/ \E i \in Ids, w \in UserRecords : w.exists /\ Becomes(i, w)
  <2>1. CASE \E i \in Ids : Drift(i)
    <3>1. /\ UNCHANGED <<cache, req, call, met>> /\ drift' \in Nat
      BY <1>0, <2>1 DEF Drift, TypeOK
    <3> QED
      BY <1>0, <2>1, <3>1, DriftShape DEF TypeOK
  <2>2. CASE \E k \in Queries : CacheEvict(k)
    BY <1>0, <2>2 DEF CacheEvict, TypeOK
  <2>3. CASE UNCHANGED accountVars
    BY <1>0, <2>3 DEF accountVars, TypeOK
  <2> QED
    BY <2>1, <2>2, <2>3 DEF Environment
<1>2. /\ \A u \in Calls : seen[u] \subseteq seen'[u]
      /\ \A i \in Ids : users[i].exists => users'[i].exists
      /\ users' \in [Ids -> UserRecords] /\ seen' \in [Calls -> SUBSET (Queries \X Answers)]
  BY <1>0, <1>1, BecomesGrows, SeenType DEF TypeOK
<1>3. Grows /\ TypeOK'
  BY <1>0, <1>1, <1>2 DEF Grows, TypeOK
<1>4. EntriesTrue'
  <2>1. ASSUME NEW k \in Queries, NEW e \in cache'[k] PROVE TrueEntry(k, e)'
    <3>1. e \in cache[k] /\ e \in Entries /\ TrueEntry(k, e)
      BY <1>0, <1>1, <2>1 DEF AccountInv, EntriesTrue, TypeOK
    <3> QED
      BY <1>3, <3>1, TrueEntryKept
  <2>2. ASSUME NEW u \in Calls, Querying(u, "store")' PROVE TrueEntry(KeyOf(u), call[u].got)'
    <3>1. Querying(u, "store") /\ KeyOf(u)' = KeyOf(u)
      BY <1>1, <2>2 DEF Querying, KeyOf
    <3>2. TrueEntry(KeyOf(u), call[u].got) /\ KeyOf(u) \in Queries /\ call[u].got \in Entries
      BY <1>0, <3>1, KeyType DEF AccountInv, EntriesTrue
    <3>3. PICK k, e : k = KeyOf(u) /\ e = call[u].got
      OBVIOUS
    <3>4. TrueEntry(k, e)'
      BY <1>3, <3>2, <3>3, TrueEntryKept
    <3> QED
      BY <1>1, <3>1, <3>3, <3>4 DEF TrueEntry
  <2> QED
    BY <2>1, <2>2 DEF EntriesTrue
<1>5. SeenNow'
  <2>1. CASE UNCHANGED <<users, seen>>
    <3>1. Now' = Now
      BY <2>1 DEF Now, Answer, GetUserByEmail, First, Snapshot
    <3> QED
      BY <1>1, <2>1, <3>1 DEF AccountInv, SeenNow, Running
  <2>2. CASE \E i \in Ids, w \in UserRecords : w.exists /\ Becomes(i, w)
    BY <1>0, <1>1, <2>2, BecomesGrows DEF SeenNow, Running
  <2> QED
    BY <1>1, <2>1, <2>2
<1>6. AloneUnlessMet'
  BY <1>1 DEF AccountInv, AloneUnlessMet, Running
<1>7. UsersProper'
  <2>1. CASE UNCHANGED <<users, seen>>
    BY <2>1 DEF AccountInv, UsersProper
  <2>2. CASE \E i \in Ids, w \in UserRecords : w.exists /\ Becomes(i, w)
    BY <1>0, <2>2, BecomesGrows DEF AccountInv, UsersProper, TypeOK
  <2> QED
    BY <1>1, <2>1, <2>2
<1>8. ASSUME NEW u \in Calls PROVE CallInv(u)'
  <2>1. CallInv(u) /\ call'[u] = call[u] /\ (met[u] => met'[u])
    BY <1>1 DEF AccountInv
  <2> QED
    BY <1>1, <1>2, <1>3, <2>1, CallAside
<1> QED
  BY <1>3, <1>4, <1>5, <1>6, <1>7, <1>8 DEF AccountInv

\* Every step keeps the invariant.
LEMMA NextKeeps ==
  ASSUME AccountInv, [Next]_accountVars
  PROVE  AccountInv'
<1>1. ASSUME NEW t \in Calls, getUserCreateRequestParams(t) \/ CallStep(t)
      PROVE  AccountInv'
  <2>1. Work(t) /\ CallInv(t)'
    BY <1>1, FailuresKeep, NotFoundKeeps, PauseKeeps, ClearKeeps, MailKeeps, LookupKeeps, ReadKeeps,
       CreateKeeps, PatchKeeps DEF CallStep
  <2> QED
    BY <2>1, WorkKeeps DEF AccountInv
<1> QED
  BY <1>1, BeginKeeps, EnvironmentKeeps DEF Next, Terminated

\* At first no call has begun and nothing is cached.
LEMMA InitInv == Init => AccountInv
<1> SUFFICES ASSUME Init PROVE AccountInv
  OBVIOUS
<1>1. /\ call = [t \in Calls |-> IdleCall] /\ cache = [k \in Queries |-> {}]
      /\ \A t \in Calls : call[t] = IdleCall
  BY DEF Init
<1>2. IdleCall \in CallStates
  BY DEF IdleCall, CallStates, Points, Entries, NoEntry, Answers, Queries, ByEmail, Errors
<1>3. TypeOK
  BY <1>1, <1>2 DEF Init, TypeOK
<1>4. \A t \in Calls : call[t].pc = "idle" /\ call[t].phase = "look" /\ call[t].mailed = 0
                       /\ call[t].answer = "none" /\ ~call[t].enabled
  BY <1>1 DEF IdleCall
<1>5. EntriesTrue /\ SeenNow /\ AloneUnlessMet
  BY <1>1, <1>4 DEF EntriesTrue, SeenNow, AloneUnlessMet, Running, Querying
<1>6. UsersProper
  BY DEF Init, UsersProper
<1>7. ASSUME NEW t \in Calls PROVE CallInv(t)
  BY <1>1, <1>4 DEF CallInv, InOrder, UsableLater, OwnAnswers, Says, Running, Querying
<1> QED
  BY <1>3, <1>5, <1>6, <1>7 DEF AccountInv

-----------------------------------------------------------------------------
(* An answer is true of every call that ran when Salesforce gave it, and a *)
(* call alone in the process reads only such answers once the caches are   *)
(* cleared (CreateAccount, GetUserByEmailWithRetry).                       *)
THEOREM InvHolds == Spec => []AccountInv
<1>1. AccountInv /\ [Next]_accountVars => AccountInv'
  BY NextKeeps
<1> QED
  BY <1>1, InitInv, PTL DEF Spec

(* CreateAccount creates a user only after the address was nobody's at     *)
(* some moment of the call, unless UserExist read an answer older than it, *)
(* or took the HTTP status 404 of the query for one.                       *)
THEOREM CreationIsWitnessed == Spec => []CreateWitnessed
<1>1. AccountInv => CreateWitnessed
  BY DEF AccountInv, CallInv, Says, CreateWitnessed
<1> QED
  BY <1>1, InvHolds, PTL

(* SendResetPasswordEmail is for a user who had the address while the call *)
(* ran, if no other call ran at the same time.                             *)
THEOREM MailIsWitnessed == Spec => []MailWitnessed
<1>1. AccountInv => MailWitnessed
  BY DEF AccountInv, CallInv, Says, MailWitnessed
<1> QED
  BY <1>1, InvHolds, PTL

(* CreateAccount succeeds only with the mail sent to the user it reports   *)
(* and with a user of the address active at some moment of the call,       *)
(* unless the lookup that decides on SetUserActiveState was answered from  *)
(* before.                                                                 *)
THEOREM AccountIsUsable == Spec => []AccountUsable
<1>1. AccountInv => AccountUsable
  BY DEF AccountInv, CallInv, Says, AccountUsable
<1> QED
  BY <1>1, InvHolds, PTL

(* userResource reports an account enabled only if its user was active and *)
(* not frozen while the call ran.                                          *)
THEOREM ReportIsTrue == Spec => []ReportTrue
<1>1. AccountInv => ReportTrue
  BY DEF AccountInv, CallInv, Says, ReportTrue
<1> QED
  BY <1>1, InvHolds, PTL

(* Delete and updateUserStatus succeed only if the user was as they wanted *)
(* it at some moment of the call.                                          *)
THEOREM StatusIsWitnessed == Spec => []StatusWitnessed
<1>1. AccountInv => StatusWitnessed
  BY DEF AccountInv, CallInv, Says, StatusWitnessed
<1> QED
  BY <1>1, InvHolds, PTL

-----------------------------------------------------------------------------
(* A call nobody disturbs.                                                 *)

Undisturbed(t) == req[t].op = "CreateAccount" /\ ~met[t] /\ ~call[t].denied /\ drift = 0

SomeoneFound == \E i \in Ids : users[i].found
SomeoneMissed == \E i \in Ids : users[i].named /\ ~users[i].found

\* As long as nobody else changes the org, a user who was found once is found.
FoundStays ==
  drift = 0 =>
    /\ \A e \in cache[ByEmail] : e.ans # NotFound => SomeoneFound
    /\ \A t \in Calls :
         Querying(t, "store") /\ call[t].pc # "login" /\ call[t].got.ans # NotFound =>
           SomeoneFound

(* It knows the present, until it creates or activates a user itself; of   *)
(* what UserExist read from before only that a user who was found is.      *)
KnowsPresent(t) ==
  /\ call[t].pc = "exist" =>
       \A e \in cache[ByEmail] : t \in e.since => e.ans = GetUserByEmail
  /\ call[t].pc = "again" => SomeoneFound /\ \A e \in cache[ByEmail] : e.ans # NotFound
  /\ call[t].pc = "find" => \A e \in cache[ByEmail] : e.ans = GetUserByEmail
  /\ Querying(t, "store") =>
       /\ call[t].pc = "exist" => call[t].stale \/ call[t].got.ans = GetUserByEmail
       /\ call[t].pc = "again" => call[t].got.ans # NotFound
       /\ call[t].pc = "find" => call[t].got.ans = GetUserByEmail
  /\ call[t].pc = "create" => call[t].stale \/ GetUserByEmail = NotFound
  /\ call[t].pc \in {"patch", "clear", "find", "pause"} =>
       \E i \in Ids : users[i].named \/ users[i].found

(* It complains only of a user that queries do not find, or of a name that *)
(* is taken when it read from before that nobody has the address.          *)
FairComplaint(t) ==
  /\ call[t].err = "NotFound" => SomeoneMissed
  /\ call[t].err = "Duplicate" => call[t].stale \/ SomeoneMissed

Completes(t) == Undisturbed(t) => KnowsPresent(t) /\ FairComplaint(t)

RepeatInv == AccountInv /\ FoundStays /\ \A t \in Calls : Completes(t)

\* A call that has ended, or that only waits, knows no less than before.
LEMMA AsideCompletes ==
  ASSUME RepeatInv, NEW u \in Calls, req' = req, call'[u] = call[u],
         met[u] => met'[u], drift' = 0 => drift = 0,
         \A i \in Ids : users[i].named /\ ~users[i].found => users'[i].named /\ ~users'[i].found,
         Running(u) => met'[u] \/ (users' = users /\ cache'[ByEmail] \subseteq cache[ByEmail])
  PROVE  Completes(u)'
<1> SUFFICES ASSUME Undisturbed(u)' PROVE KnowsPresent(u)' /\ FairComplaint(u)'
  BY DEF Completes
<1>1. Undisturbed(u) /\ KnowsPresent(u) /\ FairComplaint(u) /\ ~met'[u]
  BY DEF Undisturbed, RepeatInv, Completes
<1>2. FairComplaint(u)'
  BY <1>1 DEF FairComplaint, SomeoneMissed
<1>3. CASE ~Running(u)
  BY <1>2, <1>3 DEF KnowsPresent, Querying, Running
<1>4. CASE users' = users /\ cache'[ByEmail] \subseteq cache[ByEmail]
  <2>1. GetUserByEmail' = GetUserByEmail
    BY <1>4 DEF GetUserByEmail, First, Snapshot
  <2>2. \A ph : Querying(u, ph)' <=> Querying(u, ph)
    BY DEF Querying
  <2>3. KnowsPresent(u)'
    BY <1>1, <1>4, <2>1, <2>2 DEF KnowsPresent, SomeoneFound
  <2> QED
    BY <1>2, <2>3
<1> QED
  BY <1>1, <1>3, <1>4

\* Only a user that is not there yet is written over by a creation.
LEMMA FoundKept ==
  ASSUME AccountInv, NEW t \in Calls, getUserCreateRequestParams(t) \/ CallStep(t)
  PROVE  \A i \in Ids :
           /\ users[i].named /\ ~users[i].found => users'[i].named /\ ~users'[i].found
           /\ users[i].found => users'[i].found
<1>1. \A i \in Ids : users[i].named \/ users[i].found => users[i].exists
  BY DEF AccountInv, UsersProper, NoUser
<1>2. CASE CreateUser(t)
  BY <1>1, <1>2, CreateKeeps
<1>3. CASE SetUserActiveState(t)
  BY <1>3, PatchKeeps
<1>4. CASE users' = users
  BY <1>4
<1>5. CreateUser(t) \/ SetUserActiveState(t) \/ users' = users
  BY DEF getUserCreateRequestParams, CallStep, CacheHit, query, QueryFails, QueryNotFound, Read,
         ClearCaches, PauseOver, SendResetPasswordEmail, RequestFails
<1> QED
  BY <1>2, <1>3, <1>4, <1>5

\* A 404 is not forgotten.
LEMMA DeniedKept ==
  ASSUME AccountInv, NEW t \in Calls, getUserCreateRequestParams(t) \/ CallStep(t), call[t].denied
  PROVE  call'[t].denied
<1>0. TypeOK /\ call \in [Calls -> CallStates] /\ call[t] \in CallStates /\ call[t].denied = TRUE
  BY DEF AccountInv, TypeOK, CallStates
<1>1. ASSUME NEW st, Step(t, st), st.denied = TRUE PROVE call'[t].denied
  BY <1>0, <1>1 DEF Step
<1>2. \A p \in Points : Moved(t, p) \in CallStates /\ Moved(t, p).denied = TRUE
  BY <1>0, MovedShape
<1>3. \A e \in Errors : Failed(t, e) \in CallStates /\ Failed(t, e).denied = TRUE
  BY <1>0, FailedShape
<1>4. /\ {"answered", "create", "again", "clear", "patch", "mail", "pause", "find", "login"}
           \subseteq Points
      /\ {"Failed", "Duplicate", "NotFound"} \subseteq Errors
  BY DEF Points, Errors
<1>5. CASE getUserCreateRequestParams(t) \/ QueryFails(t) \/ RequestFails(t)
  BY <1>1, <1>3, <1>4, <1>5 DEF getUserCreateRequestParams, QueryFails, RequestFails
<1>6. CASE QueryNotFound(t)
  BY <1>6, NotFoundKeeps
<1>7. CASE CacheHit(t) \/ query(t)
  <2>1. PICK g, old : \/ Step(t, [call[t] EXCEPT !.phase = "store", !.got = g])
                      \/ Step(t, [call[t] EXCEPT !.phase = "store", !.got = g, !.stale = old])
    BY <1>7 DEF CacheHit, query
  <2>2. /\ [call[t] EXCEPT !.phase = "store", !.got = g].denied = TRUE
        /\ [call[t] EXCEPT !.phase = "store", !.got = g, !.stale = old].denied = TRUE
    BY <1>0 DEF CallStates
  <2> QED
    BY <1>1, <2>1, <2>2
<1>8. CASE Read(t)
  <2>1. PICK m \in CallStates :
          /\ m.denied = TRUE
          /\ \/ Step(t, m)
             \/ Step(t, [m EXCEPT !.user = call[t].got.ans])
             \/ Step(t, [m EXCEPT !.tries = m.tries + 1])
             \/ Step(t, [m EXCEPT !.answer = "done",
                                  !.enabled = call[t].user.active /\ ~call[t].got.ans.frozen])
    <3>1. CASE call[t].pc = "exist"
      BY <1>2, <1>4, <1>8, <3>1, ReadCases DEF UserExist
    <3>2. CASE call[t].pc = "again"
      BY <1>2, <1>3, <1>4, <1>8, <3>2, ReadCases DEF ActivateIfInactive
    <3>3. CASE call[t].pc = "find"
      BY <1>2, <1>3, <1>4, <1>8, <3>3, ReadCases DEF GetUserByEmailWithRetry, TryAgain
    <3>4. CASE call[t].pc = "login"
      BY <1>2, <1>4, <1>8, <3>4, ReadCases DEF userResource
    <3> QED
      BY <1>8, <3>1, <3>2, <3>3, <3>4, ReadCases
  <2>2. /\ [m EXCEPT !.user = call[t].got.ans].denied = TRUE
        /\ [m EXCEPT !.tries = m.tries + 1].denied = TRUE
        /\ [m EXCEPT !.answer = "done", !.enabled =
              call[t].user.active /\ ~call[t].got.ans.frozen].denied = TRUE
    BY <2>1 DEF CallStates
  <2> QED
    BY <1>1, <2>1, <2>2
<1>9. CASE CreateUser(t)
  <2>1. PICK i : \/ Step(t, [Moved(t, "clear") EXCEPT !.made = i])
                 \/ \E e \in Errors : Step(t, Failed(t, e))
    BY <1>4, <1>9 DEF CreateUser
  <2>2. [Moved(t, "clear") EXCEPT !.made = i].denied = TRUE
    BY <1>2, <1>4 DEF CallStates
  <2> QED
    BY <1>1, <1>3, <2>1, <2>2
<1>10. CASE SetUserActiveState(t)
  <2>1. \/ Step(t, [Moved(t, "clear") EXCEPT !.made = call[t].user.id])
        \/ Step(t, [Moved(t, "answered") EXCEPT !.answer = "done"])
        \/ \E e \in Errors : Step(t, Failed(t, e))
    BY <1>4, <1>10 DEF SetUserActiveState, Activated
  <2>2. /\ [Moved(t, "clear") EXCEPT !.made = call[t].user.id].denied = TRUE
        /\ [Moved(t, "answered") EXCEPT !.answer = "done"].denied = TRUE
    BY <1>2, <1>4 DEF CallStates
  <2> QED
    BY <1>1, <1>3, <2>1, <2>2
<1>11. CASE ClearCaches(t) \/ PauseOver(t)
  BY <1>1, <1>2, <1>4, <1>11 DEF ClearCaches, PauseOver
<1>12. CASE SendResetPasswordEmail(t)
  <2>1. /\ [Moved(t, "login") EXCEPT !.mailed = call[t].user.id].denied = TRUE
        /\ [Failed(t, "Failed") EXCEPT !.mailed = call[t].user.id].denied = TRUE
    BY <1>2, <1>3, <1>4 DEF CallStates
  <2> QED
    BY <1>1, <1>12, <2>1 DEF SendResetPasswordEmail
<1> QED
  BY <1>5, <1>6, <1>7, <1>8, <1>9, <1>10, <1>11, <1>12 DEF CallStep

\* A step of a call leaves those found who were, and every answer as it was.
LEMMA FoundStaysKept ==
  ASSUME RepeatInv, NEW t \in Calls, getUserCreateRequestParams(t) \/ CallStep(t), Work(t)
  PROVE  FoundStays'
<1> SUFFICES ASSUME drift' = 0
             PROVE  /\ \A e \in cache'[ByEmail] : e.ans # NotFound => SomeoneFound'
                    /\ \A u \in Calls :
                         Querying(u, "store")' /\ call'[u].pc # "login"
                           /\ call'[u].got.ans # NotFound => SomeoneFound'
  BY DEF FoundStays
<1>1. /\ AccountInv /\ TypeOK /\ drift = 0 /\ FoundStays /\ ByEmail \in Queries /\ CallInv(t)
      /\ \A u \in Calls : u # t => call'[u] = call[u]
  BY WorkGrows DEF RepeatInv, AccountInv, Work, Queries
<1>2. SomeoneFound => SomeoneFound'
  BY <1>1, FoundKept DEF SomeoneFound
<1>3. KeyOf(t) = ByEmail /\ Querying(t, "store") => call[t].pc # "login"
  <2>1. call[t].pc = "login" => call[t].user # NotFound
    BY <1>1 DEF CallInv, InOrder, Running
  <2> QED
    BY <1>1, <2>1, KeyType, AnswerFacts DEF KeyOf, ByEmail
<1>4. ASSUME NEW e \in cache'[ByEmail], e.ans # NotFound PROVE SomeoneFound'
  <2>1. e \in cache[ByEmail] \/ (Querying(t, "store") /\ ByEmail = KeyOf(t) /\ e = call[t].got)
    BY <1>1, <1>4 DEF Work
  <2> QED
    BY <1>1, <1>2, <1>3, <1>4, <2>1 DEF FoundStays
<1>5. ASSUME NEW u \in Calls, Querying(u, "store")', call'[u].pc # "login",
             call'[u].got.ans # NotFound
      PROVE  SomeoneFound'
  <2>1. CASE u # t
    <3>1. call'[u] = call[u] /\ Querying(u, "store")
      BY <1>1, <1>5, <2>1 DEF Querying
    <3> QED
      BY <1>1, <1>2, <1>5, <3>1 DEF FoundStays
  <2>2. CASE u = t
    <3>1. KeyOf(t)' = ByEmail /\ KeyOf(t) = ByEmail
      BY <1>5, <2>2 DEF Work, KeyOf
    <3>2. \/ call'[t].got \in cache[ByEmail]
          \/ call'[t].got = [ans |-> Answer(ByEmail), since |-> {v \in Calls : Running(v)}]
      BY <1>5, <2>2, <3>1 DEF Work
    <3>3. Answer(ByEmail) # NotFound => SomeoneFound
      BY <1>1, AnswerType DEF SomeoneFound
    <3> QED
      BY <1>1, <1>2, <1>5, <2>2, <3>2, <3>3 DEF FoundStays
  <2> QED
    BY <2>1, <2>2
<1> QED
  BY <1>4, <1>5

\* A handler's step leaves the other calls as sure as they were.
LEMMA OthersComplete ==
  ASSUME RepeatInv, NEW t \in Calls, getUserCreateRequestParams(t) \/ CallStep(t), Work(t),
         NEW u \in Calls, u # t
  PROVE  Completes(u)'
<1>1. AccountInv /\ UNCHANGED <<req, drift, met>> /\ call'[u] = call[u]
  BY WorkGrows DEF RepeatInv, Work
<1>2. \A i \in Ids : users[i].named /\ ~users[i].found => users'[i].named /\ ~users'[i].found
  BY <1>1, FoundKept
<1>3. CASE Running(t)
  <2>1. Running(u) => met'[u]
    BY <1>1, <1>3 DEF AccountInv, AloneUnlessMet
  <2> QED
    BY <1>1, <1>2, <2>1, AsideCompletes
<1>4. CASE ~Running(t)
  <2>1. getUserCreateRequestParams(t)
    BY <1>4 DEF Running, CallStep, CacheHit, query, QueryFails, QueryNotFound, Read, ClearCaches,
                PauseOver, SendResetPasswordEmail, RequestFails, CreateUser,
                SetUserActiveState, Querying
  <2>2. users' = users /\ cache' = cache
    BY <2>1 DEF getUserCreateRequestParams
  <2> QED
    BY <1>1, <1>2, <2>2, AsideCompletes
<1> QED
  BY <1>3, <1>4

\* A handler that gives up without a complaint.
LEMMA EndCompletes ==
  ASSUME NEW t \in Calls, call'[t].pc \in {"answered", "mail", "login"}, call'[t].phase = "look",
         call'[t].err \in {"none", "Failed"}
  PROVE  Completes(t)'
BY DEF Completes, KnowsPresent, FairComplaint, Querying

\* The failures that say nothing of a user.
LEMMA FailureCompletes ==
  ASSUME RepeatInv, NEW t \in Calls,
         getUserCreateRequestParams(t) \/ QueryFails(t) \/ RequestFails(t)
  PROVE  Completes(t)'
<1>1. AccountInv /\ TypeOK /\ Step(t, Failed(t, "Failed")) /\ "Failed" \in Errors
  BY DEF RepeatInv, AccountInv, getUserCreateRequestParams, QueryFails, RequestFails, Errors
<1>2. PICK st : st = Failed(t, "Failed")
  OBVIOUS
<1>3. call'[t] = st /\ st.pc = "answered" /\ st.phase = "look" /\ st.err = "Failed"
  BY <1>1, <1>2, FailedShape DEF Step, TypeOK
<1> QED
  BY <1>3, EndCompletes

\* A lookup: what it finds is the present.
LEMMA LookupCompletes ==
  ASSUME RepeatInv, NEW t \in Calls, CacheHit(t) \/ query(t)
  PROVE  Completes(t)'
<1>1. /\ AccountInv /\ CallInv(t) /\ TypeOK
      /\ call'[t].pc = call[t].pc /\ call'[t].err = call[t].err
      /\ UNCHANGED <<users, cache, req, seen, met, drift>> /\ Querying(t, "look")
      /\ call[t].stale => call'[t].stale
      /\ \/ call'[t].got \in cache[KeyOf(t)] /\ (t \in call'[t].got.since \/ call'[t].stale)
         \/ call'[t].got = [ans |-> Answer(KeyOf(t)), since |-> {u \in Calls : Running(u)}]
  BY LookupKeeps DEF RepeatInv, AccountInv
<1> SUFFICES ASSUME Undisturbed(t)' PROVE KnowsPresent(t)' /\ FairComplaint(t)'
  BY DEF Completes
<1>2. Undisturbed(t) /\ KnowsPresent(t)
  BY <1>1, DeniedKept DEF Undisturbed, RepeatInv, Completes, CallStep
<1>3. FairComplaint(t)'
  BY <1>1 DEF FairComplaint, CallInv, InOrder, Running, Querying
<1>4. GetUserByEmail' = GetUserByEmail /\ (SomeoneFound' <=> SomeoneFound)
  BY <1>1 DEF GetUserByEmail, First, Snapshot, SomeoneFound
<1>5. /\ call[t].pc = "exist" => call'[t].stale \/ call'[t].got.ans = GetUserByEmail
      /\ call[t].pc = "again" => call'[t].got.ans # NotFound
      /\ call[t].pc = "find" => call'[t].got.ans = GetUserByEmail
  <2> SUFFICES ASSUME call[t].pc \in {"exist", "again", "find"}
               PROVE  /\ call[t].pc = "exist" => call'[t].stale \/ call'[t].got.ans = GetUserByEmail
                      /\ call[t].pc = "again" => call'[t].got.ans # NotFound
                      /\ call[t].pc = "find" => call'[t].got.ans = GetUserByEmail
    OBVIOUS
  <2>1. KeyOf(t) = ByEmail
    BY DEF KeyOf
  <2>2. CASE call'[t].got \in cache[ByEmail] /\ (t \in call'[t].got.since \/ call'[t].stale)
    BY <1>2, <2>2 DEF KnowsPresent
  <2>3. CASE call'[t].got = [ans |-> Answer(ByEmail), since |-> {u \in Calls : Running(u)}]
    <3>1. call'[t].got.ans = GetUserByEmail
      BY <1>1, <2>3, AnswerType
    <3>2. call[t].pc = "again" => GetUserByEmail # NotFound
      BY <1>1, <1>2, AnswerType DEF KnowsPresent, SomeoneFound
    <3> QED
      BY <3>1, <3>2
  <2> QED
    BY <1>1, <2>1, <2>2, <2>3
<1>6. KnowsPresent(t)'
  BY <1>1, <1>2, <1>4, <1>5 DEF KnowsPresent
<1> QED
  BY <1>3, <1>6

\* The lookup is over when its answer is stored.
LEMMA ReadLooks ==
  ASSUME RepeatInv, NEW t \in Calls, Read(t)
  PROVE  ~Querying(t, "store")'
<1>1. /\ AccountInv /\ TypeOK /\ call \in [Calls -> CallStates]
      /\ call[t].pc \in {"exist", "again", "find", "login"}
      /\ call[t].pc = "exist" => Step(t, UserExist(t))
      /\ {"create", "again"} \subseteq Points
  BY ReadCases DEF RepeatInv, TypeOK, Points
<1>2. CASE call[t].pc = "exist"
  <2>1. PICK p \in Points : Step(t, Moved(t, p))
    BY <1>1, <1>2 DEF UserExist
  <2>2. call'[t].phase = "look"
    BY <1>1, <2>1, MovedShape DEF Step
  <2> QED
    BY <2>2 DEF Querying
<1>3. CASE call[t].pc # "exist"
  <2>1. call'[t].pc \in {"answered", "clear", "patch", "mail", "pause"}
    BY <1>1, <1>3, AgainKeeps, FindKeeps, LoginKeeps
  <2> QED
    BY <2>1 DEF Querying
<1> QED
  BY <1>2, <1>3

\* What a read tells of the present.
LEMMA ReadCompletes ==
  ASSUME RepeatInv, NEW t \in Calls, Read(t)
  PROVE  Completes(t)'
<1>1. /\ AccountInv /\ TypeOK /\ Querying(t, "store") /\ Running(t)
      /\ call[t].pc \in {"exist", "again", "find", "login"}
      /\ UNCHANGED <<users, req, seen, met, drift>>
      /\ cache' = [cache EXCEPT ![KeyOf(t)] = {call[t].got}]
      /\ call[t].pc # "login" => KeyOf(t) = ByEmail
  BY ReadCases DEF RepeatInv
<1>2. call'[t].stale = call[t].stale
  BY <1>1, ExistKeeps, AgainKeeps, FindKeeps, LoginKeeps
<1>3. ~Querying(t, "store")'
  BY ReadLooks
<1> SUFFICES ASSUME Undisturbed(t)' PROVE KnowsPresent(t)' /\ FairComplaint(t)'
  BY DEF Completes
<1>4. Undisturbed(t) /\ KnowsPresent(t)
  BY <1>1, DeniedKept DEF Undisturbed, RepeatInv, Completes, CallStep
<1>5. GetUserByEmail' = GetUserByEmail /\ (SomeoneFound' <=> SomeoneFound)
      /\ (SomeoneMissed' <=> SomeoneMissed)
  BY <1>1 DEF GetUserByEmail, First, Snapshot, SomeoneFound, SomeoneMissed
<1>6. CASE call[t].pc = "login"
  <2>1. call'[t].pc = "answered" /\ call'[t].err = "none"
    BY <1>1, <1>6, LoginKeeps
  <2> QED
    BY <1>3, <2>1 DEF KnowsPresent, FairComplaint
<1>7. CASE call[t].pc # "login"
  <2>1. cache'[ByEmail] = {call[t].got}
    <3>1. cache \in [Queries -> SUBSET Entries] /\ ByEmail \in Queries
      BY <1>1 DEF TypeOK, Queries
    <3> QED
      BY <1>1, <1>7, <3>1
  <2>2. GetUserByEmail = NotFound <=> ~SomeoneFound
    BY <1>1, AnswerType DEF SomeoneFound
  <2>3. CASE call[t].pc = "exist"
    <3>1. /\ call'[t].err = "none"
          /\ call'[t].pc = IF call[t].got.ans = NotFound THEN "create" ELSE "again"
      BY <1>1, <2>3, ExistKeeps
    <3>2. call[t].got.ans # NotFound => SomeoneFound
      BY <1>1, <1>4, <1>7 DEF RepeatInv, FoundStays, Undisturbed
    <3>3. call[t].stale \/ call[t].got.ans = GetUserByEmail
      BY <1>1, <1>4, <2>3 DEF KnowsPresent
    <3> QED
      BY <1>2, <1>3, <1>5, <2>1, <3>1, <3>2, <3>3 DEF KnowsPresent, FairComplaint
  <2>4. CASE call[t].pc = "again"
    <3>1. /\ call'[t].err = IF call[t].got.ans = NotFound THEN "NotFound" ELSE "none"
          /\ call'[t].pc \in {"answered", "clear", "patch"} /\ SomeoneFound
          /\ call[t].got.ans # NotFound
      BY <1>1, <1>4, <2>4, AgainKeeps DEF KnowsPresent
    <3> QED
      BY <1>1, <1>3, <3>1 DEF KnowsPresent, FairComplaint, SomeoneFound
  <2>5. CASE call[t].pc = "find"
    <3>1. /\ call'[t].err \in {"none", "NotFound"}
          /\ call'[t].err = "NotFound" => call[t].got.ans = NotFound
          /\ call'[t].pc \in {"mail", "pause", "answered"}
          /\ \E i \in Ids : users[i].named \/ users[i].found
          /\ call[t].got.ans = GetUserByEmail
      BY <1>1, <1>4, <2>5, FindKeeps DEF KnowsPresent
    <3>2. GetUserByEmail = NotFound => SomeoneMissed
      BY <2>2, <3>1 DEF SomeoneMissed, SomeoneFound
    <3> QED
      BY <1>1, <1>3, <1>5, <3>1, <3>2 DEF KnowsPresent, FairComplaint
  <2> QED
    BY <1>1, <1>7, <2>3, <2>4, <2>5
<1> QED
  BY <1>6, <1>7

\* A creation finds the name taken only by a user that queries do not find.
LEMMA CreateCompletes ==
  ASSUME RepeatInv, NEW t \in Calls, CreateUser(t)
  PROVE  Completes(t)'
<1>1. /\ AccountInv /\ TypeOK /\ call[t].pc = "create" /\ UNCHANGED <<cache, req, met, drift>>
      /\ call'[t].pc # "answered" => call'[t].stale = call[t].stale
      /\ call'[t].pc \in {"clear", "answered"}
      /\ \/ /\ call'[t].err = "Duplicate" /\ UNCHANGED users /\ call'[t].pc = "answered"
            /\ \E i \in Ids : users[i].named
         \/ /\ call'[t].err \in {"none", "Failed"}
            /\ \E i \in Ids : users'[i].named
  BY CreateKeeps DEF RepeatInv, AccountInv, CreateUser
<1>2. ~Querying(t, "store")'
  BY <1>1 DEF Querying
<1>3. CASE call'[t].err \in {"none", "Failed"} /\ \E i \in Ids : users'[i].named
  BY <1>1, <1>2, <1>3 DEF Completes, KnowsPresent, FairComplaint
<1>4. CASE call'[t].err = "Duplicate" /\ UNCHANGED users /\ \E i \in Ids : users[i].named
  <2>1. Step(t, Failed(t, "Duplicate")) /\ "Duplicate" \in Errors
    <3>1. ~\A i \in Ids : ~users[i].named
      BY <1>4
    <3> QED
      BY <3>1 DEF CreateUser, Errors
  <2>2. PICK st : st = Failed(t, "Duplicate")
    OBVIOUS
  <2>3. call'[t] = st /\ st.stale = call[t].stale /\ st.pc = "answered"
    BY <1>1, <2>1, <2>2, FailedShape DEF Step, TypeOK
  <2> SUFFICES ASSUME Undisturbed(t)' PROVE KnowsPresent(t)' /\ FairComplaint(t)'
    BY DEF Completes
  <2>4. Undisturbed(t) /\ KnowsPresent(t)
    BY <1>1, DeniedKept DEF Undisturbed, RepeatInv, Completes, CallStep
  <2>5. call[t].stale \/ \A i \in Ids : ~users[i].found
    BY <1>1, <2>4, AnswerType DEF KnowsPresent
  <2> QED
    BY <1>2, <1>4, <2>3, <2>5 DEF KnowsPresent, FairComplaint, SomeoneMissed
<1> QED
  BY <1>1, <1>3, <1>4

\* SetUserActiveState finds the user that the lookup named.
LEMMA PatchCompletes ==
  ASSUME RepeatInv, NEW t \in Calls, SetUserActiveState(t)
  PROVE  Completes(t)'
<1> SUFFICES ASSUME Undisturbed(t)' PROVE KnowsPresent(t)' /\ FairComplaint(t)'
  BY DEF Completes
<1>1. /\ AccountInv /\ call[t].pc = "patch" /\ UNCHANGED <<cache, req, met, drift>>
      /\ req[t].op = "CreateAccount"
  BY DEF RepeatInv, SetUserActiveState, Undisturbed
<1>2. /\ call'[t].err \in {"none", "Failed"} /\ call'[t].pc \in {"clear", "answered"}
      /\ call'[t].pc # "answered" => call'[t].stale = call[t].stale
      /\ \A i \in Ids : users'[i].named = users[i].named /\ users'[i].found = users[i].found
  BY <1>1, PatchKeeps
<1>3. FairComplaint(t)' /\ ~Querying(t, "store")'
  BY <1>2 DEF FairComplaint, Querying
<1>4. call'[t].pc = "clear" => \E i \in Ids : users[i].named \/ users[i].found
  BY <1>1, <1>2, DeniedKept DEF Undisturbed, RepeatInv, Completes, KnowsPresent, CallStep
<1> QED
  BY <1>2, <1>3, <1>4 DEF KnowsPresent

\* The steps that only move on.
LEMMA MoveCompletes ==
  ASSUME RepeatInv, NEW t \in Calls, ClearCaches(t) \/ PauseOver(t)
  PROVE  Completes(t)'
<1>1. /\ AccountInv /\ TypeOK /\ call \in [Calls -> CallStates] /\ call[t].pc \in {"clear", "pause"}
      /\ UNCHANGED <<users, req, seen, met, drift>> /\ CallInv(t)
  BY DEF RepeatInv, AccountInv, TypeOK, ClearCaches, PauseOver
<1>2. PICK p \in {"find", "clear"} :
        /\ Step(t, Moved(t, p)) /\ p \in Points
        /\ p = "find" => cache' = [k \in Queries |-> {}]
  BY DEF ClearCaches, PauseOver, Points
<1>3. PICK st : st = Moved(t, p)
  OBVIOUS
<1>4. /\ call'[t] = st /\ st.pc = p /\ st.phase = "look" /\ st.err = call[t].err
      /\ st.stale = call[t].stale
  BY <1>1, <1>2, <1>3, MovedShape DEF Step
<1> SUFFICES ASSUME Undisturbed(t)' PROVE KnowsPresent(t)' /\ FairComplaint(t)'
  BY DEF Completes
<1>5. \E i \in Ids : users[i].named \/ users[i].found
  BY <1>1, DeniedKept DEF Undisturbed, RepeatInv, Completes, KnowsPresent, CallStep
<1>6. FairComplaint(t)'
  BY <1>1, <1>4 DEF CallInv, InOrder, Running, FairComplaint
<1>7. ByEmail \in Queries
  BY DEF Queries
<1> QED
  BY <1>1, <1>2, <1>4, <1>5, <1>6, <1>7 DEF KnowsPresent, Querying

\* After the mail nothing is looked up by the address.
LEMMA MailCompletes ==
  ASSUME RepeatInv, NEW t \in Calls, SendResetPasswordEmail(t)
  PROVE  Completes(t)'
<1>1. /\ AccountInv /\ TypeOK /\ call \in [Calls -> CallStates] /\ call[t].user \in Answers
      /\ {"login", "answered"} \subseteq Points /\ "Failed" \in Errors
  BY KeyType DEF RepeatInv, AccountInv, TypeOK, Points, Errors
<1>2. call[t].user.id \in Queries
  BY <1>1, AnswerFacts
<1>3. PICK f \in CallStates :
        /\ f.pc \in {"login", "answered"} /\ f.phase = "look"
        /\ Step(t, [f EXCEPT !.mailed = call[t].user.id])
  BY <1>1, MovedShape, FailedShape DEF SendResetPasswordEmail
<1>4. PICK st : st = [f EXCEPT !.mailed = call[t].user.id]
  OBVIOUS
<1>5. call'[t] = st /\ st.pc = f.pc /\ st.phase = f.phase
  BY <1>1, <1>3, <1>4 DEF Step, CallStates
<1> QED
  BY <1>1, <1>3, <1>5, MailKeeps, EndCompletes

\* A call that begins knows of no answer of its own time.
LEMMA BeginCompletes ==
  ASSUME RepeatInv, NEW t \in Calls, Begin(t), NEW u \in Calls
  PROVE  Completes(u)'
<1>1. /\ AccountInv /\ TypeOK /\ UNCHANGED <<users, cache, req, drift>> /\ call[t].pc = "idle"
      /\ met' = [v \in Calls |->
           \/ met[v]
           \/ v = t /\ \E w \in Calls : Running(w)
           \/ v # t /\ Running(v)]
  BY DEF RepeatInv, AccountInv, Begin
<1>2. CASE u # t
  <2>1. call'[u] = call[u] /\ (met[u] => met'[u]) /\ (Running(u) => met'[u])
    BY <1>1, <1>2, BeginShape
  <2> QED
    BY <1>1, <2>1, AsideCompletes
<1>3. CASE u = t
  <2>1. /\ call'[t].pc \in {"exist", "patch"} /\ call'[t].phase = "look" /\ call'[t].err = "none"
        /\ call'[t].pc = "patch" => req'[t].op # "CreateAccount"
    BY <1>1, BeginShape
  <2>2. \A e \in cache'[ByEmail] : t \notin e.since
    <3>1. ByEmail \in Queries
      BY DEF Queries
    <3> QED
      BY <1>1, <3>1 DEF AccountInv, EntriesTrue, TrueEntry
  <2> QED
    BY <1>3, <2>1, <2>2 DEF Completes, Undisturbed, KnowsPresent, FairComplaint, Querying
<1> QED
  BY <1>2, <1>3

\* Anyone else's change disturbs every call; a cache entry that leaves disturbs none.
LEMMA EnvironmentCompletes ==
  ASSUME RepeatInv, Environment \/ UNCHANGED accountVars, NEW u \in Calls
  PROVE  Completes(u)'
<1>1. AccountInv /\ TypeOK /\ ByEmail \in Queries
  BY DEF RepeatInv, AccountInv, Queries
<1>2. CASE \E i \in Ids : Drift(i)
  <2>1. drift' # 0
    BY <1>1, <1>2 DEF Drift, TypeOK
  <2> QED
    BY <2>1 DEF Completes, Undisturbed
<1>3. CASE (\E k \in Queries : CacheEvict(k)) \/ UNCHANGED accountVars
  <2>1. /\ UNCHANGED <<users, req, call, met, drift>> /\ cache'[ByEmail] \subseteq cache[ByEmail]
    BY <1>1, <1>3 DEF CacheEvict, accountVars, TypeOK
  <2> QED
    BY <2>1, AsideCompletes
<1> QED
  BY <1>2, <1>3 DEF Environment

\* Nobody is missed because a call begins or an answer leaves the cache.
LEMMA FoundStaysElse ==
  ASSUME RepeatInv, Environment \/ UNCHANGED accountVars \/ \E t \in Calls : Begin(t)
  PROVE  FoundStays'
<1>1. AccountInv /\ TypeOK /\ FoundStays /\ ByEmail \in Queries
  BY DEF RepeatInv, AccountInv, Queries
<1>2. CASE \E i \in Ids : Drift(i)
  <2>1. drift' # 0
    BY <1>1, <1>2 DEF Drift, TypeOK
  <2> QED
    BY <2>1 DEF FoundStays
<1>3. ASSUME users' = users, drift' = drift, cache'[ByEmail] \subseteq cache[ByEmail],
             \A u \in Calls : Querying(u, "store")' => call'[u] = call[u]
      PROVE  FoundStays'
  BY <1>1, <1>3 DEF FoundStays, SomeoneFound, Querying
<1>4. CASE (\E k \in Queries : CacheEvict(k)) \/ UNCHANGED accountVars
  <2>1. /\ UNCHANGED <<users, call, drift>> /\ cache'[ByEmail] \subseteq cache[ByEmail]
    BY <1>1, <1>4 DEF CacheEvict, accountVars, TypeOK
  <2> QED
    BY <1>3, <2>1
<1>5. ASSUME NEW t \in Calls, Begin(t) PROVE FoundStays'
  <2>1. UNCHANGED <<users, cache, drift>> /\ call'[t].phase = "look"
    BY <1>1, <1>5, BeginShape DEF Begin
  <2>2. \A u \in Calls : u # t => call'[u] = call[u]
    BY <1>1, <1>5, BeginShape
  <2> QED
    BY <1>3, <2>1, <2>2 DEF Querying
<1> QED
  BY <1>2, <1>4, <1>5 DEF Environment

\* A 404 excuses the call.
LEMMA DeniedCompletes ==
  ASSUME RepeatInv, NEW t \in Calls, QueryNotFound(t)
  PROVE  Completes(t)'
<1>1. call'[t].denied
  BY NotFoundKeeps DEF RepeatInv
<1> QED
  BY <1>1 DEF Completes, Undisturbed

\* Every step keeps what an undisturbed call knows.
LEMMA RepeatKept ==
  ASSUME RepeatInv, [Next]_accountVars
  PROVE  RepeatInv'
<1>1. AccountInv /\ AccountInv'
  BY NextKeeps DEF RepeatInv
<1>2. ASSUME NEW t \in Calls, getUserCreateRequestParams(t) \/ CallStep(t)
      PROVE  FoundStays' /\ \A u \in Calls : Completes(u)'
  <2>1. Completes(t)'
    BY <1>2, FailureCompletes, DeniedCompletes, LookupCompletes, ReadCompletes, CreateCompletes,
       PatchCompletes, MoveCompletes, MailCompletes DEF CallStep
  <2>2. Work(t)
    BY <1>1, <1>2, FailuresKeep, NotFoundKeeps, PauseKeeps, ClearKeeps, MailKeeps, LookupKeeps, ReadKeeps,
       CreateKeeps, PatchKeeps DEF CallStep
  <2> QED
    BY <1>2, <2>1, <2>2, OthersComplete, FoundStaysKept
<1>3. FoundStays' /\ \A u \in Calls : Completes(u)'
  BY <1>2, BeginCompletes, EnvironmentCompletes, FoundStaysElse DEF Next, Terminated
<1> QED
  BY <1>1, <1>3 DEF RepeatInv

(* CreateAccount called again after it failed half way completes: alone,   *)
(* with nobody else changing the org and no lookup answered with 404, it   *)
(* finds its user whatever was cached, and is refused a creation only if   *)
(* UserExist was answered "no user" from before the call.                  *)
THEOREM RepeatDoesComplete == Spec => []RepeatCompletes
<1>1. Init => RepeatInv
  <2>1. ASSUME Init PROVE FoundStays /\ \A t \in Calls : Completes(t)
    <3>1. \A t \in Calls : call[t].pc = "idle" /\ call[t].err = "none"
      BY <2>1 DEF Init, IdleCall
    <3>2. cache[ByEmail] = {}
      BY <2>1 DEF Init, Queries
    <3> QED
      BY <3>1, <3>2 DEF FoundStays, Completes, KnowsPresent, FairComplaint, Querying
  <2> QED
    BY <2>1, InitInv DEF RepeatInv
<1>2. RepeatInv /\ [Next]_accountVars => RepeatInv'
  BY RepeatKept
<1>3. RepeatInv => RepeatCompletes
  BY DEF RepeatInv, Completes, Undisturbed, FairComplaint, SomeoneMissed, RepeatCompletes
<1> QED
  BY <1>1, <1>2, <1>3, PTL DEF Spec

-----------------------------------------------------------------------------
(* Why a call ends: every step of its own brings it closer to the answer.  *)

\* The points a handler goes through, in the order of its requests.
Edges == {<<"idle", "exist">>, <<"idle", "patch">>, <<"exist", "create">>,
          <<"exist", "again">>, <<"again", "clear">>, <<"again", "patch">>,
          <<"create", "clear">>, <<"patch", "clear">>, <<"clear", "find">>,
          <<"pause", "clear">>, <<"find", "mail">>, <<"mail", "login">>}

Lookups == {"exist", "again", "find", "login"}

\* A handler at s may be at r after its next step.
Nearer(s, r) ==
  \/ s.pc # "answered" /\ r.pc = "answered"
  \/ /\ s.pc \in Lookups /\ r.pc = s.pc /\ r.tries = s.tries
     /\ s.phase = "look" /\ r.phase = "store"
  \/ <<s.pc, r.pc>> \in Edges /\ r.tries = s.tries
  \/ s.pc = "find" /\ r.pc = "pause" /\ r.tries = s.tries + 1 /\ r.tries < maxRetries

Counted ==
  /\ TriesBounded'
  /\ \A t \in Calls : call'[t] # call[t] => Remaining(t)' \in 0 .. Remaining(t) - 1

\* What is left of a handler at s.
Left(s) ==
  IF s.pc = "answered" THEN 0
  ELSE Stage[s.pc] + (IF s.pc \in Lookups /\ s.phase = "look" THEN 1 ELSE 0)
         + IF s.pc \in {"mail", "login"} THEN 0 ELSE 4 * (maxRetries - s.tries)

\* What is left at each point.
LEMMA LeftAt ==
  ASSUME NEW s \in CallStates
  PROVE  /\ s.tries \in Nat /\ maxRetries \in Nat /\ s.pc \in Points
         /\ s.pc = "idle" => Left(s) = 8 + 4 * (maxRetries - s.tries)
         /\ s.pc \in {"create", "patch", "pause"} => Left(s) = 3 + 4 * (maxRetries - s.tries)
         /\ s.pc = "clear" => Left(s) = 2 + 4 * (maxRetries - s.tries)
         /\ s.pc = "mail" => Left(s) = 3
         /\ s.pc = "answered" => Left(s) = 0
         /\ \E l \in {0, 1} :
              /\ l = 1 <=> s.phase = "look"
              /\ s.pc = "exist" => Left(s) = 6 + l + 4 * (maxRetries - s.tries)
              /\ s.pc = "again" => Left(s) = 4 + l + 4 * (maxRetries - s.tries)
              /\ s.pc = "find" => Left(s) = l + 4 * (maxRetries - s.tries)
              /\ s.pc = "login" => Left(s) = 1 + l
<1>1. s.tries \in Nat /\ maxRetries \in Nat /\ s.pc \in Points
  BY AccountBounds DEF CallStates
<1>2. /\ Stage["idle"] = 8 /\ Stage["exist"] = 6 /\ Stage["again"] = 4
      /\ Stage["create"] = 3 /\ Stage["patch"] = 3 /\ Stage["pause"] = 3
      /\ Stage["clear"] = 2 /\ Stage["find"] = 0 /\ Stage["mail"] = 3 /\ Stage["login"] = 1
  BY DEF Stage
<1>3. PICK n \in Int : n = 4 * (maxRetries - s.tries)
  BY <1>1
<1>4. PICK l \in {0, 1} : l = IF s.phase = "look" THEN 1 ELSE 0
  OBVIOUS
<1>5. CASE s.pc \in {"idle", "create", "patch", "pause", "clear"}
  BY <1>1, <1>2, <1>3, <1>4, <1>5 DEF Left, Lookups
<1>6. CASE s.pc \in {"mail", "answered"}
  BY <1>1, <1>2, <1>3, <1>4, <1>6 DEF Left, Lookups
<1>7. CASE s.pc \in Lookups
  BY <1>1, <1>2, <1>3, <1>4, <1>7 DEF Left, Lookups
<1> QED
  BY <1>1, <1>5, <1>6, <1>7 DEF Points, Lookups

\* A step to a nearer point leaves less, and the tries are not used up.
LEMMA NearerLess ==
  ASSUME NEW s \in CallStates, NEW r \in CallStates, Nearer(s, r),
         s.pc \notin {"mail", "login", "answered"} => s.tries < maxRetries
  PROVE  /\ Left(r) \in 0 .. Left(s) - 1
         /\ r.pc \notin {"mail", "login", "answered"} => r.tries < maxRetries
<1>1. CASE s.pc # "answered" /\ r.pc = "answered"
  <2>1. CASE s.pc \in {"idle", "create", "patch", "pause", "clear"}
    BY <1>1, <2>1, LeftAt
  <2>2. CASE s.pc \in {"mail", "exist", "again", "find", "login"}
    BY <1>1, <2>2, LeftAt
  <2> QED
    BY <1>1, <2>1, <2>2, LeftAt DEF Points
<1>2. CASE /\ s.pc \in Lookups /\ r.pc = s.pc /\ r.tries = s.tries
           /\ s.phase = "look" /\ r.phase = "store"
  BY <1>2, LeftAt DEF Lookups
<1>3. CASE <<s.pc, r.pc>> \in Edges /\ r.tries = s.tries
  <2>1. CASE s.pc = "idle" /\ r.pc \in {"exist", "patch"}
    BY <1>3, <2>1, LeftAt
  <2>2. CASE s.pc = "exist" /\ r.pc \in {"create", "again"}
    BY <1>3, <2>2, LeftAt DEF Lookups
  <2>3. CASE s.pc = "again" /\ r.pc \in {"clear", "patch"}
    BY <1>3, <2>3, LeftAt DEF Lookups
  <2>4. CASE s.pc \in {"create", "patch", "pause"} /\ r.pc = "clear"
    BY <1>3, <2>4, LeftAt
  <2>5. CASE s.pc = "clear" /\ r.pc = "find"
    BY <1>3, <2>5, LeftAt
  <2>6. CASE s.pc = "find" /\ r.pc = "mail"
    BY <1>3, <2>6, LeftAt DEF Lookups
  <2>7. CASE s.pc = "mail" /\ r.pc = "login"
    BY <1>3, <2>7, LeftAt
  <2> QED
    BY <1>3, <2>1, <2>2, <2>3, <2>4, <2>5, <2>6, <2>7 DEF Edges
<1>4. CASE s.pc = "find" /\ r.pc = "pause" /\ r.tries = s.tries + 1 /\ r.tries < maxRetries
  BY <1>4, LeftAt
<1> QED
  BY <1>1, <1>2, <1>3, <1>4 DEF Nearer

\* A call that makes a step comes nearer, and the others stay where they are.
LEMMA MoveCounts ==
  ASSUME TypeOK, TriesBounded, NEW t \in Calls, NEW st \in CallStates,
         Step(t, st), Nearer(call[t], st)
  PROVE  Counted
<1>1. /\ call'[t] = st /\ call[t] \in CallStates
      /\ \A u \in Calls : u # t => call'[u] = call[u]
  BY DEF Step, TypeOK
<1>2. PICK s \in CallStates : s = call[t]
  BY <1>1
<1>3. s.pc \notin {"mail", "login", "answered"} => s.tries < maxRetries
  BY <1>2 DEF TriesBounded
<1>4. /\ Left(st) \in 0 .. Left(s) - 1
      /\ st.pc \notin {"mail", "login", "answered"} => st.tries < maxRetries
  BY <1>2, <1>3, NearerLess
<1>5. Remaining(t) = Left(s) /\ Remaining(t)' = Left(st)
  BY <1>1, <1>2 DEF Remaining, Left, Querying, Lookups
<1> QED
  BY <1>1, <1>4, <1>5 DEF Counted, TriesBounded

\* An error, or the last answer, ends the call.
LEMMA EndCounts ==
  ASSUME TypeOK, TriesBounded, NEW t \in Calls, NEW st \in CallStates,
         Step(t, st), st.pc = "answered", call[t].pc # "answered"
  PROVE  Counted
BY MoveCounts DEF Nearer

LEMMA FailureCounts ==
  ASSUME TypeOK, TriesBounded, NEW t \in Calls, NEW e \in Errors,
         Step(t, Failed(t, e)), call[t].pc # "answered"
  PROVE  Counted
BY FailedShape, EndCounts

\* A handler that goes on to its next request.
LEMMA EdgeCounts ==
  ASSUME TypeOK, TriesBounded, NEW t \in Calls, NEW p \in Points, NEW st \in CallStates,
         Step(t, st), st.pc = p, st.tries = call[t].tries, <<call[t].pc, p>> \in Edges
  PROVE  Counted
<1>1. Nearer(call[t], st)
  BY DEF Nearer
<1> QED
  BY <1>1, MoveCounts

\* A parameter, a query or a request that fails.
LEMMA FailuresCount ==
  ASSUME TypeOK, TriesBounded, NEW t \in Calls,
         getUserCreateRequestParams(t) \/ QueryFails(t) \/ RequestFails(t)
  PROVE  Counted
<1>1. Step(t, Failed(t, "Failed")) /\ "Failed" \in Errors /\ call[t].pc # "answered"
  BY DEF getUserCreateRequestParams, QueryFails, RequestFails, Querying, Errors
<1> QED
  BY <1>1, FailureCounts

\* A 404 ends the call, or costs it a try, or sends it on to the creation.
LEMMA NotFoundCounts ==
  ASSUME AccountInv, TriesBounded, NEW t \in Calls, QueryNotFound(t)
  PROVE  Counted
<1>1. /\ TypeOK /\ call[t].pc \in Lookups /\ call[t].tries \in Nat
      /\ "NotFound" \in Errors /\ {"create", "pause"} \subseteq Points
  BY DEF AccountInv, QueryNotFound, Querying, Lookups, TypeOK, CallStates, Errors, Points
<1>2. ASSUME NEW f \in CallStates, Step(t, Denied(f)), Nearer(call[t], f) PROVE Counted
  <2>1. PICK st : st = [f EXCEPT !.denied = TRUE]
    OBVIOUS
  <2>2. st \in CallStates /\ st.pc = f.pc /\ st.phase = f.phase /\ st.tries = f.tries
    BY <2>1 DEF CallStates
  <2>3. Step(t, st) /\ Nearer(call[t], st)
    BY <1>2, <2>1, <2>2 DEF Denied, Nearer
  <2> QED
    BY <1>1, <2>2, <2>3, MoveCounts
<1>3. CASE Step(t, Denied(Failed(t, "NotFound")))
  <2>1. Failed(t, "NotFound") \in CallStates /\ Failed(t, "NotFound").pc = "answered"
    BY <1>1, FailedShape
  <2> QED
    BY <1>1, <1>2, <1>3, <2>1 DEF Nearer, Lookups
<1>4. CASE call[t].pc = "exist" /\ Step(t, Denied(Moved(t, "create")))
  <2>1. /\ Moved(t, "create") \in CallStates /\ Moved(t, "create").pc = "create"
        /\ Moved(t, "create").tries = call[t].tries
    BY <1>1, MovedShape
  <2> QED
    BY <1>2, <1>4, <2>1 DEF Nearer, Edges
<1>5. CASE call[t].pc = "find" /\ Step(t, Denied(TryAgain(t)))
  <2>1. CASE call[t].tries + 1 < maxRetries
    <3>1. PICK f, g : f = Moved(t, "pause") /\ g = [f EXCEPT !.tries = f.tries + 1]
      OBVIOUS
    <3>2. f \in CallStates /\ f.pc = "pause" /\ f.tries = call[t].tries
      BY <1>1, <3>1, MovedShape
    <3>3. g \in CallStates /\ g.pc = "pause" /\ g.tries = call[t].tries + 1
      BY <1>1, <3>1, <3>2 DEF CallStates
    <3>4. Step(t, Denied(g))
      BY <1>5, <2>1, <3>1 DEF TryAgain
    <3>5. Nearer(call[t], g)
      BY <1>5, <2>1, <3>3 DEF Nearer
    <3> QED
      BY <1>2, <3>3, <3>4, <3>5
  <2>2. CASE ~(call[t].tries + 1 < maxRetries)
    BY <1>3, <1>5, <2>2 DEF TryAgain
  <2> QED
    BY <2>1, <2>2
<1> QED
  BY <1>3, <1>4, <1>5 DEF QueryNotFound

\* The caller begins.
LEMMA BeginCounts ==
  ASSUME AccountInv, TriesBounded, NEW t \in Calls, Begin(t)
  PROVE  Counted
<1>1. TypeOK /\ call[t] = IdleCall /\ call[t] \in CallStates
  BY BeginShape DEF AccountInv, TypeOK
<1>2. PICK p \in {"exist", "patch"} : call' = [call EXCEPT ![t].pc = p]
  BY DEF Begin
<1>3. PICK st : st = [call[t] EXCEPT !.pc = p]
  OBVIOUS
<1>4. st \in CallStates /\ st.pc = p /\ st.tries = call[t].tries /\ p \in Points
  BY <1>1, <1>3 DEF CallStates, Points
<1>5. Step(t, st) /\ call[t].pc = "idle"
  BY <1>1, <1>2, <1>3 DEF Step, Begin
<1>6. <<call[t].pc, p>> \in Edges /\ call[t].pc \notin Lookups
  BY <1>5 DEF Edges, Lookups
<1> QED
  BY <1>1, <1>4, <1>5, <1>6, EdgeCounts

\* A query is answered, from the cache or not.
LEMMA LookupCounts ==
  ASSUME AccountInv, TriesBounded, NEW t \in Calls, CacheHit(t) \/ query(t)
  PROVE  Counted
<1>1. /\ TypeOK /\ call[t] \in CallStates /\ call[t].pc \in Lookups /\ call[t].phase = "look"
      /\ cache \in [Queries -> SUBSET Entries] /\ KeyOf(t) \in Queries
  BY KeyType DEF AccountInv, TypeOK, CacheHit, query, Querying, Lookups
<1>2. PICK g \in Entries, old \in BOOLEAN :
        Step(t, [call[t] EXCEPT !.phase = "store", !.got = g, !.stale = old])
  <2>1. CASE CacheHit(t)
    <3>1. PICK e \in cache[KeyOf(t)] :
            Step(t, [call[t] EXCEPT !.phase = "store", !.got = e,
                                    !.stale = call[t].stale \/ t \notin e.since])
      BY <2>1 DEF CacheHit
    <3>2. PICK old \in BOOLEAN : old = (call[t].stale \/ t \notin e.since)
      OBVIOUS
    <3> QED
      BY <1>1, <3>1, <3>2
  <2>2. CASE query(t)
    <3>1. PICK g \in Entries : Step(t, [call[t] EXCEPT !.phase = "store", !.got = g])
      <4>1. PICK g : g = [ans |-> Answer(KeyOf(t)), since |-> {u \in Calls : Running(u)}]
        OBVIOUS
      <4>2. g \in Entries
        BY <1>1, <4>1, AnswerType DEF Entries
      <4> QED
        BY <2>2, <4>1, <4>2 DEF query
    <3>2. PICK old \in BOOLEAN : old = call[t].stale
      BY <1>1 DEF CallStates
    <3>3. [call[t] EXCEPT !.phase = "store", !.got = g]
            = [call[t] EXCEPT !.phase = "store", !.got = g, !.stale = old]
      BY <1>1, <3>2 DEF CallStates
    <3> QED
      BY <3>1, <3>3
  <2> QED
    BY <2>1, <2>2
<1>3. PICK st : st = [call[t] EXCEPT !.phase = "store", !.got = g, !.stale = old]
  OBVIOUS
<1>4. /\ st \in CallStates /\ st.pc = call[t].pc /\ st.tries = call[t].tries
      /\ st.phase = "store"
  BY <1>1, <1>3 DEF CallStates
<1>5. Nearer(call[t], st) /\ Step(t, st)
  BY <1>1, <1>2, <1>3, <1>4 DEF Nearer
<1> QED
  BY <1>1, <1>4, <1>5, MoveCounts

\* The answer to the first two lookups.
LEMMA ExistCounts ==
  ASSUME AccountInv, TriesBounded, NEW t \in Calls, Read(t), call[t].pc \in {"exist", "again"}
  PROVE  Counted
<1>1. /\ TypeOK /\ Querying(t, "store")
      /\ call[t].pc = "exist" => Step(t, UserExist(t))
      /\ call[t].pc = "again" => Step(t, ActivateIfInactive(t))
      /\ call[t].got.ans \in Answers /\ "NotFound" \in Errors
  BY ReadCases DEF Errors
<1>2. call[t].phase = "store"
  BY <1>1 DEF Querying
<1>3. CASE Step(t, Failed(t, "NotFound"))
  BY <1>1, <1>3, FailureCounts
<1>4. ASSUME NEW p \in {"create", "again", "clear"}, Step(t, Moved(t, p)),
             <<call[t].pc, p>> \in Edges
      PROVE  Counted
  <2>1. p \in Points
    BY DEF Points
  <2> QED
    BY <1>1, <1>2, <1>4, <2>1, MovedShape, EdgeCounts
<1>5. ASSUME call[t].pc = "again", Step(t, [Moved(t, "patch") EXCEPT !.user = call[t].got.ans])
      PROVE  Counted
  <2>1. PICK f, st : f = Moved(t, "patch") /\ st = [f EXCEPT !.user = call[t].got.ans]
    OBVIOUS
  <2>2. f \in CallStates /\ f.pc = "patch" /\ f.tries = call[t].tries /\ "patch" \in Points
    BY <1>1, <2>1, MovedShape DEF Points
  <2>3. st \in CallStates /\ st.pc = "patch" /\ st.tries = call[t].tries
    BY <1>1, <2>1, <2>2 DEF CallStates
  <2>4. Step(t, st) /\ <<call[t].pc, "patch">> \in Edges
    BY <1>5, <2>1 DEF Edges
  <2> QED
    BY <1>1, <1>2, <2>2, <2>3, <2>4, EdgeCounts
<1>6. CASE call[t].pc = "exist"
  <2>1. /\ <<call[t].pc, "create">> \in Edges /\ <<call[t].pc, "again">> \in Edges
        /\ Step(t, Moved(t, "create")) \/ Step(t, Moved(t, "again"))
    BY <1>1, <1>6 DEF Edges, UserExist
  <2> QED
    BY <1>4, <2>1
<1>7. CASE call[t].pc = "again"
  <2>1. /\ <<call[t].pc, "clear">> \in Edges
        /\ \/ Step(t, Failed(t, "NotFound")) \/ Step(t, Moved(t, "clear"))
           \/ Step(t, [Moved(t, "patch") EXCEPT !.user = call[t].got.ans])
    BY <1>1, <1>7, AnswerFacts DEF Edges, ActivateIfInactive
  <2> QED
    BY <1>3, <1>4, <1>5, <1>7, <2>1
<1> QED
  BY <1>6, <1>7

\* One try to find the user, and the question whether it is frozen.
LEMMA FindCounts ==
  ASSUME AccountInv, TriesBounded, NEW t \in Calls, Read(t), call[t].pc \in {"find", "login"}
  PROVE  Counted
<1>1. /\ TypeOK /\ Querying(t, "store") /\ call[t].tries \in Nat /\ maxRetries \in Nat
      /\ call[t].pc = "find" => Step(t, GetUserByEmailWithRetry(t))
      /\ call[t].pc = "login" => Step(t, userResource(t))
      /\ call[t].got.ans \in Answers /\ call[t].user \in Answers /\ "NotFound" \in Errors
      /\ {"mail", "pause", "answered"} \subseteq Points
  BY ReadCases, AccountBounds DEF AccountInv, TypeOK, CallStates, Errors, Points
<1>2. call[t].phase = "store"
  BY <1>1 DEF Querying
<1>3. CASE call[t].pc = "find" /\ call[t].got.ans # NotFound
  <2>1. PICK f, st : f = Moved(t, "mail") /\ st = [f EXCEPT !.user = call[t].got.ans]
    OBVIOUS
  <2>2. f \in CallStates /\ f.pc = "mail" /\ f.tries = call[t].tries
    BY <1>1, <2>1, MovedShape
  <2>3. st \in CallStates /\ st.pc = "mail" /\ st.tries = call[t].tries
    BY <1>1, <2>1, <2>2 DEF CallStates
  <2>4. Step(t, st) /\ <<call[t].pc, "mail">> \in Edges
    BY <1>1, <1>3, <2>1 DEF Edges, GetUserByEmailWithRetry
  <2> QED
    BY <1>1, <1>2, <2>3, <2>4, EdgeCounts
<1>4. CASE call[t].pc = "find" /\ call[t].got.ans = NotFound /\ call[t].tries + 1 < maxRetries
  <2>1. PICK f, st : f = Moved(t, "pause") /\ st = [f EXCEPT !.tries = f.tries + 1]
    OBVIOUS
  <2>2. f \in CallStates /\ f.pc = "pause" /\ f.tries = call[t].tries
    BY <1>1, <2>1, MovedShape
  <2>3. st \in CallStates /\ st.pc = "pause" /\ st.tries = call[t].tries + 1
    BY <1>1, <2>1, <2>2 DEF CallStates
  <2>4. Step(t, st)
    BY <1>1, <1>4, <2>1 DEF GetUserByEmailWithRetry, TryAgain
  <2>5. Nearer(call[t], st)
    BY <1>2, <1>4, <2>3 DEF Nearer
  <2> QED
    BY <1>1, <2>3, <2>4, <2>5, MoveCounts
<1>5. CASE call[t].pc = "find" /\ call[t].got.ans = NotFound /\ call[t].tries + 1 >= maxRetries
  <2>1. Step(t, Failed(t, "NotFound"))
    BY <1>1, <1>5 DEF GetUserByEmailWithRetry, TryAgain
  <2> QED
    BY <1>1, <1>5, <2>1, FailureCounts
<1>6. CASE call[t].pc = "login"
  <2>1. PICK on \in BOOLEAN : on = (call[t].user.active /\ ~call[t].got.ans.frozen)
    OBVIOUS
  <2>2. PICK f, st : f = Moved(t, "answered") /\ st = [f EXCEPT !.answer = "done", !.enabled = on]
    OBVIOUS
  <2>3. f \in CallStates /\ f.pc = "answered"
    BY <1>1, <2>2, MovedShape
  <2>4. st \in CallStates /\ st.pc = "answered"
    BY <2>2, <2>3 DEF CallStates
  <2>5. Step(t, st)
    BY <1>1, <1>6, <2>1, <2>2 DEF userResource
  <2> QED
    BY <1>1, <1>6, <2>4, <2>5, EndCounts
<1> QED
  BY <1>1, <1>3, <1>4, <1>5, <1>6

\* The requests that write.
LEMMA WritesCount ==
  ASSUME AccountInv, TriesBounded, NEW t \in Calls, CreateUser(t) \/ SetUserActiveState(t)
  PROVE  Counted
<1>1. /\ TypeOK /\ call[t].pc \in {"create", "patch"} /\ call[t].pc \notin Lookups
      /\ {"Failed", "Duplicate", "NotFound"} \subseteq Errors
      /\ {"clear", "answered"} \subseteq Points /\ <<call[t].pc, "clear">> \in Edges
      /\ call[t].user \in Answers
  BY KeyType DEF AccountInv, CreateUser, SetUserActiveState, Lookups, Errors, Points, Edges
<1>2. ASSUME NEW e \in Errors, Step(t, Failed(t, e))
      PROVE  Counted
  BY <1>1, <1>2, FailureCounts
<1>3. ASSUME NEW i \in Queries, Step(t, [Moved(t, "clear") EXCEPT !.made = i])
      PROVE  Counted
  <2>1. PICK f, st : f = Moved(t, "clear") /\ st = [f EXCEPT !.made = i]
    OBVIOUS
  <2>2. f \in CallStates /\ f.pc = "clear" /\ f.tries = call[t].tries
    BY <1>1, <2>1, MovedShape
  <2>3. st \in CallStates /\ st.pc = "clear" /\ st.tries = call[t].tries
    BY <2>1, <2>2 DEF CallStates
  <2>4. Step(t, st)
    BY <1>3, <2>1
  <2> QED
    BY <1>1, <2>3, <2>4, EdgeCounts
<1>4. ASSUME Step(t, [Moved(t, "answered") EXCEPT !.answer = "done"])
      PROVE  Counted
  <2>1. PICK f, st : f = Moved(t, "answered") /\ st = [f EXCEPT !.answer = "done"]
    OBVIOUS
  <2>2. f \in CallStates /\ f.pc = "answered"
    BY <1>1, <2>1, MovedShape
  <2>3. st \in CallStates /\ st.pc = "answered"
    BY <2>1, <2>2 DEF CallStates
  <2>4. Step(t, st)
    BY <1>4, <2>1
  <2> QED
    BY <1>1, <2>3, <2>4, EndCounts
<1>5. CASE CreateUser(t)
  <2>1. \/ \E i \in Ids : Step(t, [Moved(t, "clear") EXCEPT !.made = i])
        \/ Step(t, Failed(t, "Failed")) \/ Step(t, Failed(t, "Duplicate"))
    BY <1>5 DEF CreateUser
  <2> QED
    BY <1>1, <1>2, <1>3, <2>1 DEF Queries
<1>6. CASE SetUserActiveState(t)
  <2>1. \/ Step(t, Activated(t)) \/ Step(t, Failed(t, "Failed")) \/ Step(t, Failed(t, "NotFound"))
    BY <1>6 DEF SetUserActiveState
  <2>2. CASE Step(t, Activated(t))
    <3>1. call[t].user.id \in Queries
      BY <1>1, AnswerFacts
    <3>2. \/ Step(t, [Moved(t, "clear") EXCEPT !.made = call[t].user.id])
          \/ Step(t, [Moved(t, "answered") EXCEPT !.answer = "done"])
      BY <2>2 DEF Activated
    <3> QED
      BY <1>3, <1>4, <3>1, <3>2
  <2> QED
    BY <1>1, <1>2, <2>1, <2>2
<1> QED
  BY <1>5, <1>6

\* The steps between the requests, and the mail.
LEMMA MovesCount ==
  ASSUME AccountInv, TriesBounded, NEW t \in Calls,
         ClearCaches(t) \/ PauseOver(t) \/ SendResetPasswordEmail(t)
  PROVE  Counted
<1>1. /\ TypeOK /\ call[t].pc \in {"clear", "pause", "mail"} /\ call[t].pc \notin Lookups
      /\ {"find", "clear", "login"} \subseteq Points /\ "Failed" \in Errors
      /\ call[t].user \in Answers
  BY KeyType DEF AccountInv, ClearCaches, PauseOver, SendResetPasswordEmail, Lookups, Points,
                 Errors
<1>2. CASE ClearCaches(t) \/ PauseOver(t)
  <2>1. PICK p \in {"find", "clear"} : Step(t, Moved(t, p)) /\ <<call[t].pc, p>> \in Edges
    BY <1>2 DEF ClearCaches, PauseOver, Edges
  <2> QED
    BY <1>1, <2>1, MovedShape, EdgeCounts
<1>3. CASE SendResetPasswordEmail(t)
  <2>1. PICK f \in CallStates :
          /\ Step(t, [f EXCEPT !.mailed = call[t].user.id])
          /\ f.pc = "answered" \/ (f.pc = "login" /\ f.tries = call[t].tries)
    <3>1. /\ Moved(t, "login") \in CallStates /\ Moved(t, "login").pc = "login"
          /\ Moved(t, "login").tries = call[t].tries
      BY <1>1, MovedShape
    <3>2. Failed(t, "Failed") \in CallStates /\ Failed(t, "Failed").pc = "answered"
      BY <1>1, FailedShape
    <3> QED
      BY <1>3, <3>1, <3>2 DEF SendResetPasswordEmail
  <2>2. PICK st : st = [f EXCEPT !.mailed = call[t].user.id]
    OBVIOUS
  <2>3. st \in CallStates /\ st.pc = f.pc /\ st.tries = f.tries
    BY <1>1, <2>2, AnswerFacts DEF CallStates
  <2>4. Step(t, st) /\ <<call[t].pc, "login">> \in Edges
    BY <1>3, <2>1, <2>2 DEF SendResetPasswordEmail, Edges
  <2>5. CASE f.pc = "answered"
    BY <1>1, <2>3, <2>4, <2>5, EndCounts
  <2>6. CASE f.pc = "login" /\ f.tries = call[t].tries
    BY <1>1, <2>3, <2>4, <2>6, EdgeCounts
  <2> QED
    BY <2>1, <2>5, <2>6
<1> QED
  BY <1>2, <1>3

\* Every step counts.
LEMMA NextCounts ==
  ASSUME AccountInv, TriesBounded, [Next]_accountVars
  PROVE  Counted
<1>1. TypeOK
  BY DEF AccountInv
<1>2. CASE Environment \/ UNCHANGED accountVars
  <2>1. call' = call
    BY <1>2 DEF Environment, Drift, CacheEvict, accountVars
  <2> QED
    BY <2>1 DEF Counted, TriesBounded
<1>3. ASSUME NEW t \in Calls, Begin(t) \/ getUserCreateRequestParams(t) \/ CallStep(t)
      PROVE  Counted
  <2>1. CASE Read(t)
    BY <2>1, ReadCases, ExistCounts, FindCounts
  <2> QED
    BY <1>1, <1>3, <2>1, BeginCounts, FailuresCount, NotFoundCounts, LookupCounts, WritesCount, MovesCount
       DEF CallStep
<1> QED
  BY <1>2, <1>3 DEF Next, Terminated

(* Every step of CreateAccount, Delete and updateUserStatus comes closer   *)
(* to the answer: the lookups, the maxRetries tries of                     *)
(* GetUserByEmailWithRetry and its pauses end, whatever the queries find   *)
(* and whoever else is at work.                                            *)
THEOREM CallsDoRunOut == Spec => CallsRunOut
<1>1. Init => AccountInv /\ TriesBounded
  <2>1. Init => TriesBounded
    BY AccountBounds DEF Init, TriesBounded, IdleCall
  <2> QED
    BY <2>1, InitInv
<1>2. AccountInv /\ TriesBounded /\ [Next]_accountVars => AccountInv' /\ TriesBounded' /\ Counted
  BY NextKeeps, NextCounts DEF Counted
<1>3. Counted => [\A t \in Calls :
                    call'[t] # call[t] => Remaining(t)' \in 0 .. Remaining(t) - 1]_accountVars
  BY DEF Counted
<1> QED
  BY <1>1, <1>2, <1>3, PTL DEF Spec, CallsRunOut

-----------------------------------------------------------------------------
(* What a call writes, and why.                                            *)

(* A call about to activate the user it found was told, in its own time,   *)
(* that the user had the address and was inactive.                         *)
PatchNamed(t) ==
  call[t].pc = "patch" /\ req[t].op = "CreateAccount" =>
    ~call[t].user.active /\ (call[t].stale \/ <<ByEmail, call[t].user>> \in seen[t])

\* Only the second lookup leads to an activation.
LEMMA AgainNames ==
  ASSUME AccountInv, NEW t \in Calls, Read(t), call[t].pc = "again"
  PROVE  PatchNamed(t)'
<1>0. PICK a \in Answers : a = call[t].got.ans
  BY ReadCases
<1>1. /\ Step(t, ActivateIfInactive(t)) /\ TypeOK /\ call \in [Calls -> CallStates]
      /\ UNCHANGED <<users, req, seen, met, drift>> /\ a.active \in BOOLEAN
      /\ ~call[t].stale => <<ByEmail, a>> \in seen[t]
      /\ "NotFound" \in Errors /\ {"clear", "patch"} \subseteq Points
  BY <1>0, ReadCases, AnswerFacts DEF CallInv, InOrder, TrueEntry, TypeOK, Errors, Points
<1>2. CASE a = NotFound
  <2>1. PICK st : st = Failed(t, "NotFound")
    OBVIOUS
  <2>2. st.pc = "answered" /\ call'[t] = st
    BY <1>0, <1>1, <1>2, <2>1, FailedShape DEF ActivateIfInactive, Step
  <2> QED
    BY <2>2 DEF PatchNamed
<1>3. CASE a # NotFound /\ a.active
  <2>1. PICK st : st = Moved(t, "clear")
    OBVIOUS
  <2>2. st.pc = "clear" /\ call'[t] = st
    BY <1>0, <1>1, <1>3, <2>1, MovedShape DEF ActivateIfInactive, Step
  <2> QED
    BY <2>2 DEF PatchNamed
<1>4. CASE a # NotFound /\ ~a.active
  <2>1. PICK f, st : f = Moved(t, "patch") /\ st = [f EXCEPT !.user = a]
    OBVIOUS
  <2>2. f \in CallStates /\ f.stale = call[t].stale
    BY <1>1, <2>1, MovedShape
  <2>3. st.user = a /\ st.stale = call[t].stale
    BY <2>1, <2>2 DEF CallStates
  <2>4. call'[t] = st
    BY <1>0, <1>1, <1>4, <2>1 DEF ActivateIfInactive, Step
  <2> QED
    BY <1>1, <1>4, <2>3, <2>4 DEF PatchNamed
<1> QED
  BY <1>2, <1>3, <1>4

\* No other step of a handler does.
LEMMA ElsewhereNames ==
  ASSUME AccountInv, NEW t \in Calls, getUserCreateRequestParams(t) \/ CallStep(t),
         ~(Read(t) /\ call[t].pc = "again")
  PROVE  call'[t].pc # "patch"
<1>1. TypeOK /\ call \in [Calls -> CallStates]
  BY DEF AccountInv, TypeOK
<1>2. CASE getUserCreateRequestParams(t) \/ QueryFails(t) \/ RequestFails(t)
  <2>1. PICK st : st = Failed(t, "Failed")
    OBVIOUS
  <2>2. call'[t] = st /\ st.pc = "answered"
    BY <1>1, <1>2, <2>1, FailedShape
       DEF getUserCreateRequestParams, QueryFails, RequestFails, Step, Errors
  <2> QED
    BY <2>2
<1>3. CASE CacheHit(t) \/ query(t) \/ QueryNotFound(t)
  BY <1>3, LookupKeeps, NotFoundKeeps DEF Querying
<1>4. CASE Read(t)
  BY <1>4, ReadCases, ExistKeeps, FindKeeps, LoginKeeps
<1>5. CASE CreateUser(t)
  BY <1>5, CreateKeeps
<1>6. CASE SetUserActiveState(t)
  <2>1. CASE req[t].op = "CreateAccount"
    BY <1>6, <2>1, PatchKeeps
  <2>2. CASE req[t].op # "CreateAccount"
    <3>1. \/ Step(t, [Moved(t, "answered") EXCEPT !.answer = "done"])
          \/ Step(t, Failed(t, "Failed")) \/ Step(t, Failed(t, "NotFound"))
      BY <1>6, <2>2 DEF SetUserActiveState, Activated
    <3>2. /\ Moved(t, "answered") \in CallStates /\ Moved(t, "answered").pc = "answered"
          /\ Failed(t, "Failed").pc = "answered" /\ Failed(t, "NotFound").pc = "answered"
      BY <1>1, MovedShape, FailedShape DEF Points, Errors
    <3>3. [Moved(t, "answered") EXCEPT !.answer = "done"].pc = "answered"
      BY <3>2 DEF CallStates
    <3>4. PICK st : Step(t, st) /\ st.pc = "answered"
      BY <3>1, <3>2, <3>3
    <3>5. call'[t] = st
      BY <1>1, <3>4 DEF Step
    <3> QED
      BY <3>4, <3>5
  <2> QED
    BY <2>1, <2>2
<1>7. CASE ClearCaches(t) \/ PauseOver(t)
  <2>1. PICK p \in {"find", "clear"} : Step(t, Moved(t, p)) /\ p \in Points
    BY <1>7 DEF ClearCaches, PauseOver, Points
  <2>2. PICK st : st = Moved(t, p)
    OBVIOUS
  <2>3. call'[t] = st /\ st.pc = p
    BY <1>1, <2>1, <2>2, MovedShape DEF Step
  <2> QED
    BY <2>3
<1>8. CASE SendResetPasswordEmail(t)
  <2>1. /\ Moved(t, "login") \in CallStates /\ Moved(t, "login").pc = "login"
        /\ Failed(t, "Failed") \in CallStates /\ Failed(t, "Failed").pc = "answered"
    BY <1>1, MovedShape, FailedShape DEF Points, Errors
  <2>2. PICK f \in CallStates : /\ Step(t, [f EXCEPT !.mailed = call[t].user.id])
                                /\ f.pc \in {"login", "answered"}
    BY <1>8, <2>1 DEF SendResetPasswordEmail
  <2>3. PICK st : st = [f EXCEPT !.mailed = call[t].user.id]
    OBVIOUS
  <2>4. call'[t] = st /\ st.pc = f.pc
    BY <1>1, <2>2, <2>3 DEF Step, CallStates
  <2> QED
    BY <2>2, <2>4
<1> QED
  BY <1>2, <1>3, <1>4, <1>5, <1>6, <1>7, <1>8 DEF CallStep

\* Every step keeps it.
LEMMA NamesKept ==
  ASSUME AccountInv, [Next]_accountVars, \A t \in Calls : PatchNamed(t), NEW u \in Calls
  PROVE  PatchNamed(u)'
<1>0. TypeOK
  BY DEF AccountInv
<1>1. ASSUME call'[u] = call[u], req' = req, seen[u] \subseteq seen'[u]
      PROVE  PatchNamed(u)'
  BY <1>1 DEF PatchNamed
<1>2. CASE Environment \/ UNCHANGED accountVars
  <2>1. call' = call /\ req' = req
    BY <1>2 DEF Environment, Drift, CacheEvict, accountVars
  <2>2. seen[u] \subseteq seen'[u]
    <3>1. CASE \E i \in Ids : Drift(i)
      <4>1. PICK i \in Ids, w \in UserRecords : w.exists /\ Becomes(i, w)
        BY <1>0, <3>1, DriftShape
      <4> QED
        BY <1>0, <4>1, BecomesGrows
    <3>2. CASE seen' = seen
      BY <3>2
    <3> QED
      BY <1>2, <3>1, <3>2 DEF Environment, CacheEvict, accountVars
  <2> QED
    BY <1>1, <2>1, <2>2
<1>3. ASSUME NEW t \in Calls, Begin(t)
      PROVE  PatchNamed(u)'
  <2>1. CASE u # t
    BY <1>1, <1>3, <2>1, BeginShape DEF Begin
  <2>2. CASE u = t
    BY <1>3, <2>2, BeginShape DEF Begin, PatchNamed
  <2> QED
    BY <2>1, <2>2
<1>4. ASSUME NEW t \in Calls, getUserCreateRequestParams(t) \/ CallStep(t)
      PROVE  PatchNamed(u)'
  <2>1. Work(t)
    BY <1>4, FailuresKeep, NotFoundKeeps, PauseKeeps, ClearKeeps, MailKeeps, LookupKeeps, ReadKeeps,
       CreateKeeps, PatchKeeps DEF CallStep
  <2>2. CASE u # t
    BY <1>1, <2>1, <2>2, WorkGrows DEF Work
  <2>3. CASE u = t
    BY <1>4, <2>3, AgainNames, ElsewhereNames DEF PatchNamed
  <2> QED
    BY <2>2, <2>3
<1> QED
  BY <1>2, <1>3, <1>4 DEF Next, Terminated

\* What a step of call t has a reason to do to user i.
Founded(t, i) ==
  IF req[t].op # "CreateAccount"
  THEN i = req[t].id /\ users'[i] = [users[i] EXCEPT !.active = req[t].active]
  ELSE \/ /\ ~users[i].exists
          /\ call[t].stale \/ call[t].denied \/ <<ByEmail, NotFound>> \in seen[t]
       \/ /\ users'[i] = [users[i] EXCEPT !.active = TRUE]
          /\ \/ call[t].stale
             \/ \E a \in Answers : <<ByEmail, a>> \in seen[t] /\ a.id = i /\ ~a.active

\* A creation makes a user of an Id that nobody had, and changes no other.
LEMMA CreateFounded ==
  ASSUME AccountInv, NEW t \in Calls, CreateUser(t), NEW i \in Ids, users'[i] # users[i]
  PROVE  Founded(t, i)
<1>1. /\ call[t].pc = "create" /\ req[t].op = "CreateAccount" /\ users \in [Ids -> UserRecords]
      /\ call[t].stale \/ call[t].denied \/ <<ByEmail, NotFound>> \in seen[t]
  BY DEF AccountInv, TypeOK, CallInv, InOrder, Says, CreateUser, Running
<1>2. PICK j \in Ids, found \in BOOLEAN : ~users[j].exists /\ Becomes(j, NewUser(found))
  BY DEF CreateUser
<1>3. i = j
  BY <1>1, <1>2 DEF Becomes
<1> QED
  BY <1>1, <1>2, <1>3 DEF Founded

\* SetUserActiveState changes the status of its target, and nothing else.
LEMMA PatchFounded ==
  ASSUME AccountInv, NEW t \in Calls, PatchNamed(t), SetUserActiveState(t),
         NEW i \in Ids, users'[i] # users[i]
  PROVE  Founded(t, i)
<1>1. /\ call[t].pc = "patch" /\ users \in [Ids -> UserRecords] /\ req[t] \in Requests
      /\ call[t].user \in Answers
  BY KeyType DEF AccountInv, TypeOK, SetUserActiveState
<1>2. users' = [users EXCEPT ![Target(t)] = [users[Target(t)] EXCEPT !.active = req[t].active]]
  BY DEF SetUserActiveState, Becomes, setOneValue
<1>3. PICK k, w : k = Target(t) /\ w = [users[Target(t)] EXCEPT !.active = req[t].active]
  OBVIOUS
<1>4. users' = [users EXCEPT ![k] = w]
  BY <1>2, <1>3
<1>5. i = k /\ users'[i] = w
  BY <1>1, <1>4
<1>6. i = Target(t) /\ users'[i] = [users[i] EXCEPT !.active = req[t].active]
  BY <1>3, <1>5
<1>7. CASE req[t].op # "CreateAccount"
  BY <1>6, <1>7 DEF Founded, Target
<1>8. CASE req[t].op = "CreateAccount"
  <2>1. req[t].active = TRUE /\ i = call[t].user.id
    BY <1>1, <1>6, <1>8 DEF Requests, Target
  <2>2. users'[i] = [users[i] EXCEPT !.active = TRUE]
    BY <1>6, <2>1
  <2>3. ~call[t].user.active /\ (call[t].stale \/ <<ByEmail, call[t].user>> \in seen[t])
    BY <1>1, <1>8 DEF PatchNamed
  <2> QED
    BY <1>1, <1>8, <2>1, <2>2, <2>3 DEF Founded
<1> QED
  BY <1>7, <1>8

\* No other step of a call changes a user.
LEMMA StepFounded ==
  ASSUME AccountInv, \A u \in Calls : PatchNamed(u), [Next]_accountVars,
         NEW t \in Calls, call'[t] # call[t], NEW i \in Ids, users'[i] # users[i]
  PROVE  Founded(t, i)
<1>1. PICK u \in Calls : Begin(u) \/ getUserCreateRequestParams(u) \/ CallStep(u)
  BY DEF Next, Terminated, accountVars, Environment, Drift, CacheEvict
<1>2. CreateUser(u) \/ SetUserActiveState(u)
  BY <1>1 DEF CallStep, Begin, getUserCreateRequestParams, CacheHit, query, QueryFails,
              QueryNotFound, Read, ClearCaches, PauseOver, SendResetPasswordEmail, RequestFails
<1>3. Work(u)
  BY <1>2, CreateKeeps, PatchKeeps
<1>4. u = t
  BY <1>3, WorkGrows
<1> QED
  BY <1>2, <1>4, CreateFounded, PatchFounded

(* CreateAccount makes a user only when the address was nobody's, or the   *)
(* lookup was answered with 404, and activates one only if it had the      *)
(* address and was inactive, at some moment of the call, unless a lookup   *)
(* was answered from before; Delete and updateUserStatus change the status *)
(* of their own user, and no call changes anything else (CreateUser,       *)
(* SetUserActiveState).                                                    *)
THEOREM WritesAreFounded == Spec => WritesFounded
<1> DEFINE Inv == AccountInv /\ \A t \in Calls : PatchNamed(t)
<1>1. Init => Inv
  <2>1. Init => \A t \in Calls : PatchNamed(t)
    BY DEF Init, PatchNamed, IdleCall
  <2> QED
    BY <2>1, InitInv
<1>2. Inv /\ [Next]_accountVars => Inv'
  BY NextKeeps, NamesKept
<1>3. Inv /\ [Next]_accountVars =>
        [\A t \in Calls, i \in Ids :
           call'[t] # call[t] /\ users'[i] # users[i] =>
             IF req[t].op # "CreateAccount"
             THEN i = req[t].id /\ users'[i] = [users[i] EXCEPT !.active = req[t].active]
             ELSE \/ /\ ~users[i].exists
                     /\ call[t].stale \/ call[t].denied \/ <<ByEmail, NotFound>> \in seen[t]
                  \/ /\ users'[i] = [users[i] EXCEPT !.active = TRUE]
                     /\ \/ call[t].stale
                        \/ \E a \in Answers : /\ <<ByEmail, a>> \in seen[t]
                                             /\ a.id = i /\ ~a.active]_accountVars
  BY StepFounded DEF Founded
<1> HIDE DEF Inv
<1> QED
  BY <1>1, <1>2, <1>3, PTL DEF Spec, WritesFounded
=============================================================================
