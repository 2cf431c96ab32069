------------------------- MODULE AccountProvisioning ------------------------
(***************************************************************************)
(* CreateAccount and Delete of the user builder (users.go), and the action *)
(* updateUserStatus (actions.go).  All calls of CreateAccount here ask for *)
(* an account with one and the same e-mail address.  CreateAccount is a    *)
(* chain of requests that ends at the first failure: is there a user with  *)
(* the address; if so read it again and activate it if need be, otherwise  *)
(* create it; find it, trying up to three times and dropping all cached    *)
(* answers before each try; mail it a link to reset the password; ask if   *)
(* it is frozen.  The SDK does not run a failed call again, but its caller *)
(* may: that is another call here.                                         *)
(*                                                                         *)
(* Salesforce allows many users with one Email but one per Username, and   *)
(* CreateUser makes the address both.  It may take a while for a new user  *)
(* to be found by a query.  Users are never deleted.                       *)
(***************************************************************************)
EXTENDS Integers

CONSTANTS
  Calls,        \* the calls, each made once
  MaxUsers,     \* bound on the users that matter for the address
  maxRetries,   \* of GetUserByEmailWithRetry: 3
  MaxDrift      \* bound on the changes made in the org by anyone else

ASSUME AccountBounds ==
  MaxUsers \in Nat \ {0} /\ maxRetries \in Nat \ {0} /\ MaxDrift \in Nat

VARIABLES
  users,    \* users[i]: the user with Id i, in Salesforce
  cache,    \* cache[k]: the cached answer to query k, {} if none
  req,      \* req[t]: what call t asks for
  call,     \* call[t]: where the handler of t is
  seen,     \* history: the answers to every query while t ran
  met,      \* history: another call ran at the same time as t
  drift     \* number of changes made by anyone else

accountVars == <<users, cache, req, call, seen, met, drift>>

-----------------------------------------------------------------------------
Ids == 1 .. MaxUsers

\* The query by address, and for each user the one for its UserLogin.
ByEmail == 0
Queries == {ByEmail} \cup Ids

(* named: the Username is the address; found: the Email is the address,    *)
(* the user has a type, and queries find it.                               *)
UserRecords == [exists : BOOLEAN, named : BOOLEAN, found : BOOLEAN,
                active : BOOLEAN, frozen : BOOLEAN]
NoUser == [exists |-> FALSE, named |-> FALSE, found |-> FALSE,
           active |-> FALSE, frozen |-> FALSE]

\* What an answer tells about a user.
NotFound == [id |-> 0, active |-> FALSE, frozen |-> FALSE]
Answers == {NotFound} \cup [id : Ids, active : BOOLEAN, frozen : BOOLEAN]
Snapshot(i) == [id |-> i, active |-> users[i].active, frozen |-> users[i].frozen]

\* The records come in the order of their Ids, and the first one is taken.
First(i) == users[i].found /\ \A j \in 1 .. i - 1 : ~users[j].found

GetUserByEmail ==
  IF \E i \in Ids : First(i) THEN Snapshot(CHOOSE i \in Ids : First(i)) ELSE NotFound

\* Salesforce's answer to query k.
Answer(k) == IF k = ByEmail THEN GetUserByEmail ELSE Snapshot(k)

Now == {<<k, Answer(k)>> : k \in Queries}

(* A cached answer.  since, a history: the calls that already ran when     *)
(* Salesforce gave it.                                                     *)
Entries == [ans : Answers, since : SUBSET Calls]

\* Delete is what updateUserStatus is with is_active false.
Requests == {r \in [op : {"CreateAccount", "updateUserStatus"},
                    id : Queries, active : BOOLEAN] :
               /\ r.op = "CreateAccount" <=> r.id = ByEmail
               /\ r.op = "CreateAccount" => r.active}

(* "exist" is UserExist, "again" the second lookup, "create" CreateUser,   *)
(* "patch" SetUserActiveState, "clear" and "find" one try of               *)
(* GetUserByEmailWithRetry, "pause" the time between two tries, "mail"     *)
(* SendResetPasswordEmail, "login" GetUserLogin.                           *)
Points == {"idle", "exist", "again", "create", "patch", "clear", "find", "pause",
           "mail", "login", "answered"}

Errors == {"none", "Failed", "Duplicate", "NotFound"}

(* Three histories.  made: the user the call created or activated; stale:  *)
(* a lookup was answered with what is older than the call; denied: one was *)
(* answered with the HTTP status 404.                                      *)
CallStates == [pc : Points, phase : {"look", "store"}, got : Entries,
               user : Answers, tries : Nat, mailed : Queries, enabled : BOOLEAN,
               made : Queries, stale : BOOLEAN, denied : BOOLEAN,
               answer : {"none", "done", "error"}, err : Errors]

NoEntry == [ans |-> NotFound, since |-> {}]

IdleCall == [pc |-> "idle", phase |-> "look", got |-> NoEntry,
             user |-> NotFound, tries |-> 0, mailed |-> 0, enabled |-> FALSE,
             made |-> 0, stale |-> FALSE, denied |-> FALSE,
             answer |-> "none", err |-> "none"]

Running(t) == call[t].pc \notin {"idle", "answered"}

\* Every variable has its type.
TypeOK ==
  /\ users \in [Ids -> UserRecords]
  /\ cache \in [Queries -> SUBSET Entries]
  /\ req \in [Calls -> Requests]
  /\ call \in [Calls -> CallStates]
  /\ seen \in [Calls -> SUBSET (Queries \X Answers)]
  /\ met \in [Calls -> BOOLEAN]
  /\ drift \in Nat

(* The process just started.  At most one user has the Username, and a     *)
(* user of whom there is nothing to tell does not exist.                   *)
Init ==
  /\ users \in {f \in [Ids -> UserRecords] :
                  /\ f[MaxUsers] = NoUser
                  /\ \A i \in Ids : ~f[i].exists => f[i] = NoUser
                  /\ \A i, j \in Ids : f[i].named /\ f[j].named => i = j}
  /\ cache = [k \in Queries |-> {}]
  /\ req \in [Calls -> Requests]
  /\ call = [t \in Calls |-> IdleCall]
  /\ seen = [t \in Calls |-> {}]
  /\ met = [t \in Calls |-> FALSE]
  /\ drift = 0

-----------------------------------------------------------------------------
(* The org and the cache.                                                  *)

\* User i becomes u, and the calls at work see it.
Becomes(i, u) ==
  /\ users' = [users EXCEPT ![i] = u]
  /\ seen' = [t \in Calls |-> IF Running(t) THEN seen[t] \cup Now' ELSE seen[t]]

(* Someone else activates, deactivates, freezes or unfreezes user i, or    *)
(* changes its Email, or the queries begin to find it.                     *)
Drift(i) ==
  /\ users[i].exists
  /\ drift < MaxDrift
  /\ drift' = drift + 1
  /\ \/ Becomes(i, [users[i] EXCEPT !.active = ~@])
     \/ Becomes(i, [users[i] EXCEPT !.frozen = ~@])
     \/ Becomes(i, [users[i] EXCEPT !.found = ~@])
  /\ UNCHANGED <<cache, req, call, met>>

CacheEvict(k) ==
  /\ cache[k] # {}
  /\ cache' = [cache EXCEPT ![k] = {}]
  /\ UNCHANGED <<users, req, call, seen, met, drift>>

-----------------------------------------------------------------------------
(* A call begins and ends.                                                 *)

Begin(t) ==
  /\ call[t].pc = "idle"
  /\ call' = [call EXCEPT ![t].pc = IF req[t].op = "CreateAccount" THEN "exist" ELSE "patch"]
  /\ seen' = [seen EXCEPT ![t] = Now]
  /\ met' = [u \in Calls |->
       \/ met[u]
       \/ u = t /\ \E v \in Calls : Running(v)
       \/ u # t /\ Running(u)]
  /\ UNCHANGED <<users, cache, req, drift>>

\* The handler goes on; the answer it read is not looked at again.
Moved(t, point) == [call[t] EXCEPT !.pc = point, !.phase = "look", !.got = NoEntry]

\* It returns an error, and the caller gets nothing else.
Failed(t, e) ==
  [Moved(t, "answered") EXCEPT !.user = NotFound, !.tries = 0, !.made = 0,
                               !.answer = "error", !.err = e]
Step(t, state) == call' = [call EXCEPT ![t] = state]

\* A parameter is missing or of a kind that is not supported.
getUserCreateRequestParams(t) ==
  /\ call[t].pc = "idle"
  /\ Step(t, Failed(t, "Failed"))
  /\ UNCHANGED <<users, cache, req, seen, met, drift>>

-----------------------------------------------------------------------------
(* A query: the answer is the cached one, or Salesforce's, and is stored   *)
(* in a step of its own.  A miss and the request that follows are one step *)
(* here: what others store in between, the request does not look at.       *)

KeyOf(t) == IF call[t].pc = "login" THEN call[t].user.id ELSE ByEmail

Querying(t, phase) ==
  call[t].pc \in {"exist", "again", "find", "login"} /\ call[t].phase = phase

CacheHit(t) ==
  /\ Querying(t, "look")
  /\ \E e \in cache[KeyOf(t)] :
       Step(t, [call[t] EXCEPT !.phase = "store", !.got = e,
                               !.stale = @ \/ t \notin e.since])
  /\ UNCHANGED <<users, cache, req, seen, met, drift>>

query(t) ==
  /\ Querying(t, "look")
  /\ cache[KeyOf(t)] = {}
  /\ Step(t, [call[t] EXCEPT !.phase = "store",
                !.got = [ans |-> Answer(KeyOf(t)), since |-> {u \in Calls : Running(u)}]])
  /\ UNCHANGED <<users, cache, req, seen, met, drift>>

\* Variant: any failure of the first lookup means that there is no user.
QueryFailsAsMissing(t) ==
  /\ Querying(t, "look")
  /\ Step(t, IF call[t].pc = "exist" THEN Moved(t, "create") ELSE Failed(t, "Failed"))
  /\ UNCHANGED <<users, cache, req, seen, met, drift>>

\* It fails in any way but with the status 404.
QueryFails(t) ==
  /\ Querying(t, "look")
  /\ Step(t, Failed(t, "Failed"))
  /\ UNCHANGED <<users, cache, req, seen, met, drift>>

\* Variant: the tries are not counted.
TryForEver(t) == Moved(t, "pause")

\* The user is not there: it is looked for again, or given up.
TryAgain(t) ==
  IF call[t].tries + 1 < maxRetries THEN [Moved(t, "pause") EXCEPT !.tries = @ + 1]
  ELSE Failed(t, "NotFound")

Denied(state) == [state EXCEPT !.denied = TRUE]

(* The query itself is answered with 404, which the SDK makes an error of  *)
(* the code NotFound and does not cache.  That is also the code for "no    *)
(* such user", so UserExist says that there is none, and                   *)
(* GetUserByEmailWithRetry tries again; the others return the error.       *)
QueryNotFound(t) ==
  /\ Querying(t, "look")
  /\ cache[KeyOf(t)] = {}
  /\ \/ call[t].pc = "exist" /\ Step(t, Denied(Moved(t, "create")))
     \/ call[t].pc = "find" /\ Step(t, Denied(TryAgain(t)))
     \/ call[t].pc \in {"again", "login"} /\ Step(t, Denied(Failed(t, "NotFound")))
  /\ UNCHANGED <<users, cache, req, seen, met, drift>>

UserExist(t) == Moved(t, IF call[t].got.ans = NotFound THEN "create" ELSE "again")

\* Variant: a user that exists is taken as it is.
SkipExisting(t) ==
  IF call[t].got.ans = NotFound THEN Failed(t, "NotFound") ELSE Moved(t, "clear")

\* The user that exists is activated, or skipped.
ActivateIfInactive(t) ==
  CASE call[t].got.ans = NotFound -> Failed(t, "NotFound")
    [] call[t].got.ans # NotFound /\ call[t].got.ans.active -> Moved(t, "clear")
    [] call[t].got.ans # NotFound /\ ~call[t].got.ans.active ->
         [Moved(t, "patch") EXCEPT !.user = call[t].got.ans]

GetUserByEmailWithRetry(t) ==
  IF call[t].got.ans # NotFound THEN [Moved(t, "mail") EXCEPT !.user = call[t].got.ans]
  ELSE TryAgain(t)

\* Variant: UserLogin is not looked at.
activeIsEnabled(t) ==
  [Moved(t, "answered") EXCEPT !.answer = "done", !.enabled = call[t].user.active]

userResource(t) ==
  [Moved(t, "answered") EXCEPT
     !.answer = "done", !.enabled = call[t].user.active /\ ~call[t].got.ans.frozen]

\* The answer is stored, and the handler goes on with it.
Read(t) ==
  /\ Querying(t, "store")
  /\ cache' = [cache EXCEPT ![KeyOf(t)] = {call[t].got}]
  /\ Step(t, CASE call[t].pc = "exist" -> UserExist(t)
               [] call[t].pc = "again" -> ActivateIfInactive(t)
               [] call[t].pc = "find" -> GetUserByEmailWithRetry(t)
               [] call[t].pc = "login" -> userResource(t))
  /\ UNCHANGED <<users, req, seen, met, drift>>

-----------------------------------------------------------------------------
(* The other requests.  Each may fail without effect, and those that write *)
(* may fail with it, when the reply is lost.                               *)

\* A request that is not applied, or a context that ends.
RequestFails(t) ==
  /\ call[t].pc \in {"create", "patch", "clear", "pause", "mail"}
  /\ Step(t, Failed(t, "Failed"))
  /\ UNCHANGED <<users, cache, req, seen, met, drift>>

NewUser(found) == [exists |-> TRUE, named |-> TRUE, found |-> found,
                   active |-> TRUE, frozen |-> FALSE]

\* Salesforce refuses a second user with the Username.
CreateUser(t) ==
  /\ call[t].pc = "create"
  /\ \/ /\ \A i \in Ids : ~users[i].named
        /\ \E i \in Ids, found \in BOOLEAN :
             /\ ~users[i].exists
             /\ \A j \in 1 .. i - 1 : users[j].exists
             /\ Becomes(i, NewUser(found))
             /\ \/ Step(t, [Moved(t, "clear") EXCEPT !.made = i])
                \/ Step(t, Failed(t, "Failed"))
     \/ /\ \E i \in Ids : users[i].named
        /\ Step(t, Failed(t, "Duplicate"))
        /\ UNCHANGED <<users, seen>>
  /\ UNCHANGED <<cache, req, met, drift>>

\* The user SetUserActiveState is called for.
Target(t) == IF req[t].op = "CreateAccount" THEN call[t].user.id ELSE req[t].id

\* Variant: the new state is sent the wrong way round.
toggled(t) == [users[Target(t)] EXCEPT !.active = ~req[t].active]

setOneValue(t) == [users[Target(t)] EXCEPT !.active = req[t].active]

Activated(t) ==
  IF req[t].op = "CreateAccount" THEN [Moved(t, "clear") EXCEPT !.made = call[t].user.id]
  ELSE [Moved(t, "answered") EXCEPT !.answer = "done"]

\* getOneUser complains of a user that does not exist.
SetUserActiveState(t) ==
  /\ call[t].pc = "patch"
  /\ \/ /\ users[Target(t)].exists
        /\ Becomes(Target(t), setOneValue(t))
        /\ Step(t, Activated(t)) \/ Step(t, Failed(t, "Failed"))
     \/ /\ ~users[Target(t)].exists
        /\ Step(t, Failed(t, "NotFound"))
        /\ UNCHANGED <<users, seen>>
  /\ UNCHANGED <<cache, req, met, drift>>

\* Variant: the cached answers are kept.
KeepCaches(t) ==
  /\ call[t].pc = "clear"
  /\ Step(t, Moved(t, "find"))
  /\ UNCHANGED <<users, cache, req, seen, met, drift>>

ClearCaches(t) ==
  /\ call[t].pc = "clear"
  /\ cache' = [k \in Queries |-> {}]
  /\ Step(t, Moved(t, "find"))
  /\ UNCHANGED <<users, req, seen, met, drift>>

PauseOver(t) ==
  /\ call[t].pc = "pause"
  /\ Step(t, Moved(t, "clear"))
  /\ UNCHANGED <<users, cache, req, seen, met, drift>>

SendResetPasswordEmail(t) ==
  /\ call[t].pc = "mail"
  /\ \/ Step(t, [Moved(t, "login") EXCEPT !.mailed = call[t].user.id])
     \/ Step(t, [Failed(t, "Failed") EXCEPT !.mailed = call[t].user.id])
  /\ UNCHANGED <<users, cache, req, seen, met, drift>>

-----------------------------------------------------------------------------
CallStep(t) ==
  \/ CacheHit(t) \/ query(t) \/ QueryFails(t) \/ QueryNotFound(t) \/ Read(t)
  \/ CreateUser(t) \/ SetUserActiveState(t) \/ ClearCaches(t) \/ PauseOver(t)
  \/ SendResetPasswordEmail(t) \/ RequestFails(t)

Environment == (\E i \in Ids : Drift(i)) \/ \E k \in Queries : CacheEvict(k)

\* Every call is answered: the process may stop there.
Terminated == (\A t \in Calls : call[t].pc = "answered") /\ UNCHANGED accountVars

Next ==
  \/ Environment
  \/ \E t \in Calls : Begin(t) \/ getUserCreateRequestParams(t) \/ CallStep(t)
  \/ Terminated

Spec == Init /\ [][Next]_accountVars

-----------------------------------------------------------------------------
(* The properties.                                                         *)

\* The user query k is about was active at some moment of call t.
SawActive(t, k) == \E a \in Answers : <<k, a>> \in seen[t] /\ a.active

\* The user with the address was, or the one the call created or activated.
SawUsable(t) == SawActive(t, ByEmail) \/ (call[t].made # 0 /\ SawActive(t, call[t].made))

(* A user is created only after the address was nobody's at some moment of *)
(* the call, or UserExist took a 404 of the query itself for that, or what *)
(* it read was older than the call: no other failure of the lookup leads   *)
(* to a second user of the address.                                        *)
CreateWitnessed ==
  \A t \in Calls :
    call[t].pc = "create" /\ ~call[t].stale =>
      call[t].denied \/ <<ByEmail, NotFound>> \in seen[t]

(* The link to reset a password goes to a user who had the address while   *)
(* the call ran, whatever was cached before: only a call at the same time  *)
(* can put an older answer in its way.                                     *)
MailWitnessed ==
  \A t \in Calls :
    call[t].mailed # 0 /\ ~met[t] =>
      \E a \in Answers : <<ByEmail, a>> \in seen[t] /\ a.id = call[t].mailed

(* CreateAccount succeeds only with the mail sent to the user it reports,  *)
(* and with the user of the address, or the one it created or activated,   *)
(* active at some moment of the call, unless it skipped the activation on  *)
(* an answer older than the call.                                          *)
AccountUsable ==
  \A t \in Calls :
    call[t].answer = "done" /\ req[t].op = "CreateAccount" =>
      /\ call[t].mailed = call[t].user.id /\ call[t].mailed # 0
      /\ call[t].stale \/ SawUsable(t)

(* An account is reported enabled only if its user was active, and was not *)
(* frozen, while the call ran.                                             *)
ReportTrue ==
  \A t \in Calls :
    call[t].enabled /\ ~met[t] =>
      /\ \E a \in Answers :
           <<ByEmail, a>> \in seen[t] /\ a.id = call[t].user.id /\ a.active
      /\ \E a \in Answers : <<call[t].user.id, a>> \in seen[t] /\ ~a.frozen

(* Delete and updateUserStatus succeed only if the user was as they wanted *)
(* it at some moment of the call.                                          *)
StatusWitnessed ==
  \A t \in Calls :
    call[t].answer = "done" /\ req[t].op # "CreateAccount" =>
      \E a \in Answers : <<req[t].id, a>> \in seen[t] /\ a.active = req[t].active

(* A call made again after one that failed half way completes: alone, with *)
(* nobody else changing the org, no query answered with 404 and no user    *)
(* of the name that queries miss, it does not fail over the user it finds  *)
(* or made itself.  One case is left: UserExist is answered with the "no   *)
(* user" that an earlier call left in the cache.  Whatever the cache holds *)
(* the user is found in the end.                                           *)
RepeatCompletes ==
  \A t \in Calls :
    /\ req[t].op = "CreateAccount" /\ ~met[t] /\ drift = 0 /\ ~call[t].denied
    /\ \A i \in Ids : users[i].named => users[i].found
    => call[t].err # "NotFound" /\ (call[t].err = "Duplicate" => call[t].stale)

(* CreateAccount changes the org only with a reason of its own time: a new *)
(* user when the address was nobody's or the lookup was answered with 404, *)
(* and a user who had the address and was inactive, of whom it changes     *)
(* nothing but that; unless it goes by an answer older than the call.  A   *)
(* status call changes the status of its own user alone.                   *)
WritesFounded ==
  [][\A t \in Calls, i \in Ids :
       call'[t] # call[t] /\ users'[i] # users[i] =>
         IF req[t].op # "CreateAccount"
         THEN i = req[t].id /\ users'[i] = [users[i] EXCEPT !.active = req[t].active]
         ELSE \/ /\ ~users[i].exists
                 /\ call[t].stale \/ call[t].denied \/ <<ByEmail, NotFound>> \in seen[t]
              \/ /\ users'[i] = [users[i] EXCEPT !.active = TRUE]
                 /\ \/ call[t].stale
                    \/ \E a \in Answers : /\ <<ByEmail, a>> \in seen[t]
                                         /\ a.id = i /\ ~a.active]_accountVars

-----------------------------------------------------------------------------
(* Why a call ends.                                                        *)

\* A call that still looks for its user has a try left.
TriesBounded ==
  \A t \in Calls :
    call[t].pc \notin {"mail", "login", "answered"} => call[t].tries < maxRetries

\* How far from the answer a point is, in the last try.
Stage == [idle |-> 8, exist |-> 6, again |-> 4, create |-> 3, patch |-> 3,
          pause |-> 3, clear |-> 2, find |-> 0, mail |-> 3, login |-> 1]

(* A bound on the steps call t still makes: a query takes two, and a try   *)
(* of GetUserByEmailWithRetry four.                                        *)
Remaining(t) ==
  IF call[t].pc = "answered" THEN 0
  ELSE Stage[call[t].pc] + (IF Querying(t, "look") THEN 1 ELSE 0)
         + IF call[t].pc \in {"mail", "login"} THEN 0
           ELSE 4 * (maxRetries - call[t].tries)

(* Every step of CreateAccount, Delete and updateUserStatus comes closer   *)
(* to the answer, whatever the queries find and whoever else is at work: a *)
(* user that is never found is not looked for without end.                 *)
CallsRunOut ==
  [][\A t \in Calls :
       call'[t] # call[t] => Remaining(t)' \in 0 .. Remaining(t) - 1]_accountVars
=============================================================================
