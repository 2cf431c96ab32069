---------------------------- MODULE ClientSession ---------------------------
(***************************************************************************)
(* The session all calls of the connector share: the fields client,        *)
(* salesforceTransport and initialized of SalesforceClient, set by         *)
(* Initialize without a lock, the rateLimit field of the transport, which  *)
(* every RoundTrip clears and sets.                                        *)
(*                                                                         *)
(* A call here is one request to Salesforce: it runs Initialize, sends the *)
(* request through c.client, and reads c.salesforceTransport.rateLimit.    *)
(* A login is named after the call whose Initialize made it.               *)
(***************************************************************************)
EXTENDS Integers

CONSTANTS
  Calls,          \* requests, each made once
  Nil,            \* the nil pointer
  AtLogin         \* the rateLimit of a transport whose client just logged in

ASSUME SessionAssumption ==
  Nil \notin Calls /\ AtLogin \notin Calls /\ Nil # AtLogin

VARIABLES
  auth,         \* how the connector logs in, once New has run
  storesInOrder,  \* others see the stores of a goroutine in its order (amd64)
  client, salesforceTransport,   \* the login their objects come from, or Nil
  initialized,
  rateLimit,    \* rateLimit[l]: that field of the transport of login l
  call,         \* call[t]: where call t is
  received      \* history: the calls whose limits arrived since t began

sessionVars ==
  <<auth, storesInOrder, client, salesforceTransport, initialized, rateLimit, call, received>>

-----------------------------------------------------------------------------
Logins == Calls \cup {Nil}

\* The limits of a response are named after the call it answers.
Limits == Calls \cup {Nil, AtLogin}

Fields == {"client", "salesforceTransport", "initialized"}

(* "login" is Initialize before the fields are set, "store" the time until *)
(* others see them all, "sent" a request under way, "read" a call about to *)
(* look at the rate limit.  A call that meets a nil pointer goes no        *)
(* further: the process ends.                                              *)
Points == {"idle", "initialize", "login", "store", "request", "sent", "read",
           "answered"}

(* todo: the fields others do not see yet; via: the login whose client     *)
(* sends the request; sent: it was not answered from the cache; from: the  *)
(* login whose transport is read; report: the rate limit handed to the     *)
(* SDK; late, a history: the call began when the session was there and no  *)
(* Initialize was under way.                                               *)
CallStates == [pc : Points, todo : SUBSET Fields, via : Logins, sent : BOOLEAN,
               from : Logins, report : Limits, err : {"none", "Failed"}, late : BOOLEAN]

IdleCall == [pc |-> "idle", todo |-> {}, via |-> Nil, sent |-> FALSE,
             from |-> Nil, report |-> Nil, err |-> "none", late |-> FALSE]

\* Every variable has its type.
TypeOK ==
  /\ auth \in {"unset", "token", "password"} /\ storesInOrder \in BOOLEAN
  /\ client \in Logins /\ salesforceTransport \in Logins
  /\ initialized \in BOOLEAN
  /\ rateLimit \in [Calls -> Limits]
  /\ call \in [Calls -> CallStates]
  /\ received \in [Calls -> SUBSET Calls]

\* The memory model of Go promises no order of the stores: the machine decides.
Init ==
  /\ auth = "unset" /\ storesInOrder \in BOOLEAN
  /\ client = Nil /\ salesforceTransport = Nil
  /\ initialized = FALSE
  /\ rateLimit = [l \in Calls |-> Nil]
  /\ call = [t \in Calls |-> IdleCall]
  /\ received = [t \in Calls |-> {}]

Running(t) == call[t].pc \notin {"idle", "answered"}

-----------------------------------------------------------------------------
(* New: with the JWT and the client credentials method a token is fetched  *)
(* at once, and the connector does not start if that fails; with OAuth the *)
(* SDK brings the token source, and without one the connector falls back   *)
(* to a password login, with an empty password.                            *)
New ==
  /\ auth = "unset"
  /\ auth' \in {"token", "password"}
  /\ UNCHANGED <<storesInOrder, client, salesforceTransport, initialized, rateLimit, call,
                 received>>

Settled == initialized /\ \A u \in Calls : call[u].pc \notin {"initialize", "login", "store"}

Begin(t) ==
  /\ auth # "unset"
  /\ call[t].pc = "idle"
  /\ call' = [call EXCEPT ![t] = [@ EXCEPT !.pc = "initialize", !.late = Settled]]
  /\ UNCHANGED <<auth, storesInOrder, client, salesforceTransport, initialized, rateLimit,
                 received>>

-----------------------------------------------------------------------------
(* Initialize.                                                             *)

InitializeCheck(t) ==
  /\ call[t].pc = "initialize"
  /\ call' = [call EXCEPT ![t].pc = IF initialized THEN "request" ELSE "login"]
  /\ UNCHANGED <<auth, storesInOrder, client, salesforceTransport, initialized, rateLimit,
                 received>>

(* A client and a transport of its own, and a token or a password login,   *)
(* which goes through this transport.                                      *)
Login(t) ==
  /\ call[t].pc = "login"
  /\ call' = [call EXCEPT ![t] = [@ EXCEPT !.pc = "store", !.todo = Fields]]
  /\ \E r \in {AtLogin, Nil} :
       /\ r = Nil => auth = "password"
       /\ rateLimit' = [rateLimit EXCEPT ![t] = r]
  /\ UNCHANGED <<auth, storesInOrder, client, salesforceTransport, initialized, received>>

\* No client, no HTTP client, no token or no login: the fields stay as they are.
LoginFails(t) ==
  /\ call[t].pc = "login"
  /\ call' = [call EXCEPT ![t] = [@ EXCEPT !.pc = "answered", !.err = "Failed"]]
  /\ UNCHANGED <<auth, storesInOrder, client, salesforceTransport, initialized, rateLimit,
                 received>>

\* Variant: initialized is set first.
FlagFirst(t, f) ==
  /\ f = "client" => "initialized" \notin call[t].todo
  /\ f = "salesforceTransport" => "client" \notin call[t].todo

\* The order of the three assignments, as other goroutines may see it.
StoreOrder(t, f) ==
  storesInOrder =>
    /\ f = "salesforceTransport" => "client" \notin call[t].todo
    /\ f = "initialized" => call[t].todo = {"initialized"}

Store(t, f) ==
  /\ call[t].pc = "store"
  /\ f \in call[t].todo
  /\ StoreOrder(t, f)
  /\ client' = IF f = "client" THEN t ELSE client
  /\ salesforceTransport' = IF f = "salesforceTransport" THEN t ELSE salesforceTransport
  /\ initialized' = (initialized \/ f = "initialized")
  /\ call' = [call EXCEPT ![t] = [@ EXCEPT !.todo = call[t].todo \ {f},
                                         !.pc = IF call[t].todo = {f} THEN "request" ELSE "store"]]
  /\ UNCHANGED <<auth, storesInOrder, rateLimit, received>>

-----------------------------------------------------------------------------
(* The request.                                                            *)

\* A GET the HTTP cache answers passes by the transport.
CacheHit(t) ==
  /\ call[t].pc = "request" /\ client # Nil
  /\ call' = [call EXCEPT ![t] = [@ EXCEPT !.pc = "read", !.via = client]]
  /\ UNCHANGED <<auth, storesInOrder, client, salesforceTransport, initialized, rateLimit,
                 received>>

\* Variant: the limits of the last response are kept.
RoundTripKeeps(t) ==
  /\ call[t].pc = "request" /\ client # Nil
  /\ call' = [call EXCEPT ![t] = [@ EXCEPT !.pc = "sent", !.via = client, !.sent = TRUE]]
  /\ UNCHANGED <<auth, storesInOrder, client, salesforceTransport, initialized, rateLimit,
                 received>>

(* The first half of RoundTrip.  It asks the token source for a token, and *)
(* goes on with that of the login if there is none: Salesforce decides.    *)
RoundTrip(t) ==
  /\ call[t].pc = "request" /\ client # Nil
  /\ call' = [call EXCEPT ![t] = [@ EXCEPT !.pc = "sent", !.via = client, !.sent = TRUE]]
  /\ rateLimit' = [rateLimit EXCEPT ![client] = Nil]
  /\ UNCHANGED <<auth, storesInOrder, client, salesforceTransport, initialized, received>>

\* No response.
RequestFails(t) ==
  /\ call[t].pc = "sent"
  /\ call' = [call EXCEPT ![t] = [@ EXCEPT !.pc = "read", !.err = "Failed"]]
  /\ UNCHANGED <<auth, storesInOrder, client, salesforceTransport, initialized, rateLimit,
                 received>>

(* The second half of RoundTrip: the response, success or error, has a     *)
(* header with the limits or has none.                                     *)
Response(t) ==
  /\ call[t].pc = "sent"
  /\ \E e \in {"none", "Failed"} : call' = [call EXCEPT ![t] = [@ EXCEPT !.pc = "read", !.err = e]]
  /\ \/ /\ rateLimit' = [rateLimit EXCEPT ![call[t].via] = t]
        /\ received' = [u \in Calls |-> IF Running(u) THEN received[u] \cup {t} ELSE received[u]]
     \/ UNCHANGED <<rateLimit, received>>
  /\ UNCHANGED <<auth, storesInOrder, client, salesforceTransport, initialized>>

\* The caller hands the rate limit to the SDK.
WithRateLimitAnnotations(t) ==
  /\ call[t].pc = "read" /\ salesforceTransport # Nil
  /\ call' = [call EXCEPT ![t] = [@ EXCEPT !.pc = "answered", !.from = salesforceTransport,
                                         !.report = rateLimit[salesforceTransport]]]
  /\ UNCHANGED <<auth, storesInOrder, client, salesforceTransport, initialized, rateLimit,
                 received>>

-----------------------------------------------------------------------------
CallStep(t) ==
  \/ Begin(t) \/ InitializeCheck(t) \/ Login(t) \/ LoginFails(t)
  \/ \E f \in Fields : Store(t, f)
  \/ CacheHit(t) \/ RoundTrip(t) \/ RequestFails(t) \/ Response(t)
  \/ WithRateLimitAnnotations(t)

\* A call about to follow a nil pointer.
MeetsNil(t) ==
  \/ call[t].pc = "request" /\ client = Nil
  \/ call[t].pc = "read" /\ salesforceTransport = Nil

\* Every call is answered, or the process ends at a nil pointer.
Terminated ==
  /\ (\A t \in Calls : call[t].pc = "answered") \/ (\E t \in Calls : MeetsNil(t))
  /\ UNCHANGED sessionVars

Next == New \/ (\E t \in Calls : CallStep(t)) \/ Terminated

Spec == Init /\ [][Next]_sessionVars

-----------------------------------------------------------------------------
(* The properties.                                                         *)

(* No call that got past Initialize, its own login or another's, meets a   *)
(* session that is only half there: however many first calls log in at the *)
(* same time, whoever sees initialized sees a client and a transport where *)
(* stores are seen in their order, and everywhere if the call began once   *)
(* the logins were over.                                                   *)
SessionComplete ==
  \A t \in Calls :
    call[t].pc \in {"request", "sent", "read"} /\ (storesInOrder \/ call[t].late) =>
      client # Nil /\ salesforceTransport # Nil

(* A call that reads the transport its request went through reports the    *)
(* limits of a response that arrived while it ran, its own or that of a    *)
(* call at the same time, or nothing: never those of an earlier call.      *)
LimitsAreRecent ==
  \A t \in Calls :
    call[t].pc = "answered" /\ call[t].sent /\ call[t].from = call[t].via =>
      call[t].report \in received[t] \cup {Nil}

(* A call that went to Salesforce, long after the first calls have logged  *)
(* in, reports limits gleaned from the headers of a response that arrived  *)
(* while it ran, or nothing.                                               *)
LimitsFromHeaders ==
  \A t \in Calls :
    call[t].pc = "answered" /\ call[t].sent /\ call[t].late =>
      call[t].report \in received[t] \cup {Nil}
=============================================================================
