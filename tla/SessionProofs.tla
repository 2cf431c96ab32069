---------------------------- MODULE SessionProofs ---------------------------
(***************************************************************************)
(* For any number of calls that log in at the same time: no call meets a   *)
(* session that is half there, if the stores of Initialize are seen in     *)
(* their order or the logins were over when it began; and a call that      *)
(* reads the transport its request went through reports limits that        *)
(* arrived while it ran.                                                   *)
(***************************************************************************)
EXTENDS ClientSession, TLAPS

\* The calls whose login, if they make one, is yet to come.
Early(l) == l \in Calls /\ call[l].pc \in {"idle", "initialize", "login"}

\* A call that has chosen the client its request goes through.
Sending(t) == call[t].pc \in {"sent", "read"}

(* Nobody uses the client of a login that is not made yet: this is what    *)
(* keeps a login from overwriting the limits someone is about to read.     *)
ClientsAreMade ==
  /\ ~Early(client)
  /\ \A t \in Calls : Sending(t) => call[t].via \in Calls /\ ~Early(call[t].via)

LimitsArrived ==
  \A t \in Calls : Sending(t) /\ call[t].sent =>
                     rateLimit[call[t].via] \in received[t] \cup {Nil}

SentLater ==
  \A t \in Calls : call[t].pc \in {"idle", "initialize", "login", "store", "request"} =>
                     ~call[t].sent

LimitsInv == TypeOK /\ SentLater /\ ClientsAreMade /\ LimitsArrived /\ LimitsAreRecent

\* What was stored stays.
StoresAreThere ==
  \A t \in Calls : call[t].pc = "store" =>
    /\ "client" \notin call[t].todo => client # Nil
    /\ "salesforceTransport" \notin call[t].todo => salesforceTransport # Nil

\* A call that still has field f to store.
Owes(f) == \E t \in Calls : call[t].pc = "store" /\ f \in call[t].todo

(* Whoever set initialized has set the other fields too, or is about to:   *)
(* before that, where the stores are seen in their order.                  *)
FlagIsBacked ==
  initialized => /\ client # Nil \/ (Owes("client") /\ ~storesInOrder)
                 /\ salesforceTransport # Nil \/ (Owes("salesforceTransport") /\ ~storesInOrder)

LateIsWhole == \A t \in Calls : call[t].late => client # Nil /\ salesforceTransport # Nil

SessionInv == TypeOK /\ StoresAreThere /\ FlagIsBacked /\ LateIsWhole /\ SessionComplete

-----------------------------------------------------------------------------
\* The state of one call is replaced.
LEMMA CallReplaced ==
  ASSUME call \in [Calls -> CallStates], NEW t \in Calls, NEW c \in CallStates,
         call' = [call EXCEPT ![t] = c]
  PROVE  /\ call' \in [Calls -> CallStates]
         /\ \A u \in Calls \ {t} : call'[u] = call[u]
         /\ call'[t] = c
OBVIOUS

\* The changes of a call keep its type.
LEMMA CallChanges ==
  ASSUME NEW c \in CallStates, NEW p \in Points
  PROVE  /\ \A b \in BOOLEAN : [c EXCEPT !.pc = p, !.late = b] \in CallStates
         /\ \A d \in SUBSET Fields : [c EXCEPT !.pc = p, !.todo = d] \in CallStates
         /\ \A l \in Logins, r \in Limits :
              [c EXCEPT !.pc = p, !.from = l, !.report = r] \in CallStates
<1>1. \A b \in BOOLEAN : [c EXCEPT !.pc = p, !.late = b] \in CallStates
  BY DEF CallStates
<1>2. \A d \in SUBSET Fields : [c EXCEPT !.pc = p, !.todo = d] \in CallStates
  BY DEF CallStates
<1>3. \A l \in Logins, r \in Limits :
        [c EXCEPT !.pc = p, !.from = l, !.report = r] \in CallStates
  BY DEF CallStates
<1> QED BY <1>1, <1>2, <1>3

\* A call whose point and fields still to store change.
LEMMA CallMoves ==
  ASSUME call \in [Calls -> CallStates], NEW t \in Calls, NEW p \in Points,
         NEW d \in SUBSET Fields,
         call' = [call EXCEPT ![t] = [call[t] EXCEPT !.todo = d, !.pc = p]]
  PROVE  /\ call' \in [Calls -> CallStates]
         /\ \A u \in Calls \ {t} : call'[u] = call[u]
         /\ call'[t].pc = p /\ call'[t].todo = d
         /\ call'[t].sent = call[t].sent /\ call'[t].via = call[t].via
         /\ call'[t].late = call[t].late
BY DEF CallStates

\* What Initialize's test of initialized does to a call.
LEMMA CheckMoves ==
  ASSUME TypeOK, NEW t \in Calls, InitializeCheck(t)
  PROVE  /\ call' \in [Calls -> CallStates]
         /\ \A u \in Calls \ {t} : call'[u] = call[u]
         /\ call[t].pc = "initialize" /\ call'[t].pc \in {"request", "login"}
         /\ call'[t].pc = "request" => initialized
         /\ call'[t].sent = call[t].sent /\ call'[t].via = call[t].via
         /\ call'[t].late = call[t].late
<1>1. PICK p \in {"request", "login"} : p = IF initialized THEN "request" ELSE "login"
  OBVIOUS
<1>2. call' = [call EXCEPT ![t].pc = p]
  BY <1>1 DEF InitializeCheck
<1>3. p \in Points
  BY DEF Points
<1>4. p = "request" => initialized
  BY <1>1
<1> QED BY <1>2, <1>3, <1>4 DEF TypeOK, CallStates, InitializeCheck

\* What a store of Initialize does to a call.
LEMMA StoreMoves ==
  ASSUME TypeOK, NEW t \in Calls, NEW f \in Fields, Store(t, f)
  PROVE  /\ call' \in [Calls -> CallStates]
         /\ \A u \in Calls \ {t} : call'[u] = call[u]
         /\ call[t].pc = "store" /\ call'[t].pc \in {"store", "request"}
         /\ call'[t].pc = IF call[t].todo = {f} THEN "request" ELSE "store"
         /\ call'[t].todo = call[t].todo \ {f}
         /\ call'[t].sent = call[t].sent /\ call'[t].via = call[t].via
         /\ call'[t].late = call[t].late
<1>1. PICK p \in {"store", "request"} : p = IF call[t].todo = {f} THEN "request" ELSE "store"
  OBVIOUS
<1>2. PICK d \in SUBSET Fields : d = call[t].todo \ {f}
  BY DEF TypeOK, CallStates
<1>3. call' = [call EXCEPT ![t] = [call[t] EXCEPT !.todo = d, !.pc = p]]
  BY <1>1, <1>2 DEF Store, TypeOK
<1>4. p \in Points
  BY DEF Points
<1>5. call[t].pc = "store"
  BY DEF Store
<1>6. call \in [Calls -> CallStates]
  BY DEF TypeOK
<1>7. /\ call' \in [Calls -> CallStates]
      /\ \A u \in Calls \ {t} : call'[u] = call[u]
      /\ call'[t].pc = p /\ call'[t].todo = d
      /\ call'[t].sent = call[t].sent /\ call'[t].via = call[t].via
      /\ call'[t].late = call[t].late
  BY <1>3, <1>4, <1>6, CallMoves
<1> QED BY <1>1, <1>2, <1>5, <1>7

\* What a response does to its call.
LEMMA ResponseMoves ==
  ASSUME TypeOK, NEW t \in Calls, Response(t)
  PROVE  /\ call' \in [Calls -> CallStates]
         /\ \A u \in Calls \ {t} : call'[u] = call[u]
         /\ call[t].pc = "sent" /\ call'[t].pc = "read"
         /\ call'[t].sent = call[t].sent /\ call'[t].via = call[t].via
         /\ call'[t].late = call[t].late
<1>1. PICK e \in {"none", "Failed"} :
        call' = [call EXCEPT ![t] = [@ EXCEPT !.pc = "read", !.err = e]]
  BY DEF Response
<1>2. "read" \in Points /\ call[t] \in CallStates
  BY DEF Points, TypeOK
<1>3. PICK c : c = [call[t] EXCEPT !.pc = "read", !.err = e]
  OBVIOUS
<1>4. /\ c \in CallStates /\ c.pc = "read" /\ c.sent = call[t].sent /\ c.via = call[t].via
      /\ c.late = call[t].late
  BY <1>2, <1>3 DEF CallStates
<1>5. call' = [call EXCEPT ![t] = c]
  BY <1>1, <1>3
<1> QED BY <1>4, <1>5, CallReplaced DEF TypeOK, Response

\* Every step preserves the types.
LEMMA TypeStep == ASSUME TypeOK, [Next]_sessionVars PROVE TypeOK'
<1>p. /\ {"initialize", "store", "sent", "read", "answered"} \subseteq Points
      /\ Nil \in Logins /\ Nil \in Limits /\ AtLogin \in Limits
      /\ Calls \subseteq Logins /\ Calls \subseteq Limits
  BY DEF Points, Logins, Limits
<1> USE DEF TypeOK
<1>1. CASE New
  BY <1>1 DEF New
<1>2. ASSUME NEW t \in Calls, CallStep(t) PROVE TypeOK'
  <2>1. CASE Begin(t)
    <3>1. PICK b \in BOOLEAN : b = Settled
      BY DEF Settled
    <3>2. call' = [call EXCEPT ![t] = [@ EXCEPT !.pc = "initialize", !.late = b]]
      BY <2>1, <3>1 DEF Begin
    <3>3. PICK c : c = [call[t] EXCEPT !.pc = "initialize", !.late = b]
      OBVIOUS
    <3>4. c \in CallStates
      BY <1>p, <3>3, CallChanges
    <3>5. call' \in [Calls -> CallStates]
      BY <3>2, <3>3, <3>4, CallReplaced
    <3> QED BY <2>1, <3>5 DEF Begin
  <2>2. CASE InitializeCheck(t)  BY <2>2, CheckMoves DEF InitializeCheck
  <2>3. CASE Login(t)
    <3>1. call' \in [Calls -> CallStates]
      <4>1. PICK c : c = [call[t] EXCEPT !.pc = "store", !.todo = Fields]
        OBVIOUS
      <4>2. c \in CallStates
        BY <1>p, <4>1, CallChanges
      <4> QED BY <2>3, <4>1, <4>2, CallReplaced DEF Login
    <3>2. rateLimit' \in [Calls -> Limits]
      BY <1>p, <2>3 DEF Login
    <3> QED BY <2>3, <3>1, <3>2 DEF Login
  <2>4. CASE LoginFails(t)  BY <1>p, <2>4 DEF LoginFails, CallStates
  <2>5. ASSUME NEW f \in Fields, Store(t, f) PROVE TypeOK'
    <3>1. /\ client' \in Logins /\ salesforceTransport' \in Logins /\ initialized' \in BOOLEAN
          /\ UNCHANGED <<auth, storesInOrder, rateLimit, received>>
      BY <1>p, <2>5 DEF Store
    <3>2. call' \in [Calls -> CallStates]
      BY <2>5, StoreMoves
    <3> QED BY <3>1, <3>2
  <2>6. CASE CacheHit(t)  BY <1>p, <2>6 DEF CacheHit, CallStates
  <2>7. CASE RoundTrip(t)  BY <1>p, <2>7 DEF RoundTrip, CallStates
  <2>8. CASE RequestFails(t)  BY <1>p, <2>8 DEF RequestFails, CallStates
  <2>9. CASE Response(t)
    <3>1. call' \in [Calls -> CallStates]
      BY <2>9, ResponseMoves
    <3>2. rateLimit' \in [Calls -> Limits] /\ received' \in [Calls -> SUBSET Calls]
      BY <1>p, <2>9 DEF Response
    <3> QED BY <2>9, <3>1, <3>2 DEF Response
  <2>10. CASE WithRateLimitAnnotations(t)
    <3>1. rateLimit[salesforceTransport] \in Limits
      BY <2>10 DEF WithRateLimitAnnotations, Logins
    <3>2. PICK r \in Limits : r = rateLimit[salesforceTransport]
      BY <3>1
    <3>3. call' = [call EXCEPT ![t] = [@ EXCEPT !.pc = "answered", !.from = salesforceTransport,
                                               !.report = r]]
      BY <2>10, <3>2 DEF WithRateLimitAnnotations
    <3>4. PICK c : c = [call[t] EXCEPT !.pc = "answered", !.from = salesforceTransport,
                                       !.report = r]
      OBVIOUS
    <3>5. c \in CallStates
      BY <1>p, <3>2, <3>4, CallChanges
    <3>6. call' \in [Calls -> CallStates]
      BY <3>3, <3>4, <3>5, CallReplaced
    <3> QED BY <2>10, <3>6 DEF WithRateLimitAnnotations
  <2> QED BY <1>2, <2>1, <2>2, <2>3, <2>4, <2>5, <2>6, <2>7, <2>8, <2>9, <2>10 DEF CallStep
<1>3. CASE UNCHANGED sessionVars
  BY <1>3 DEF sessionVars
<1> QED BY <1>1, <1>2, <1>3 DEF Next, Terminated

-----------------------------------------------------------------------------
(* The limits.                                                             *)

\* A call never becomes early again.
LEMMA EarlyStep ==
  ASSUME TypeOK, NEW t \in Calls, CallStep(t)
  PROVE  \A l : Early(l)' => Early(l)
<1>1. /\ call' \in [Calls -> CallStates]
      /\ \A u \in Calls \ {t} : call'[u] = call[u]
      /\ call'[t].pc \in {"initialize", "login"} =>
           call[t].pc \in {"idle", "initialize"}
      /\ call'[t].pc # "idle"
  <2>0. call' \in [Calls -> CallStates]
    BY TypeStep DEF Next, TypeOK
  <2>1. CASE Begin(t)  BY <2>0, <2>1 DEF Begin, TypeOK, CallStates
  <2>2. CASE InitializeCheck(t)  BY <2>2, CheckMoves
  <2>3. CASE Login(t)  BY <2>0, <2>3 DEF Login, TypeOK, CallStates
  <2>4. CASE LoginFails(t)  BY <2>0, <2>4 DEF LoginFails, TypeOK, CallStates
  <2>5. CASE \E f \in Fields : Store(t, f)  BY <2>5, StoreMoves
  <2>6. CASE CacheHit(t)  BY <2>0, <2>6 DEF CacheHit, TypeOK, CallStates
  <2>7. CASE RoundTrip(t)  BY <2>0, <2>7 DEF RoundTrip, TypeOK, CallStates
  <2>8. CASE RequestFails(t)  BY <2>0, <2>8 DEF RequestFails, TypeOK, CallStates
  <2>9. CASE Response(t)  BY <2>9, ResponseMoves
  <2>10. CASE WithRateLimitAnnotations(t)
    BY <2>0, <2>10 DEF WithRateLimitAnnotations, TypeOK, CallStates
  <2> QED BY <2>1, <2>2, <2>3, <2>4, <2>5, <2>6, <2>7, <2>8, <2>9, <2>10 DEF CallStep
<1> QED BY <1>1 DEF Early

(* A step of call t that leaves the limits alone and chooses no client     *)
(* preserves what is known of the limits.                                  *)
LEMMA QuietStep ==
  ASSUME LimitsInv, TypeOK', NEW t \in Calls, \A l : Early(l)' => Early(l),
         UNCHANGED <<rateLimit, received>>,
         client' = client \/ (client' = t /\ ~Early(t)'),
         \A u \in Calls \ {t} : call'[u] = call[u],
         call'[t].sent = call[t].sent, call'[t].via = call[t].via,
         Sending(t)' => Sending(t),
         call'[t].pc \in {"idle", "initialize", "login", "store", "request"} =>
           call[t].pc \in {"idle", "initialize", "login", "store", "request"},
         call'[t].pc = "answered" => call[t].pc = "login"
  PROVE  LimitsInv'
<1>1. SentLater'
  BY DEF LimitsInv, SentLater
<1>2. ClientsAreMade'
  BY DEF LimitsInv, ClientsAreMade, Sending
<1>3. LimitsArrived'
  BY DEF LimitsInv, LimitsArrived, Sending
<1>4. LimitsAreRecent'
  BY DEF LimitsInv, LimitsAreRecent, SentLater
<1> QED BY <1>1, <1>2, <1>3, <1>4 DEF LimitsInv

\* A step of a call preserves what is known of the limits.
LEMMA LimitsStep ==
  ASSUME LimitsInv, NEW t \in Calls, CallStep(t)
  PROVE  LimitsInv'
<1>0. TypeOK /\ TypeOK'
  BY TypeStep DEF LimitsInv, Next
<1>e. \A l : Early(l)' => Early(l)
  BY <1>0, EarlyStep
<1>1. CASE Begin(t) \/ InitializeCheck(t) \/ LoginFails(t) \/ RequestFails(t)
  <2>1. /\ UNCHANGED <<client, rateLimit, received>>
        /\ \A u \in Calls \ {t} : call'[u] = call[u]
        /\ call'[t].sent = call[t].sent /\ call'[t].via = call[t].via
        /\ Sending(t)' => Sending(t)
        /\ call'[t].pc = "answered" => call[t].pc = "login"
        /\ call'[t].pc \in {"idle", "initialize", "login", "store", "request"} =>
             call[t].pc \in {"idle", "initialize", "login", "store", "request"}
    <3>1. CASE Begin(t)
      BY <1>0, <3>1 DEF Begin, TypeOK, CallStates, Sending
    <3>2. CASE InitializeCheck(t)
      BY <1>0, <3>2, CheckMoves DEF InitializeCheck, Sending
    <3>3. CASE LoginFails(t)
      BY <1>0, <3>3 DEF LoginFails, TypeOK, CallStates, Sending
    <3>4. CASE RequestFails(t)
      BY <1>0, <3>4 DEF RequestFails, TypeOK, CallStates, Sending
    <3> QED BY <1>1, <3>1, <3>2, <3>3, <3>4
  <2> QED BY <1>0, <1>e, <2>1, QuietStep
<1>2. CASE \E f \in Fields : Store(t, f)
  <2>1. PICK f \in Fields : Store(t, f)
    BY <1>2
  <2>2. /\ UNCHANGED <<rateLimit, received>>
        /\ client' = client \/ client' = t
        /\ \A u \in Calls \ {t} : call'[u] = call[u]
        /\ call'[t].sent = call[t].sent /\ call'[t].via = call[t].via
        /\ call[t].pc = "store" /\ call'[t].pc \in {"store", "request"}
    BY <1>0, <2>1, StoreMoves DEF Store
  <2>3. ~Early(t)' /\ (Sending(t)' => Sending(t))
    BY <2>2 DEF Early, Sending
  <2> QED BY <1>0, <1>e, <2>2, <2>3, QuietStep
<1>3. CASE Login(t)
  <2>1. /\ UNCHANGED <<client, received>>
        /\ \A u \in Calls \ {t} : call'[u] = call[u] /\ rateLimit'[u] = rateLimit[u]
        /\ call[t].pc = "login" /\ call'[t].pc = "store" /\ call'[t].sent = call[t].sent
    BY <1>0, <1>3 DEF Login, TypeOK, CallStates
  <2>2. Early(t)
    BY <2>1 DEF Early
  <2>3. SentLater' /\ LimitsAreRecent'
    BY <2>1 DEF LimitsInv, SentLater, LimitsAreRecent
  <2>4. ClientsAreMade'
    BY <1>e, <2>1 DEF LimitsInv, ClientsAreMade, Sending
  <2>5. LimitsArrived'
    BY <2>1, <2>2 DEF LimitsInv, LimitsArrived, ClientsAreMade, Sending
  <2> QED BY <1>0, <2>3, <2>4, <2>5 DEF LimitsInv
<1>4. CASE CacheHit(t)
  <2>1. /\ UNCHANGED <<client, rateLimit, received>> /\ client \in Calls
        /\ \A u \in Calls \ {t} : call'[u] = call[u]
        /\ call[t].pc = "request" /\ call'[t].pc = "read" /\ call'[t].via = client
        /\ call'[t].sent = call[t].sent
    BY <1>0, <1>4 DEF CacheHit, TypeOK, CallStates, Logins
  <2>2. ~call'[t].sent
    BY <2>1 DEF LimitsInv, SentLater
  <2>3. SentLater' /\ LimitsAreRecent'
    BY <2>1 DEF LimitsInv, SentLater, LimitsAreRecent
  <2>4. ClientsAreMade'
    BY <1>e, <2>1 DEF LimitsInv, ClientsAreMade, Sending
  <2>5. LimitsArrived'
    BY <2>1, <2>2 DEF LimitsInv, LimitsArrived, Sending
  <2> QED BY <1>0, <2>3, <2>4, <2>5 DEF LimitsInv
<1>5. CASE RoundTrip(t)
  <2>1. /\ UNCHANGED <<client, received>> /\ client \in Calls
        /\ \A u \in Calls \ {t} : call'[u] = call[u]
        /\ call[t].pc = "request" /\ call'[t].pc = "sent" /\ call'[t].via = client
        /\ rateLimit'[client] = Nil
        /\ \A l \in Calls \ {client} : rateLimit'[l] = rateLimit[l]
    BY <1>0, <1>5 DEF RoundTrip, TypeOK, CallStates, Logins
  <2>3. SentLater' /\ LimitsAreRecent'
    BY <2>1 DEF LimitsInv, SentLater, LimitsAreRecent
  <2>4. ClientsAreMade'
    BY <1>e, <2>1 DEF LimitsInv, ClientsAreMade, Sending
  <2>5. LimitsArrived'
    BY <2>1 DEF LimitsInv, LimitsArrived, ClientsAreMade, Sending
  <2> QED BY <1>0, <2>3, <2>4, <2>5 DEF LimitsInv
<1>6. CASE Response(t)
  <2>1. /\ UNCHANGED client
        /\ \A u \in Calls \ {t} : call'[u] = call[u]
        /\ call[t].pc = "sent" /\ call'[t].pc = "read" /\ call'[t].via = call[t].via
        /\ call[t].via \in Calls
    BY <1>0, <1>6, ResponseMoves DEF Response, LimitsInv, ClientsAreMade, Sending
  <2>2. /\ \A u \in Calls : received[u] \subseteq received'[u]
        /\ \A u \in Calls : ~Running(u) => received'[u] = received[u]
        /\ \A l \in Calls : \/ rateLimit'[l] = rateLimit[l]
                            \/ \A u \in Calls : Running(u) => rateLimit'[l] \in received'[u]
    <3>1. CASE UNCHANGED <<rateLimit, received>>
      BY <3>1
    <3>2. CASE /\ rateLimit' = [rateLimit EXCEPT ![call[t].via] = t]
               /\ received' = [u \in Calls |-> IF Running(u) THEN received[u] \cup {t}
                                               ELSE received[u]]
      <4>1. \A u \in Calls : received'[u] = IF Running(u) THEN received[u] \cup {t}
                                            ELSE received[u]
        BY <3>2
      <4>2. \A l \in Calls : rateLimit'[l] = rateLimit[l] \/ rateLimit'[l] = t
        BY <1>0, <3>2 DEF TypeOK
      <4> QED BY <4>1, <4>2
    <3> QED BY <1>6, <3>1, <3>2 DEF Response
  <2>3. \A u \in Calls : /\ Sending(u)' => Sending(u) /\ Running(u)
                         /\ call'[u].sent = call[u].sent /\ call'[u].via = call[u].via
                         /\ call'[u].pc = "answered" => call'[u] = call[u] /\ ~Running(u)
    <3>1. call'[t].sent = call[t].sent
      BY <1>0, <1>6, ResponseMoves
    <3> QED BY <2>1, <3>1 DEF Sending, Running
  <2>4. SentLater'
    BY <2>1 DEF LimitsInv, SentLater
  <2>5. ClientsAreMade'
    BY <1>e, <2>1, <2>3 DEF LimitsInv, ClientsAreMade
  <2>6. LimitsArrived'
    BY <2>2, <2>3 DEF LimitsInv, LimitsArrived, ClientsAreMade
  <2>7. LimitsAreRecent'
    BY <2>2, <2>3 DEF LimitsInv, LimitsAreRecent
  <2> QED BY <1>0, <2>4, <2>5, <2>6, <2>7 DEF LimitsInv
<1>7. CASE WithRateLimitAnnotations(t)
  <2>1. /\ UNCHANGED <<client, rateLimit, received>>
        /\ \A u \in Calls \ {t} : call'[u] = call[u]
        /\ call[t].pc = "read" /\ call'[t].pc = "answered"
        /\ call'[t].via = call[t].via /\ call'[t].sent = call[t].sent
        /\ call'[t].from = salesforceTransport
        /\ call'[t].report = rateLimit[salesforceTransport]
    BY <1>0, <1>7 DEF WithRateLimitAnnotations, TypeOK, CallStates
  <2>2. call[t].sent => rateLimit[call[t].via] \in received[t] \cup {Nil}
    BY <2>1 DEF LimitsInv, LimitsArrived, Sending
  <2>3. SentLater' /\ LimitsAreRecent'
    BY <2>1, <2>2 DEF LimitsInv, SentLater, LimitsAreRecent
  <2>4. ClientsAreMade' /\ LimitsArrived'
    BY <1>e, <2>1 DEF LimitsInv, ClientsAreMade, LimitsArrived, Sending
  <2> QED BY <1>0, <2>3, <2>4 DEF LimitsInv
<1> QED BY <1>1, <1>2, <1>3, <1>4, <1>5, <1>6, <1>7 DEF CallStep

(* RoundTrip and WithRateLimitAnnotations: a call that reads the transport *)
(* its request went through reports limits that arrived while it ran.      *)
THEOREM ReportsAreRecent == Spec => []LimitsAreRecent
<1>1. Init => LimitsInv
  <2> SUFFICES ASSUME Init PROVE LimitsInv
    OBVIOUS
  <2>1. \A t \in Calls : call[t] = IdleCall /\ call[t].pc = "idle" /\ ~call[t].sent
    BY DEF Init, IdleCall
  <2>2. IdleCall \in CallStates
    BY DEF IdleCall, CallStates, Points, Logins, Limits
  <2>3. TypeOK
    BY <2>2 DEF Init, TypeOK, Logins, Limits
  <2>4. ~Early(client)
    BY SessionAssumption DEF Init, Early
  <2> QED BY <2>1, <2>3, <2>4
          DEF LimitsInv, SentLater, ClientsAreMade, LimitsArrived, LimitsAreRecent, Sending
<1>2. LimitsInv /\ [Next]_sessionVars => LimitsInv'
  <2> SUFFICES ASSUME LimitsInv, [Next]_sessionVars PROVE LimitsInv'
    OBVIOUS
  <2>1. TypeOK'
    BY TypeStep DEF LimitsInv
  <2>2. CASE \E t \in Calls : CallStep(t)
    BY <2>2, LimitsStep
  <2>3. CASE New \/ UNCHANGED sessionVars
    <3>1. UNCHANGED <<client, rateLimit, call, received>>
      BY <2>3 DEF New, sessionVars
    <3> QED BY <2>1, <3>1 DEF LimitsInv, SentLater, ClientsAreMade, LimitsArrived,
                              LimitsAreRecent, Sending, Early
  <2> QED BY <2>2, <2>3 DEF Next, Terminated
<1>3. LimitsInv => LimitsAreRecent
  BY DEF LimitsInv
<1> QED BY <1>1, <1>2, <1>3, PTL DEF Spec

-----------------------------------------------------------------------------
(* The session.                                                            *)

\* A session of a settled connector is whole.
LEMMA SettledIsWhole ==
  ASSUME SessionInv, Settled
  PROVE  client # Nil /\ salesforceTransport # Nil
BY DEF SessionInv, FlagIsBacked, Owes, Settled

\* A step that stores nothing and lets a call past Initialize only when it may.
LEMMA SessionQuiet ==
  ASSUME SessionInv, TypeOK', NEW t \in Calls,
         UNCHANGED <<storesInOrder, client, salesforceTransport, initialized>>,
         \A u \in Calls \ {t} : call'[u] = call[u],
         call[t].pc # "store", call'[t].pc # "store",
         call'[t].late => call[t].late \/ Settled,
         call'[t].pc \in {"request", "sent", "read"} =>
           initialized \/ (call[t].pc \in {"request", "sent", "read"} /\ call'[t].late = call[t].late)
  PROVE  SessionInv'
<1>1. StoresAreThere'
  BY DEF SessionInv, StoresAreThere
<1>2. FlagIsBacked'
  BY DEF SessionInv, FlagIsBacked, Owes
<1>3. LateIsWhole'
  BY SettledIsWhole DEF SessionInv, LateIsWhole
<1>4. SessionComplete'
  BY <1>3 DEF SessionInv, FlagIsBacked, SessionComplete, LateIsWhole
<1> QED BY <1>1, <1>2, <1>3, <1>4 DEF SessionInv

\* A field that others begin to see.
LEMMA SessionStore ==
  ASSUME SessionInv, TypeOK', NEW t \in Calls, NEW f \in Fields, Store(t, f)
  PROVE  SessionInv'
<1>0. TypeOK
  BY DEF SessionInv
<1>1. /\ call[t].pc = "store" /\ f \in call[t].todo /\ storesInOrder' = storesInOrder
      /\ storesInOrder /\ f = "initialized" => call[t].todo = {"initialized"}
      /\ client' = IF f = "client" THEN t ELSE client
      /\ salesforceTransport' = IF f = "salesforceTransport" THEN t ELSE salesforceTransport
      /\ initialized' = (initialized \/ f = "initialized")
  BY DEF Store, StoreOrder
<1>2. /\ \A u \in Calls \ {t} : call'[u] = call[u]
      /\ call'[t].todo = call[t].todo \ {f}
      /\ call'[t].pc = IF call[t].todo = {f} THEN "request" ELSE "store"
      /\ call'[t].late = call[t].late
  BY <1>0, StoreMoves
<1>3. /\ t # Nil /\ (client # Nil => client' # Nil)
      /\ salesforceTransport # Nil => salesforceTransport' # Nil
      /\ f = "client" => client' # Nil
      /\ f = "salesforceTransport" => salesforceTransport' # Nil
  BY <1>1, SessionAssumption
<1>4. /\ "client" \notin call'[t].todo => client' # Nil
      /\ "salesforceTransport" \notin call'[t].todo => salesforceTransport' # Nil
  BY <1>1, <1>2, <1>3 DEF SessionInv, StoresAreThere
<1>5. StoresAreThere'
  BY <1>2, <1>3, <1>4 DEF SessionInv, StoresAreThere
<1>6. LateIsWhole'
  BY <1>2, <1>3 DEF SessionInv, LateIsWhole
<1>7. \A g \in {"client", "salesforceTransport"} : Owes(g) /\ f # g => Owes(g)'
  <2> SUFFICES ASSUME NEW g \in {"client", "salesforceTransport"}, Owes(g), f # g
               PROVE  Owes(g)'
    OBVIOUS
  <2>1. PICK u \in Calls : call[u].pc = "store" /\ g \in call[u].todo
    BY DEF Owes
  <2>2. CASE u # t
    BY <1>2, <2>1, <2>2 DEF Owes
  <2>3. CASE u = t
    BY <1>2, <2>1, <2>3 DEF Owes
  <2> QED BY <2>2, <2>3
<1>8. FlagIsBacked'
  <2>1. CASE f = "initialized"
    <3>1. storesInOrder => client' # Nil /\ salesforceTransport' # Nil
      BY <1>1, <1>2, <1>4, <2>1
    <3>2. client' # Nil \/ Owes("client")'
      BY <1>1, <1>2, <1>4, <2>1 DEF Owes
    <3>3. salesforceTransport' # Nil \/ Owes("salesforceTransport")'
      BY <1>1, <1>2, <1>4, <2>1 DEF Owes
    <3> QED BY <1>1, <3>1, <3>2, <3>3 DEF FlagIsBacked
  <2>2. CASE f # "initialized"
    <3>1. initialized' => initialized
      BY <1>0, <1>1, <2>2 DEF TypeOK
    <3> QED BY <1>1, <1>3, <1>7, <3>1 DEF SessionInv, FlagIsBacked
  <2> QED BY <2>1, <2>2
<1>9. SessionComplete'
  BY <1>1, <1>2, <1>3, <1>4 DEF SessionInv, SessionComplete
<1> QED BY <1>5, <1>6, <1>8, <1>9 DEF SessionInv

\* A step of a call keeps the session whole.
LEMMA SessionStep ==
  ASSUME SessionInv, NEW t \in Calls, CallStep(t)
  PROVE  SessionInv'
<1>0. TypeOK /\ TypeOK'
  BY TypeStep DEF SessionInv, Next
<1>1. CASE \/ Begin(t) \/ InitializeCheck(t) \/ LoginFails(t) \/ CacheHit(t) \/ RoundTrip(t)
           \/ RequestFails(t) \/ Response(t) \/ WithRateLimitAnnotations(t)
  <2>1. /\ UNCHANGED <<storesInOrder, client, salesforceTransport, initialized>>
        /\ \A u \in Calls \ {t} : call'[u] = call[u]
        /\ call[t].pc # "store" /\ call'[t].pc # "store"
        /\ call'[t].late => call[t].late \/ Settled
        /\ call'[t].pc \in {"request", "sent", "read"} =>
             \/ initialized
             \/ call[t].pc \in {"request", "sent", "read"} /\ call'[t].late = call[t].late
    <3>1. CASE Begin(t)  BY <1>0, <3>1 DEF Begin, TypeOK, CallStates
    <3>2. CASE InitializeCheck(t)  BY <1>0, <3>2, CheckMoves DEF InitializeCheck
    <3>3. CASE LoginFails(t)  BY <1>0, <3>3 DEF LoginFails, TypeOK, CallStates
    <3>4. CASE CacheHit(t)  BY <1>0, <3>4 DEF CacheHit, TypeOK, CallStates
    <3>5. CASE RoundTrip(t)  BY <1>0, <3>5 DEF RoundTrip, TypeOK, CallStates
    <3>6. CASE RequestFails(t)  BY <1>0, <3>6 DEF RequestFails, TypeOK, CallStates
    <3>7. CASE Response(t)  BY <1>0, <3>7, ResponseMoves DEF Response
    <3>8. CASE WithRateLimitAnnotations(t)
      BY <1>0, <3>8 DEF WithRateLimitAnnotations, TypeOK, CallStates
    <3> QED BY <1>1, <3>1, <3>2, <3>3, <3>4, <3>5, <3>6, <3>7, <3>8
  <2> QED BY <1>0, <2>1, SessionQuiet
<1>2. CASE Login(t)
  <2>1. /\ UNCHANGED <<storesInOrder, client, salesforceTransport, initialized>>
        /\ \A u \in Calls \ {t} : call'[u] = call[u]
        /\ call[t].pc = "login" /\ call'[t].pc = "store" /\ call'[t].todo = Fields
        /\ call'[t].late = call[t].late
    BY <1>0, <1>2 DEF Login, TypeOK, CallStates
  <2>2. StoresAreThere'
    BY <2>1 DEF SessionInv, StoresAreThere, Fields
  <2>3. \A f \in Fields : Owes(f) => Owes(f)'
    BY <2>1 DEF Owes
  <2>4. FlagIsBacked'
    BY <2>1, <2>3 DEF SessionInv, FlagIsBacked, Fields
  <2>5. LateIsWhole' /\ SessionComplete'
    BY <2>1 DEF SessionInv, LateIsWhole, SessionComplete
  <2> QED BY <1>0, <2>2, <2>4, <2>5 DEF SessionInv
<1> QED BY <1>0, <1>1, <1>2, SessionStore DEF CallStep

(* Initialize: however many first calls run it at the same time, none goes *)
(* on without a client and a transport where its three stores are seen in  *)
(* their order; and no call that begins once the logins are over does so,  *)
(* on any machine.                                                         *)
THEOREM SessionIsComplete == Spec => []SessionComplete
<1>1. Init => SessionInv
  <2> SUFFICES ASSUME Init PROVE SessionInv
    OBVIOUS
  <2>1. \A t \in Calls : call[t] = IdleCall /\ call[t].pc = "idle" /\ ~call[t].late
    BY DEF Init, IdleCall
  <2>2. IdleCall \in CallStates
    BY DEF IdleCall, CallStates, Points, Logins, Limits
  <2>3. TypeOK
    BY <2>2 DEF Init, TypeOK, Logins, Limits
  <2>4. ~initialized
    BY DEF Init
  <2> QED BY <2>1, <2>3, <2>4
          DEF SessionInv, StoresAreThere, FlagIsBacked, LateIsWhole, SessionComplete
<1>2. SessionInv /\ [Next]_sessionVars => SessionInv'
  <2> SUFFICES ASSUME SessionInv, [Next]_sessionVars PROVE SessionInv'
    OBVIOUS
  <2>1. TypeOK'
    BY TypeStep DEF SessionInv
  <2>2. CASE \E t \in Calls : CallStep(t)
    BY <2>2, SessionStep
  <2>3. CASE New \/ UNCHANGED sessionVars
    <3>1. UNCHANGED <<storesInOrder, client, salesforceTransport, initialized, call>>
      BY <2>3 DEF New, sessionVars
    <3> QED BY <2>1, <3>1
            DEF SessionInv, StoresAreThere, FlagIsBacked, Owes, LateIsWhole, SessionComplete
  <2> QED BY <2>2, <2>3 DEF Next, Terminated
<1>3. SessionInv => SessionComplete
  BY DEF SessionInv
<1> QED BY <1>1, <1>2, <1>3, PTL DEF Spec
=============================================================================
