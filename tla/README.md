# baton-salesforce: models and proofs

baton-salesforce is a connector: it lists the users, groups, permission sets,
permission set groups, profiles, roles, territories, connected apps and agents of
a Salesforce org for ConductorOne, and it provisions, that is, it carries out
grants, revokes, account creations and user actions in the org. This directory
holds TLA+ modules of what can go wrong in ways a unit test hardly reaches:
handlers that read and then write over an unreliable network, behind a cache,
next to other handlers, and that are run again when they fail; first calls that
log in at the same time; listings that are cut into pages, repeated and resumed.

## Inventory

| Part | Source | State it keeps | Operations | What is hard about it | What makes it correct |
|---|---|---|---|---|---|
| Request layer | `pkg/connector/client/request.go`, vendored `simpleforce` | none but the session | `query`, `getSObject`, `CreateObject`, `UpdateObject`, `DeleteObject`, user fields (`setValue`, `clearValue`, ...) | replies that are lost; 404 and DUPLICATE_VALUE as answers to a write | an error never hides what a caller must know; a write hits the record it was meant for |
| GET cache | SDK `uhttp/wrapper.go`, `uhttp/gocache.go` | one answer per URL | lookup, store, expiry, `ClearCaches` | shared by all handlers; never invalidated by a write; a hit is stored again | what a handler concludes from an old answer is harmless or said to be unfounded |
| Retry loop | SDK `connectorbuilder/resource_provisioner.go`, `retry/retry.go` | number of attempts of one call | run the handler, count, pause, run it again | the second run meets the traces of the first | ends; does not turn success into failure |
| Territory provisioning | `territories.go`, `client/salesforce.go` | none: an association per user and territory, in the org | Grant, Revoke of member and of role permissions | read and write are two requests; three kinds of write | success is true, other associations and roles stay as they are |
| Group, permission set, permission set group provisioning | `groups.go`, `permissions.go`, `permission_set_group.go`, `client/salesforce.go` | none: a record per user and resource, in the org | Grant, Revoke | the three look before they write in different cases | the same, and repeating a call is harmless |
| Profile and role provisioning | `profiles.go`, `roles.go` | none: two fields of the user, in the org | Grant, Revoke | a revoke of a profile replaces it by another, after five reads | the user ends with the requested profile or role, and no other is lost |
| Accounts and actions | `users.go`, `actions.go`, `client/user.go` | none | CreateAccount, Delete, enable and disable | seven calls, any of which fails; not run again | a user exists once, and gets the password mail |
| Session and rate limit data | `client/salesforce.go` (Initialize), `ratelimit.go`, `auth.go` | `initialized`, `client`, `salesforceTransport.rateLimit` | Initialize, RoundTrip | shared by concurrent calls without a lock | a call sees a complete client, and limits of its own time |
| Sync builders and paging | the `List`, `Entitlements`, `Grants` methods | the page token, kept by the SDK | one page at a time | two-phase tokens, filtered users | every record that is due is listed, and nothing else |
| Query builder, wiring, models, configuration, main | `query.go`, `connector.go`, `models.go`, `pkg/config`, `cmd` | none | formatting and construction | nothing that has states | |

Calls go from the SDK's retry loop to a builder's handler, from there to the
client's methods, from those through the request layer and the cache to the org.
The org is the only state the handlers share besides the cache; the SDK may run
several calls at once in one process, and admins and other integrations change
the org at any time.

`PROJECT.json` lists the hazards at the lines where they bite, with the
properties that would catch them, and the parts that are not modelled with the
reason.

## Modules

| Module | What it is |
|---|---|
| `SalesforceClient` | the shared layer of grants and revokes: org, cache, request steps, retry loop |
| `Provisioner` | what the grant and revoke builders have in common: goals, properties, the mapping to the contract |
| `ProvisioningContract` | the abstract specification: what a provisioner promises |
| `TerritoryProvisioning` | `territories.go` on that layer |
| `MembershipProvisioning` | `groups.go`, `permissions.go`, `permission_set_group.go` on that layer |
| `UserFieldProvisioning` | `roles.go`, `profiles.go` on that layer |
| `AccountProvisioning` | `CreateAccount` and `Delete` of `users.go`, `actions.go`, `client/user.go` |
| `ClientSession` | `New`, `Initialize`, `RoundTrip` and the rate limit data |
| `SyncPaging` | `List` and `Grants` of all builders, page by page |
| `ListingContract` | the abstract specification of a listing: what it promises the SDK |
| `MCTerritory`, `MCMembership`, `MCUserField`, `MCAccount`, `MCSession`, `MCPaging` | small instances for TLC |
| `SalesforceClientProofs`, `ProvisionerProofs` | lemmas about the layer, whatever the builder |
| `TerritoryProofs`, `MembershipProofs`, `UserFieldProofs`, `AccountProofs`, `SessionProofs`, `PagingProofs` | the theorems |

The three builder modules extend `Provisioner`, which extends `SalesforceClient`;
they compose the handlers with the cache, the retry loop and the org they share.
The other three modules stand on their own. `AccountProvisioning` has a cache of
its own kind, since `CreateAccount` is not run by the retry loop, makes a chain of
requests, and clears the caches itself. `ClientSession` looks below a request,
where every other module sees one step, and `SyncPaging` at a caller that nobody
else disturbs but through the org.

### Grants and revokes: the state

`org[s]` is the record of slot `s`. A slot is what one query of a handler selects:
a user's association with a territory, or membership in a group, and so on. It
holds at most one record, with an Id that is never used again and the one field
the handlers look at (`RoleInTerritory2`; memberships have none). `cache[s]` is
the cached answer to that query. `req[t]` is the call task `t` serves, `task[t]`
where its handler is: the point, the record it read, the write it decided on,
the attempts counted, the answer, and whether its last lookup was a cache hit
(`cached`, a history). `seen[t]` is a history variable, every value
the slot of `t` had since `t` began; `drift` counts changes by others.

### Grants and revokes: the steps

A query is three steps: `CacheHit` or `CacheMiss`, `getSObject` (the request),
and `Read`, which stores the answer and ends in the handler's decision. These
are the points at which another task can come in between: the lookup, the
evaluation in Salesforce, and `Set` in `BaseHttpClient.Do` happen at different
moments. The decision itself (`Decide`) is local computation, so it is part of
`Read`. A write is one step for its effect and its reply, and it ends the handler
(no handler does anything after its write but return): `WriteReplied`,
`WriteReplyLost` (applied, reply lost) or `WriteFails` (never applied). A login
that fails is among the causes of `QueryFails` and `WriteFails`.

A handler that returns an error goes through `Failed`: gRPC `Unavailable` and
`DeadlineExceeded` are transient and are counted, and the handler runs again
after a pause until the count exceeds `MaxAttempts`; any other error is the answer.
`Retry` starts the handler from its first line with nothing remembered.
`Cancelled` is a context that ends during the pause.

`Environment` evicts cache entries, clears the cache (as the end of a sync does)
and drifts (`UserEnvironment` drifts by updates alone). `Reject` is the refusal of a principal or entitlement before any call.

`AfterWrite` of each builder says what it makes of Salesforce's replies to a
write: territories answer a duplicate with GrantAlreadyExists, no builder
translates a 404, the others translate nothing. Salesforce itself is external:
it refuses a second record for a slot, except that a second group membership may
also be taken as the first (`CreateAgain`), as the repository's own test server
does.

A slot of `UserFieldProvisioning` is a field of a user, `UserRoleId` or
`ProfileId`. The user is read with a GET by Id and the field written with a PATCH
that names no other field, so a slot always holds a record and writes are updates
only. A profile revoke looks up the license of the profile and the profile mapped
to that license; the model has them as the constants those lookups end in, with
`None` where they find nothing (`RejectUnmapped`).

### The contract

`ProvisioningContract` knows values of slots, requests and statuses. A running
request may write its slot, any number of times, always to a value it allows
(`Allowed`: a role revoke may clear a role, not remove the membership), and may
report plain success only if the slot was in its goal at some moment of the run.
`Provisioner!KeepsContract` is the refinement, with `value`, `status` and
`witness` computed from the state of the layer.

### Accounts

All calls of `AccountProvisioning` are about one e-mail address. `users[i]` is the
user with Id `i`: whether it has the address as its Username (`named`; Salesforce
allows one), whether a query by the address finds it (`found`; the index may lag
behind a creation, and others may change an Email), and whether it is active and
frozen. `call[t].pc` walks through `CreateAccount`: `exist`, then `create`, or
`again` and perhaps `patch`, then up to `maxRetries` rounds of `clear`, `find` and
`pause`, then `mail` and `login`. Every point is one request or one wait, and every
one may fail; a write may fail after it took effect. A query that Salesforce answers
with the status 404 is a failure of its own kind (`QueryNotFound`): the SDK gives it the
code NotFound, which `UserExist` takes for "no user" and `GetUserByEmailWithRetry` for
"not yet". `Delete` and
`updateUserStatus` are `patch` alone. The histories are `seen[t]`, every answer
Salesforce would have given to any query while `t` ran; `since` of a cached answer,
the calls that ran when it was given; `stale`, that the call used an answer from
before it began; `denied`, that a query of it was answered with 404; `met`, that
another call ran at the same time; and `made`. A change by others (`Drift`) is of one
attribute of one user: active, frozen or found.

### Session

In `ClientSession` a call is one request. `Initialize` is a test of `initialized`,
a login, and three stores, which other goroutines may see one by one; a login
is named after the call that makes it, and `client` and `salesforceTransport` hold
such names. Without a lock Go promises no order of the stores, so `storesInOrder`,
whether this machine keeps it, is chosen in `Init`. `RoundTrip` is two steps: it clears
`rateLimit` before the request and sets it from the response. A call that meets a
nil pointer (`MeetsNil`) has no step: the process ends there.

### Listings

`SyncPaging` is one listing: `kind` picks it, `size` and `class` describe the records
its queries find, in two phases for the grants of a permission set. A page may end
anywhere. `token` is what the SDK holds, `saved` what it would restart from after a
crash (`Checkpoint`, `Recover`). What a builder makes of a record is the function
named after the client method (`getIsGroup`, `GetTerritoryMembers`, ...). A page of
users is followed by its `UserLogin` chunks before it is delivered, and users may be
changed by others all the while.

The queries of a listing go through the GET cache. The SDK empties it after a sync that
succeeded, not after one that failed, and a failed sync is begun anew in the same process,
so a listing may be answered with users as they were in the one before. `cached[r]` is
what cached answers say of user `r`. It starts as how the users were in that failed sync,
up to `MaxDrift` changes ago, and every answer is added to it. `Answers` is what a query may be told: the
truth, or of every user something that was cached. That is more than the cache gives, which
has one answer per URL, and a hit is never forced, so that an empty cache, an expired entry
and a restart are all included. `seen[r]` is how user `r` was since the first of the cached
answers. Other records do not change in the model, so a cached answer about them is as good
as a fresh one.

A permission set that belongs to a profile (`OfProfile`) is listed like any other. The
comment of `GetPermissionSets` says that the type is excluded, but the query has no such
condition and `getPermissionSetName` names these sets after their profile: `Due` follows
the code, and the disagreement is among the hazards.

`ListingContract` knows what is due, what of it may be missing since it was not so all the
time, what the SDK got, and whether the listing is open, complete or failed. Tokens,
phases, chunks, repeats and restarts are hidden behind it. `SyncPaging!KeepsListingContract`
is the refinement; a restart is a stutter there, because what was given stays given.

## Runs

`tlc -config <run>.cfg <module>`; every run is in `PROJECT.json`.

| Run | Instance | Shows |
|---|---|---|
| `territory_race` | 2 tasks, 2 slots, 2 roles, 1 retry | `TypeOK`, `IdsOwned`, `DoneWitnessed`, `AlreadyWitnessed`, `SettledInGoal`, `NoSelfInflictedError`, `NoCollateral`, `KeepsContract` |
| `membership_race` | 2 tasks, a group, a permission set, a permission set group, 1 retry, 1 change by others, fairness | `DoneWitnessed`, `AlreadyWitnessed`, `ComplaintWitnessed`, `RetrySucceeds`, `SettledInGoal`, `NoCollateral`, `KeepsContract`, `EveryTaskAnswered`, `HandlersRunOut` |
| `userfield_race` | 2 tasks, the role and the profile of a user, 2 profiles, 1 retry, 1 change by others | `FieldsStayProper`, `DoneWitnessed`, `ComplaintWitnessed`, `SettledInGoal`, `NoCollateral`, `KeepsContract` |
| `account_race` | 2 calls, 2 users, 2 tries, 1 change by others or 1 call that meets 404s | `CreateWitnessed`, `MailWitnessed`, `AccountUsable`, `ReportTrue`, `StatusWitnessed`, `RepeatCompletes`, `WritesFounded`, `CallsRunOut` |
| `session_race` | 3 calls, stores in order or not | `SessionComplete`, `LimitsAreRecent` |
| `sync_paging` | 16 listings, 3 records per phase, at most one user of another type than Standard, chunks of 2, 1 change by others before or during the listing, 1 repeat or restart, fairness | `ListingComplete`, `NothingForeign`, `StatusTrue`, `ListingEnds`, `ListingAdvances`, `KeepsListingContract` |

What the properties say:

- `DoneWitnessed`: plain success is reported only if the slot was as requested at
  some moment of the call, stale cache and lost replies or not.
- `AlreadyWitnessed`: the same of the annotated successes, when the record they are
  about was not cached. For territories a role grant is left out.
- `ComplaintWitnessed`: an error over a duplicate or a missing record, not cached,
  hides a request that was satisfied at some moment of the call.
- `SettledInGoal`: when nobody else touches the slot, success means that the slot is
  as requested when the call returns, cached reads included.
- `NoSelfInflictedError`, `RetrySucceeds`: when nobody else touches the slot, running
  the handler again does not fail over what it did before, unless it acts on a
  cached record.
- `IdsOwned`, `NoCollateral`: a write by a stale Id hits its own slot or nothing, and
  no write changes what is already as requested (role revokes excepted).
- `FieldsStayProper`: nobody loses the profile, and no field gets a value of the other,
  in whatever order handlers run.
- `KeepsContract`: the refinement. `EveryTaskAnswered`: every call is answered.
- `HandlersRunOut`: every step of a handler, and of the retry loop around it, lowers
  `Remaining(t)`, six steps for each failure that is still forgiven and those the attempt
  still has to make. So a call makes at most 6 * `MaxAttempts` + 6 steps.
- `CreateWitnessed`: a user is created only if the address was nobody's during the call,
  or the lookup was answered from before it, or with the status 404. No other error of the
  lookup is "no user"; a 404 is, since `UserExist` cannot tell it from its own NotFound
  (`user.go:81`), and then a second user of the address is created if the name is free.
- `MailWitnessed`, `ReportTrue`: the password mail goes to a user who had the address
  during the call, and enabled is reported only of a user who was active and not
  frozen then, whatever was cached before. Another call at the same time may put an
  older answer back into the cache, between `ClearCaches` and the lookup: these two are
  about calls that met no other.
- `AccountUsable`: success means that the reported user was mailed, and that the user
  of the address, or the one the call made, was active during the call.
- `StatusWitnessed`: the same of `Delete` and `updateUserStatus`.
- `RepeatCompletes`: a call made again after one that failed at any point does not fail
  over what the first one left, once queries find it and none is answered with 404: it
  always finds its user, and meets a duplicate only in one case, which the code has. After
  a lost reply to `CreateUser` the "no such user" that is still cached makes the repeated
  call create the user again and fail.
- `WritesFounded`: what `CreateAccount` writes has a reason of its own time. It creates a
  user because nobody had the address or the lookup was answered with 404, and activates the one who had it and was inactive,
  changing nothing else, unless it goes by an answer older than the call. `Delete` and
  `updateUserStatus` change the status of their own user alone.
- `CallsRunOut`: every step of these calls lowers a bound on the steps that remain, so a
  user the queries never show is not looked for without end.
- `SessionComplete`: whoever gets past `Initialize` finds a client and a transport, on a
  machine where stores are seen in their order; on any machine a call that began after the
  logins does. Where they are not, a call that overlaps the first login may meet nil: that
  is the data race of `Initialize`, and `Terminated` has the process end there.
  `LimitsAreRecent`: limits read from the transport the request went through arrived
  during the call.
- `ListingComplete`, `NothingForeign`: a listing that ends well gave the SDK what is due
  of every record and nothing else. What is due is stated by `Due`, apart from the
  conversion functions. `StatusTrue`: a user is listed as enabled or disabled only as it
  was at some moment of the listing or, where a sync that failed before left its answers in
  the cache, since the first of these. `ListingEnds`: it ends.
- `ListingAdvances`: every page, chunk and failure lowers a bound on the steps that remain,
  over both phases; only repeats and restarts, which are counted, take a listing back.
- `KeepsListingContract`: the refinement.

Six runs end in a counterexample and stand for a disagreement between the code
and a line of the repository (quoted in `PROJECT.json`, `findings`):

- `territory_role_duplicate`: a role grant that loses the race to create the
  association reports GrantAlreadyExists, whatever role the winner gave.
- `territory_revoke_not_found`: a retry of a revoke that took effect reads the
  record from the cache, deletes it again and reports Salesforce's 404.
- `territory_role_clobber`: a role revoke clears a role that was granted after it
  read the association.
- `membership_repeat`: a permission set that is there already, or not there any
  more, makes the call fail.
- `userfield_repeat`: a revoke of a role the user does not have any more fails with
  "missing UserRoleId". (`ComplaintWitnessed` says that at least the role is gone then.)
- `session_split_login`: two first calls log in at once and their stores interleave;
  from then on every call sends through one transport and reports the limits of the
  other, which no response reaches.

### Bounds, and why they are enough

- `MaxAttempts` is 3 in the code. It is 3 in the runs of one task and 1 in those of
  two: one repetition lets a handler meet the traces of an earlier run,
  and further ones start from states that the other task reaches as well. The theorems
  hold for any number of attempts.
- Two tasks: the races of this code are between one task's read and write and one
  other change of the slot. The other change is a task's or someone else's, and the
  runs have both.
- `MaxDrift` bounds the changes by others. `FirstId` is 2: the org starts with at
  most one record, and creates add more. `nextId` needs no bound: only a create
  moves it, and creates are bounded by attempts and drift.
- `account_race` has two calls, which may overlap or follow each other, so that one can be
  the repetition of the other; two users, so that one may have the address when another
  is created; and two tries instead of the code's three: one that another
  follows, and the last. One mishap: either someone else changes the org once, or one of
  the calls meets queries answered with 404, any number of them (`OneMishap`). The theorems
  hold for both together.
- Three calls in `session_race`: two that log in at once and one that comes later.
- Three records per phase and pages of any length give first, middle and last pages, and
  with chunks of 2 (250 in the code) a page that takes two chunks. One fault is a repeat
  or a restart; it can hit any point of the listing.
- Two roles tell "the role asked for" from "another role". Roles, tasks and slots
  are symmetric in `territory_race` (no property names one), tasks or calls in
  `userfield_race`, `account_race` and `session_race`. The runs with a
  liveness property use no symmetry; in `membership_race` the first task has the first of
  two requests, in some order of requests, which leaves out only the same with the tasks
  exchanged.
- The cache may lose an entry at any moment, so a run with it includes the
  behaviours of a connector whose cache is switched off
  (`BATON_DISABLE_HTTP_CACHE`, or a TTL of 0): every entry is lost at once.
- Deadlock is checked in every run: `Terminated` stands for the process after all
  answers, so that any other state without a step would be an error.

### Fairness

`MembershipProvisioning!Fairness` is weak fairness of `TaskStep(t)`: a handler that runs goes on.
Each of its steps is an HTTP call, which ends with an answer, an error or a timeout,
or the pause of the retry loop, which ends by its timer or with the context.
Nothing is assumed of `Begin`, drift or the cache. That no call is retried for
ever follows from the count, not from fairness.

`SyncPaging!Spec` assumes weak fairness of `Progress`: every request is answered or
times out, and then the builder returns and the SDK asks for the next page. Repeats
and restarts (`Recover`) are bounded, as the SDK gives up in the end.

## Proofs

TLC sees two tasks and two slots; the theorems hold for every set of tasks, slots,
roles, profiles, calls and users, any `MaxAttempts` above 0, any number of tries,
records and pages, any amount of drift and of cached reads. They rest on the named
assumptions: the values, requests, goals and allowed writes are those of the builder
(`ValuesAssumption`, `RequestsAssumption`, `TerritoryAssumption`,
`MembershipAssumption`, `UserFieldAssumption`), what is allowed is in the goal
(`AllowedAssumption`), the bounds are numbers (`BoundsAssumption`, `AccountBounds`,
`PagingBounds`), and the nil pointer is no login (`SessionAssumption`). TLC evaluates
all of them in the runs.

| Theorems | State |
|---|---|
| `TerritoryProofs!TypeCorrect`, `TerritoryProofs!IdsAreOwned` | `TypeOK`, `IdsOwned` |
| `SuccessIsWitnessed`, for all three builder modules | `DoneWitnessed` |
| `WritesAreNotCollateral`, for all three | `NoCollateral` |
| `ContractIsKept`, for all three | `KeepsContract`, the refinement |
| `SuccessIsSettled`, for all three | `SettledInGoal` |
| `AlreadyIsWitnessed`, for territories and memberships | `AlreadyWitnessed` |
| `ComplaintIsWitnessed`, for memberships and user fields | `ComplaintWitnessed` |
| `TerritoryProofs!NoErrorIsSelfInflicted`, `MembershipProofs!RetriesSucceed` | `NoSelfInflictedError`, `RetrySucceeds` |
| `UserFieldProofs!FieldsAreProper` | `FieldsStayProper` |
| `AccountProofs!CreationIsWitnessed`, `MailIsWitnessed`, `AccountIsUsable`, `ReportIsTrue`, `StatusIsWitnessed`, `RepeatDoesComplete`, `WritesAreFounded` | `CreateWitnessed`, `MailWitnessed`, `AccountUsable`, `ReportTrue`, `StatusWitnessed`, `RepeatCompletes`, `WritesFounded` |
| `SessionProofs!SessionIsComplete`, `ReportsAreRecent` | `SessionComplete`, `LimitsAreRecent` |
| `PagingProofs!ListingsAreComplete`, `ListingsAreClean`, `StatusIsTrue` | `ListingComplete`, `NothingForeign`, `StatusTrue` |
| `PagingProofs!ListingContractIsKept` | `KeepsListingContract`, the refinement |
| `HandlersDoRunOut` for all three builder modules, `AccountProofs!CallsDoRunOut`, `PagingProofs!ListingsAdvance` | `HandlersRunOut`, `CallsRunOut`, `ListingAdvances` |
| `InvHolds`, `HistoryHolds` | the inductive invariants below |

### Success, writes and the contract

`DoneWitnessed` alone is not inductive: a step that confirms a write makes a task
successful, and the new value is in the goal only if the write was decided for that
request and hits that request's slot. So the invariant is

- `TypeOK`;
- `IdsOwned`: every copy of a record, in the org, the cache or a handler, has an Id
  that no other slot's record has. This is what makes a write by a stale Id
  harmless: it hits its own slot or nothing;
- `SeenNow`: the history of a running task includes the present, so a write whose
  effect is the present value is witnessed;
- `AnswerLast`: only an answered task has an answer;
- `WriteAllowed`: a task about to write holds a call its request allows, and
  what is allowed is in the goal;
- `DoneWitnessed`;
- for territories, `WriteDecided`: the pending write is the one `Decide` chooses for
  the record held, from which `NoCollateral` follows; for user fields, `UpdatesOnly`
  and `FieldsStayProper`.

`SalesforceClientProofs` proves for each step of the layer that it keeps the first
four (`ClientInv`), with two lemmas that carry the weight: `IdsKeptByChange` (a slot
that changes gives a new Id, keeps its Id or loses its record) and `ServeEffect` (a
write takes effect in the task's own slot or not at all). `ProvisionerProofs` adds
the next two and the refinement for any builder whose decisions and translations
fit (`FitDecision`, `FitTranslation`); the builders' modules show that theirs do.

### Annotated success, complaints and retries

These properties relate what a handler read to the history of its slot
(`HistoryInv`, kept on top of the invariant above):

- `FreshRead`: a record that came from Salesforce in this attempt shows a value the
  slot had during the call, and its Id is still the slot's unless the record went away
  in the meantime. With it, a duplicate means that the record was there, and a 404
  that it was gone, at some moment of the call;
- `CopiesSettled`: when nobody else touches the slot, a copy that is out of date, in
  the cache or in the handler, is from before the task's own write, and it is one on
  which the handler decides to write again. So no attempt is led by it to claim
  success without a write;
- `NoErrorYet`, and for memberships `WriteFits`: an error is final, and the write that
  is pending is the one the record read calls for.

A repeated write does not undo success because what a request allows is one value:
writing it again changes nothing.

### Accounts

`AccountInv` says of an answer, cached or in a handler's hands, which calls it is
true of: `TrueEntry`, every call in `since` has it in its history. From this follows
that a call whose lookups were not `stale` saw what they say, and that a call about to
create saw nobody with the address unless it was `denied`. `AloneUnlessMet` and
`OwnAnswers` carry it over `ClearCaches`: after it only calls that run can fill the
cache, and if the call is alone, these are its own answers. `UsableLater` keeps, on
the way to the mail, that a usable user was seen. `RepeatInv` adds for a call that
nobody disturbs that what it read is the present until it writes itself
(`KnowsPresent`), so that a complaint can only be about a user who has the name and
is not found (`FairComplaint`). That the query by the address has an answer at all,
a first one among the users found, is `SomeoneIsFirst`, by well-foundedness of the
naturals. That a user the queries find stays found while nobody disturbs
the call (`FoundStays`) is what makes the tries succeed, and so the call never ends with
"not found". `WritesFounded` needs one fact more, `PatchNamed`: a call about to activate a
user holds the answer of its second lookup, which its history has unless it is `stale`.

### Session

`LimitsInv`: nobody uses the client of a login that is yet to be made
(`ClientsAreMade`), so a login never overwrites the limits another call is about to
read, and what is in a transport a call sends through arrived since the call cleared it
(`LimitsArrived`).

`SessionInv` does without an assumption on the machine. What is stored stays
(`StoresAreThere`). `FlagIsBacked`: when `initialized` is seen, each pointer is there, or
the stores are not seen in their order and some call still owes that store. A call that
begins when no login is under way finds nobody who owes anything, so that both pointers are
there (`SettledIsWhole`), and as they never become nil again this lasts (`LateIsWhole`).

### Listings

`Covered(token)` and `Covered(saved)`: what is due of every record that comes before the
token, in the order of phases and records, was given to the SDK. A repeat or a restart
goes back to a token that is covered. `Shaped` says that a URL belongs to the phase its
prefix stands for, without which a second page of one phase would be read as one of the
other, and `PageFits` what is known of a page of users whose logins are being read.
`SeenIsTrue` says that history has how a user is and all that cached answers say of it, and
`AnswerIsSeen` that every answer, from the cache or not, keeps it so.

The refinement rests on the same invariant. A step that delivers gives what is due and
takes nothing back (`Gives`), no step changes what is due (`OrgKept`), and what a changing
user excuses only grows (`ExcusedGrows`). That a listing without a second phase has no
records of one (`OnePhase`) is needed for "complete": what is due of a phase that is never
asked for would otherwise be missing.

### Why calls and listings end

Three liveness arguments have a safety part, which is proved. `Remaining(t)` and
`StepsLeft` are natural numbers that every step of a handler, a call or a listing lowers
(`HandlersDoRunOut`, `CallsDoRunOut`, `ListingsAdvance`), whatever fails and whoever else
is at work. They are natural numbers only because of `AttemptsBounded` and `TriesBounded`,
that a call that goes on has an attempt or a try left, which are kept along with the
invariant. For listings the bound of a token counts the records from it to the end of its
phase and all of the next one; for a page of users it counts the users whose logins are not
yet looked up, so a chunk must look up at least one (`GetUserLoginsCounts`).

### Only model-checked

`EveryTaskAnswered` and `ListingEnds`: what the measures leave is that a call or a listing
that has not ended has a step, and fairness of it, and both are out of the prover's reach.
The runs that end in a counterexample are TLC's by nature.

## What is not modelled

- Numbers and texts: the length of pauses, errors and logs, the limits inside rate limit
  data, names and other fields of users and resources, the grants a success returns.
- The query builder, which puts SOQL together; which records a query selects is in the
  models. Configuration and command line, and the vendored SDK beyond its cache, its
  retry loop and its paging. The exchange of credentials for a token.
- A query of a grant or revoke that selects more than one record (the code logs it and
  takes the first): Salesforce keeps these records unique.
- A second page of `getTerritoryRoles`, whose URL the code drops: a picklist is shorter
  than a page. `Entitlements` are constant tables.
- A profile revoke whose mapped profile does not exist ends the process with a nil
  pointer; in the model that call ends without a write.
- A created user is active, as Salesforce makes it; users are never deleted.
- A crash of the connector between two steps of a grant, revoke or account call loses
  only what the handler had read; for the org it is a call that stops, which every safety
  property covers, since no step is forced. A crash during a listing is `Recover`.
