----------------------------- MODULE SyncPaging -----------------------------
(***************************************************************************)
(* One listing of the sync: the pages the SDK asks a builder's List or     *)
(* Grants for, with the page token of the last one, until that is empty.   *)
(* Salesforce cuts the records of a query into pages as it likes, and      *)
(* names the next page by a URL, which the builders use as the token.      *)
(*                                                                         *)
(* There is one action for the List and one for the Grants of each         *)
(* builder.  All convert the records of a page one by one; what they make  *)
(* of a record depends on the record and is the function named after the   *)
(* client method.  Two are more than that: the grants of a permission set  *)
(* come in two phases, users first and then permission set groups, told    *)
(* apart by a prefix of the token; the list of users asks for the          *)
(* UserLogin of a page of users in chunks.                                 *)
(*                                                                         *)
(* The connector keeps nothing between two pages but the SDK's cache of    *)
(* GET answers, which a listing may find filled: it is emptied after a     *)
(* sync that succeeds, and a sync that failed is begun anew.  Of users, so *)
(* much of it is followed as tells how they are; other records are taken   *)
(* to stay as they are, so that a cached answer about them is a fresh one. *)
(* The SDK repeats a page that failed for a while, and continues after a   *)
(* restart from the token it saved last.                                   *)
(***************************************************************************)
EXTENDS Integers, FiniteSets

CONSTANTS
  MaxRows,     \* bound on the records of a query
  userLoginInClauseChunkSize,
  MaxDrift,    \* bound on the changes of users by anyone else
  MaxFaults    \* bound on the failures the SDK recovers from

ASSUME PagingBounds ==
  /\ MaxRows \in Nat /\ userLoginInClauseChunkSize \in Nat \ {0}
  /\ MaxDrift \in Nat /\ MaxFaults \in Nat

VARIABLES
  kind,       \* the listing
  size,       \* size[p]: the number of records phase p's query looks at
  class,      \* class[p][r]: what there is to know of record r
  syncDeactivatedUsers, syncNonStandardUsers,
  active, frozen,   \* the users that are, in Salesforce
  cached,     \* cached[r]: how some cached answers say user r is
  token,      \* the page token the SDK holds
  saved,      \* the one it would restart from
  pc,         \* "page": the next page is due; "logins": a page of users is read
  page,       \* that page
  emitted,    \* what the SDK got, of any page
  enabled,    \* the users it got as enabled
  seen,       \* history: seen[r]: how user r was since the first of the cached answers
  drift, faults

orgVars == <<kind, size, class, syncDeactivatedUsers, syncNonStandardUsers>>
pagingVars == <<kind, size, class, syncDeactivatedUsers, syncNonStandardUsers, active, frozen,
                cached, token, saved, pc, page, emitted, enabled, seen, drift, faults>>

-----------------------------------------------------------------------------
Lists == {"users", "groups", "permissionSets", "profiles", "roles", "permissionSetGroups",
          "territories", "territoryRoles", "connectedApplications", "agents"}
Grants == {"groupGrants", "permissionGrants", "profileGrants", "roleGrants",
           "permissionSetGroupGrants", "territoryGrants"}
Kinds == Lists \cup Grants

Rows == 1 .. MaxRows
Phases == 1 .. 2
PhasesOf(k) == IF k = "permissionGrants" THEN {1, 2} ELSE {1}

(* Of a user: its type; of a group member: whose id it holds; of a member  *)
(* of a territory: if it has a role there; of a territory: the state of    *)
(* its model; of a role of territories: if it has a value; of a permission *)
(* set: if it belongs to a profile.  "Malformed" is a record with a field  *)
(* that cannot be read.                                                    *)
Classes == {"Standard", "Portal", "NoType", "User", "Group", "Other", "WithRole", "Active",
            "Planned", "NoValue", "OfProfile", "Plain", "Malformed"}

ClassesOf(k, p) ==
  {c \in Classes :
     \/ c \in {"Standard", "Portal"} /\ k \in {"users", "profileGrants", "roleGrants"}
     \/ c = "NoType" /\ k = "users"
     \/ c \in {"User", "Group", "Other"} /\ k = "groupGrants"
     \/ c = "WithRole" /\ k = "territoryGrants"
     \/ c \in {"Active", "Planned"} /\ k = "territories"
     \/ c = "NoValue" /\ k = "territoryRoles"
     \/ c = "OfProfile" /\ k = "permissionSets"
     \/ c = "Malformed" /\ (k = "permissionSetGroups" \/ p = 2)
     \/ c = "Plain" /\ k \notin {"users", "profileGrants", "roleGrants", "groupGrants",
                                 "territories"}}

\* A URL names the query it belongs to and the last record before the page.
URLs == [phase : Phases, at : Rows]
NoURL == [phase |-> 1, at |-> 0]

(* A page token is a URL with or without the prefix.  Without URL and      *)
(* without prefix it is the empty token.                                   *)
Tokens == [prefix : BOOLEAN, url : URLs \cup {NoURL}]
EmptyToken == [prefix |-> FALSE, url |-> NoURL]

(* What a record becomes: a resource or entitlement, or a grant to a user, *)
(* a group or a permission set group; "role" is the second grant of a      *)
(* member of a territory.                                                  *)
Forms == {"resource", "user", "group", "permissionSetGroup", "role"}
Emission(f, p, r) == [as |-> f, phase |-> p, row |-> r]
Emissions == [as : Forms, phase : Phases, row : Rows]

Flags == {"active", "inactive", "frozen", "thawed"}

(* kept: the users of the page that are wanted; lit: those of them read as *)
(* active; looked: those whose chunk of UserLogins was read; locked: those *)
(* found frozen; next: the token for the page after it.                    *)
Pages == [kept : SUBSET Rows, lit : SUBSET Rows, looked : SUBSET Rows,
          locked : SUBSET Rows, next : Tokens]
NoPage == [kept |-> {}, lit |-> {}, looked |-> {}, locked |-> {}, next |-> EmptyToken]

\* Every variable has its type.
TypeOK ==
  /\ kind \in Kinds
  /\ size \in [Phases -> 0 .. MaxRows]
  /\ class \in [Phases -> [Rows -> Classes]]
  /\ syncDeactivatedUsers \in BOOLEAN /\ syncNonStandardUsers \in BOOLEAN
  /\ active \subseteq Rows /\ frozen \subseteq Rows
  /\ token \in Tokens /\ saved \in Tokens
  /\ pc \in {"page", "logins", "done", "error"}
  /\ page \in Pages
  /\ emitted \subseteq Emissions
  /\ enabled \subseteq Rows
  /\ cached \in [Rows -> SUBSET Flags] /\ seen \in [Rows -> SUBSET Flags]
  /\ drift \in Nat /\ faults \in Nat

\* How user r is, if the users in a are active and those in f frozen.
FlagsIn(a, f, r) == {IF r \in a THEN "active" ELSE "inactive",
                     IF r \in f THEN "frozen" ELSE "thawed"}
FlagsOf(r) == FlagsIn(active, frozen, r)

\* WHERE UserType = Standard; with syncNonStandardUsers, no filter.
UserQuery(c) == syncNonStandardUsers \/ c = "Standard"

shouldSkipSyncingUserType(c) == c = "NoType"

(* The users whose state is followed; the others are never listed.         *)
Users == {r \in 1 .. size[1] : /\ kind = "users"
                               /\ UserQuery(class[1][r])
                               /\ ~shouldSkipSyncingUserType(class[1][r])}

\* The number of changes between two sets of users.
Changes(S, T) == Cardinality((S \ T) \cup (T \ S))

(* Only users are active or frozen, and the settings are about them.  The  *)
(* cache holds what a sync that failed before this one was told, if there  *)
(* was one: how the users were then, MaxDrift changes ago at most.  No     *)
(* step need use it, so an empty cache is a case of this.                  *)
Init ==
  /\ kind \in Kinds
  /\ size \in [Phases -> 0 .. MaxRows]
  /\ 2 \notin PhasesOf(kind) => size[2] = 0
  /\ \E c1 \in [1 .. size[1] -> ClassesOf(kind, 1)], c2 \in [1 .. size[2] -> ClassesOf(kind, 2)] :
       class = [p \in Phases |-> [r \in Rows |-> IF r > size[p] THEN "Plain"
                                               ELSE IF p = 1 THEN c1[r] ELSE c2[r]]]
  /\ syncDeactivatedUsers \in BOOLEAN /\ (kind # "users" => syncDeactivatedUsers)
  /\ syncNonStandardUsers \in BOOLEAN /\ (kind # "users" => syncNonStandardUsers)
  /\ active \in SUBSET Users /\ frozen \in SUBSET Users
  /\ token = EmptyToken /\ saved = EmptyToken
  /\ pc = "page"
  /\ page = NoPage
  /\ emitted = {} /\ enabled = {}
  /\ \E a \in SUBSET Users, f \in SUBSET Users :
       /\ cached = [r \in Rows |-> FlagsIn(a, f, r)]
       /\ drift = Changes(a, active) + Changes(f, frozen)
       /\ drift <= MaxDrift
  /\ seen = [r \in Rows |-> cached[r] \cup FlagsOf(r)]
  /\ faults = 0

-----------------------------------------------------------------------------
(* What the client makes of a record; a record it cannot read makes the    *)
(* whole page fail.                                                        *)

Fails == {"error"}
GetGroups == [c \in Classes |-> {"resource"}]

\* Also those that belong to a profile, which are given the profile's name.
GetPermissionSets == [c \in Classes |-> {"resource"}]

GetProfiles == [c \in Classes |-> {"resource"}]
GetUserRoles == [c \in Classes |-> {"resource"}]
GetConnectedApplications == [c \in Classes |-> {"resource"}]
GetBotDefinitions == [c \in Classes |-> {"resource"}]
GetPermissionSetGroups == [c \in Classes |-> IF c = "Malformed" THEN Fails ELSE {"resource"}]

\* WHERE Territory2ModelId IN the active models.
GetTerritories == [c \in Classes |-> IF c = "Active" THEN {"resource"} ELSE {}]

GetTerritoryRoles == [c \in Classes |-> IF c = "NoValue" THEN {} ELSE {"resource"}]

\* An id that begins neither with 00G nor with 005: the record is skipped.
getIsGroup == [c \in Classes |-> IF c = "Group" THEN {"group"}
                                 ELSE IF c = "User" THEN {"user"} ELSE {}]

\* Of a member with a role, two grants.
GetTerritoryMembers == [c \in Classes |-> {"user"} \cup IF c = "WithRole" THEN {"role"} ELSE {}]

\* WHERE UserType = Standard, whatever syncNonStandardUsers says.
getAssignments == [c \in Classes |-> IF c = "Standard" THEN {"user"} ELSE {}]

GetPermissionSetGroupAssignments == [c \in Classes |-> {"user"}]
GetPermissionSetAssignments == [c \in Classes |-> {"user"}]
GetPermissionSetGroupComponentsByPermissionSet ==
  [c \in Classes |-> IF c = "Malformed" THEN Fails ELSE {"permissionSetGroup"}]

-----------------------------------------------------------------------------
(* One page of a query.                                                    *)

\* Where a page of query q that begins after record a may end.
PageEnds(q, a) == {e \in a .. size[q] : e > a \/ e = size[q]}

NextRecordsURL(q, e) == IF e < size[q] THEN [phase |-> q, at |-> e] ELSE NoURL

\* The query the token's URL belongs to; without URL, the one of phase p.
QueryOf(p) == IF token.url.at = 0 THEN p ELSE token.url.phase

\* The token is the URL.
PlainToken(url) == [prefix |-> FALSE, url |-> url]

\* The SDK gets a page, with the token for the next.
Return(next) ==
  /\ token' = next
  /\ pc' = IF next = EmptyToken THEN "done" ELSE IF next = token THEN "error" ELSE "page"

\* The page of query q up to record e, of whose records is made what made says.
Deliver(q, made, e, next) ==
  LET rows == token.url.at + 1 .. e
  IN  \/ /\ \E r \in rows : made[class[q][r]] = Fails
         /\ pc' = "error"
         /\ UNCHANGED <<token, emitted>>
      \/ /\ \A r \in rows : made[class[q][r]] # Fails
         /\ emitted' = emitted \cup
              UNION {{Emission(f, q, r) : f \in made[class[q][r]]} : r \in rows}
         /\ Return(next)

Page(k, made) ==
  /\ pc = "page"
  /\ kind = k
  /\ \E e \in PageEnds(1, token.url.at) : Deliver(1, made, e, PlainToken(NextRecordsURL(1, e)))
  /\ UNCHANGED <<orgVars, active, frozen, cached, saved, page, enabled, seen, drift, faults>>

GroupList == Page("groups", GetGroups)
PermissionList == Page("permissionSets", GetPermissionSets)
ProfileList == Page("profiles", GetProfiles)
RoleList == Page("roles", GetUserRoles)
PermissionSetGroupList == Page("permissionSetGroups", GetPermissionSetGroups)
TerritoryList == Page("territories", GetTerritories)
ConnectedApplicationList == Page("connectedApplications", GetConnectedApplications)
GroupGrants == Page("groupGrants", getIsGroup)
ProfileGrants == Page("profileGrants", getAssignments)
RoleGrants == Page("roleGrants", getAssignments)
PermissionSetGroupGrants == Page("permissionSetGroupGrants", GetPermissionSetGroupAssignments)
TerritoryGrants == Page("territoryGrants", GetTerritoryMembers)

\* INVALID_TYPE: the org has no such object, and so no agents.
NotSupported ==
  /\ pc = "page"
  /\ kind = "agents" /\ size[1] = 0
  /\ Return(EmptyToken)
  /\ UNCHANGED <<orgVars, active, frozen, cached, saved, page, emitted, enabled, seen, drift,
                 faults>>

AgentList == Page("agents", GetBotDefinitions) \/ NotSupported

(* The URL of a second page is dropped; a picklist has fewer values than a *)
(* page has room for.                                                      *)
StaticEntitlements ==
  /\ pc = "page"
  /\ kind = "territoryRoles"
  /\ Deliver(1, GetTerritoryRoles, size[1], EmptyToken)
  /\ UNCHANGED <<orgVars, active, frozen, cached, saved, page, enabled, seen, drift, faults>>

-----------------------------------------------------------------------------
(* The grants of a permission set.                                         *)

\* Variant: the last page of users is the last page.
LastUsersAreLast(url) == [prefix |-> FALSE, url |-> url]

\* After the last page of users come the permission set groups.
TokenAfterUsers(url) ==
  IF url = NoURL THEN [prefix |-> TRUE, url |-> NoURL] ELSE [prefix |-> FALSE, url |-> url]

\* Variant: the prefix is put on every token of the second phase.
AlwaysPrefixed(url) == [prefix |-> TRUE, url |-> url]

\* Variant: the prefix is not put back.
PrefixLost(url) == [prefix |-> FALSE, url |-> url]

TokenAfterGroups(url) ==
  IF url = NoURL THEN EmptyToken ELSE [prefix |-> TRUE, url |-> url]

PermissionGrants ==
  /\ pc = "page"
  /\ kind = "permissionGrants"
  /\ IF token.prefix
     THEN \E e \in PageEnds(QueryOf(2), token.url.at) :
            Deliver(QueryOf(2), GetPermissionSetGroupComponentsByPermissionSet, e,
                    TokenAfterGroups(NextRecordsURL(QueryOf(2), e)))
     ELSE \E e \in PageEnds(QueryOf(1), token.url.at) :
            Deliver(QueryOf(1), GetPermissionSetAssignments, e,
                    TokenAfterUsers(NextRecordsURL(QueryOf(1), e)))
  /\ UNCHANGED <<orgVars, active, frozen, cached, saved, page, enabled, seen, drift, faults>>

-----------------------------------------------------------------------------
(* A page of users, and then their UserLogins.                             *)

(* What a query may tell of the users in rows: now is the set of those     *)
(* that are so; a cached answer tells of each something that was cached.   *)
Answers(on, off, now, rows) ==
  {now \cap rows} \cup
  {told \in SUBSET rows : \A r \in rows : (IF r \in told THEN on ELSE off) \in cached[r]}

\* The answer is in the cache.
Remember(on, off, told, rows) ==
  cached' = [r \in Rows |-> IF r \in rows THEN cached[r] \cup {IF r \in told THEN on ELSE off}
                           ELSE cached[r]]

(* Of the users the query finds, the deactivated and those with no type    *)
(* are left out.                                                           *)
GetUsers ==
  /\ pc = "page"
  /\ kind = "users"
  /\ \E e \in PageEnds(1, token.url.at) :
       LET rows == {r \in token.url.at + 1 .. e : UserQuery(class[1][r])}
       IN  \E lit \in Answers("active", "inactive", active, rows) :
             /\ page' = [kept |-> {r \in rows : /\ r \in lit \/ syncDeactivatedUsers
                                               /\ ~shouldSkipSyncingUserType(class[1][r])},
                         lit |-> {r \in lit : ~shouldSkipSyncingUserType(class[1][r])},
                         looked |-> {}, locked |-> {},
                         next |-> PlainToken(NextRecordsURL(1, e))]
             /\ Remember("active", "inactive", lit, rows)
  /\ pc' = "logins"
  /\ UNCHANGED <<orgVars, active, frozen, token, saved, emitted, enabled, seen, drift, faults>>

\* The next userLoginInClauseChunkSize users of the page.
Chunk ==
  LET rest == page.kept \ page.looked
  IN  {r \in rest : Cardinality({q \in rest : q < r}) < userLoginInClauseChunkSize}

\* Variant: what is on the first page of the chunk's answer is all there is.
FirstPageOnly(got) == TRUE

\* An answer in several pages is an error.
NotPaginated(got) == got = Chunk

GetUserLoginsByUserIDs ==
  /\ pc = "logins"
  /\ Chunk # {}
  /\ \E got \in SUBSET Chunk, told \in Answers("frozen", "thawed", frozen, Chunk) :
       /\ NotPaginated(got)
       /\ page' = [page EXCEPT !.looked = @ \cup Chunk, !.locked = @ \cup (got \cap told)]
       /\ Remember("frozen", "thawed", told, Chunk)
  /\ UNCHANGED <<orgVars, active, frozen, token, saved, pc, emitted, enabled, seen, drift,
                 faults>>

userResources ==
  /\ pc = "logins"
  /\ page.looked = page.kept
  /\ emitted' = emitted \cup {Emission("resource", 1, r) : r \in page.kept}
  /\ enabled' = (enabled \ page.kept) \cup (page.lit \ page.locked)
  /\ Return(page.next)
  /\ page' = NoPage
  /\ UNCHANGED <<orgVars, active, frozen, cached, saved, seen, drift, faults>>

-----------------------------------------------------------------------------
(* Failures, the SDK, and everyone else.                                   *)

(* The page fails for good: the request, a field of a user that cannot be  *)
(* read, a chunk of UserLogins that is paginated.                          *)
ListingFails ==
  /\ pc \in {"page", "logins"}
  /\ pc' = "error"
  /\ page' = NoPage
  /\ UNCHANGED <<orgVars, active, frozen, cached, token, saved, emitted, enabled, seen, drift,
                 faults>>

(* The page fails, and is asked for again; or the process ends, and starts *)
(* from the token that was saved.                                          *)
Recover ==
  /\ pc \in {"page", "logins"}
  /\ faults < MaxFaults
  /\ faults' = faults + 1
  /\ token' \in {token, saved}
  /\ pc' = "page"
  /\ page' = NoPage
  /\ UNCHANGED <<orgVars, active, frozen, cached, saved, emitted, enabled, seen, drift>>

Checkpoint ==
  /\ pc = "page"
  /\ saved # token
  /\ saved' = token
  /\ UNCHANGED <<orgVars, active, frozen, cached, token, pc, page, emitted, enabled, seen, drift,
                 faults>>

\* Someone else activates, deactivates, freezes or unfreezes user r.
Drift(r) ==
  /\ pc \in {"page", "logins"}
  /\ drift < MaxDrift
  /\ drift' = drift + 1
  /\ \/ /\ active' = (active \ {r}) \cup ({r} \ active)
        /\ UNCHANGED frozen
     \/ /\ frozen' = (frozen \ {r}) \cup ({r} \ frozen)
        /\ UNCHANGED active
  /\ seen' = [q \in Rows |-> seen[q] \cup FlagsOf(q)']
  /\ UNCHANGED <<orgVars, cached, token, saved, pc, page, emitted, enabled, faults>>

Progress ==
  \/ GroupList \/ PermissionList \/ ProfileList \/ RoleList \/ PermissionSetGroupList
  \/ TerritoryList \/ ConnectedApplicationList \/ AgentList \/ StaticEntitlements
  \/ GroupGrants \/ ProfileGrants \/ RoleGrants \/ PermissionSetGroupGrants \/ TerritoryGrants
  \/ PermissionGrants
  \/ GetUsers \/ GetUserLoginsByUserIDs \/ userResources

Terminated == pc \in {"done", "error"} /\ UNCHANGED pagingVars

Next == Progress \/ ListingFails \/ Recover \/ Checkpoint \/ (\E r \in Users : Drift(r))
        \/ Terminated

(* Every request gets an answer or times out, and then the builder returns *)
(* and the SDK goes on.                                                    *)
Spec == Init /\ [][Next]_pagingVars /\ WF_pagingVars(Progress)

-----------------------------------------------------------------------------
(* The properties.                                                         *)

(* What the SDK should get of a record: every user of a type that is       *)
(* wanted, every territory of an active model, every role with a value;    *)
(* for a member a grant to the user, group or permission set group it is,  *)
(* and for a member with a role of a territory one more.  A permission set *)
(* that belongs to a profile is due like the others: the code lists it and *)
(* names it after the profile, although the comment of GetPermissionSets   *)
(* says that it is left out.                                               *)
Due(p, r) ==
  {f \in Forms :
     \/ /\ f = "resource" /\ kind \in Lists
        /\ class[p][r] \notin {"Planned", "NoValue", "NoType"}
        /\ class[p][r] = "Portal" => syncNonStandardUsers
     \/ /\ f = "user" /\ kind \in Grants /\ p = 1
        /\ class[p][r] \in {"Standard", "User", "Plain", "WithRole"}
     \/ f = "group" /\ class[p][r] = "Group"
     \/ f = "role" /\ class[p][r] = "WithRole"
     \/ f = "permissionSetGroup" /\ p = 2}

(* A listing that ends well has given the SDK what is due of every record  *)
(* of every phase, however Salesforce cut the pages, whichever pages were  *)
(* repeated and wherever the process was started again; only a user that   *)
(* was deactivated some time may be missing: while the listing ran, or in  *)
(* a sync that failed before it, whose answers List may find in the cache. *)
ListingComplete ==
  pc = "done" =>
    \A p \in PhasesOf(kind) : \A r \in 1 .. size[p] : \A f \in Due(p, r) :
      \/ Emission(f, p, r) \in emitted
      \/ kind = "users" /\ ~syncDeactivatedUsers /\ "inactive" \in seen[r]

(* Nothing is given to the SDK that is not due: a user of a type that is   *)
(* left out, a group or permission set group as if it were a user.         *)
NothingForeign ==
  \A e \in emitted : e.row <= size[e.phase] /\ e.as \in Due(e.phase, e.row)

(* A user is given as enabled only if it was active, and was not frozen,   *)
(* while the listing ran, and as disabled only if it was not so.  While it *)
(* ran, or, where a sync that failed before it left answers in the cache   *)
(* of GETs, since the first of these: an answer that List reuses is an     *)
(* hour old at most, but it may be older than the listing.                 *)
StatusTrue ==
  kind = "users" =>
    \A e \in emitted :
      IF e.row \in enabled THEN {"active", "thawed"} \subseteq seen[e.row]
      ELSE seen[e.row] \cap {"inactive", "frozen"} # {}

(* A bound on the steps from a page with token k on: for every record      *)
(* after it one that asks for a page, one that asks for its UserLogin and  *)
(* one that gives the page to the SDK.                                     *)
StepsFrom(k) ==
  IF k.prefix THEN 3 * (size[2] - k.url.at) + 2
  ELSE 3 * (size[1] - k.url.at) + 3 * size[2] + 5

StepsLeft ==
  CASE pc = "page" -> StepsFrom(token)
    [] pc = "logins" -> 1 + Cardinality(page.kept \ page.looked)
                          + IF page.next = EmptyToken THEN 0 ELSE StepsFrom(page.next)
    [] OTHER -> 0

(* No listing goes in circles: every page, every chunk of UserLogins and   *)
(* every failure brings its end closer, over both phases of a permission   *)
(* set's grants, whatever the users do meanwhile.  Only a repeated page or *)
(* a restart, which the SDK counts, takes it back.                         *)
ListingAdvances ==
  [][UNCHANGED <<saved, drift, faults>> => StepsLeft' \in 0 .. StepsLeft - 1]_pagingVars

\* Every listing ends.
ListingEnds == <>(pc \in {"done", "error"})

-----------------------------------------------------------------------------
(* The contract.                                                           *)

AllDue ==
  UNION {UNION {{Emission(f, p, r) : f \in Due(p, r)} : r \in 1 .. size[p]} : p \in Phases}

Excused == IF kind = "users" /\ ~syncDeactivatedUsers
           THEN {e \in AllDue : "inactive" \in seen[e.row]} ELSE {}

Listing == INSTANCE ListingContract WITH
  due <- AllDue,
  excused <- Excused,
  given <- emitted,
  status <- CASE pc = "done" -> "complete" [] pc = "error" -> "failed" [] OTHER -> "open"

(* Behind its tokens, phases, chunks, repeated pages and restarts every    *)
(* listing is one that gives what is due, whole pages at a time, and ends  *)
(* complete or fails; the SDK never ends one because a page's token named  *)
(* the same page again.                                                    *)
KeepsListingContract == Listing!Spec
=============================================================================
