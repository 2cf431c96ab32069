---------------------------- MODULE PagingProofs ----------------------------
(***************************************************************************)
(* For any number of records and any chunk size: a listing of the sync     *)
(* that ends well is complete, gives nothing that is not due, and gives    *)
(* users the status they had.                                              *)
(*                                                                         *)
(* The inductive invariant says of a page token what the SDK has already:  *)
(* all that is due of the records before it.  This holds of the token in   *)
(* use and of the saved one, which is why a repeated page and a restart    *)
(* lose nothing.                                                           *)
(***************************************************************************)
EXTENDS SyncPaging, FiniteSetTheorems, TLAPS

\* Record r of phase p comes before token k.
Before(k, p, r) ==
  IF p = 1 THEN k.prefix \/ r <= k.url.at ELSE k.prefix /\ r <= k.url.at

\* A URL belongs to the phase the prefix stands for, and is not at the end.
Shaped(k) ==
  /\ k \in Tokens
  /\ k.url.at # 0 => k.url.phase = IF k.prefix THEN 2 ELSE 1
  /\ k.url.at # 0 => k.url.at < size[k.url.phase]
  /\ k.prefix => kind = "permissionGrants"

\* What is due of record r of phase p has been given, or need not be.
Given(p, r) ==
  \A f \in Due(p, r) :
    \/ Emission(f, p, r) \in emitted
    \/ kind = "users" /\ ~syncDeactivatedUsers /\ "inactive" \in seen[r]

Covered(k) == \A p \in PhasesOf(kind) : \A r \in 1 .. size[p] : Before(k, p, r) => Given(p, r)

ClassesFit ==
  \A p \in PhasesOf(kind) : \A r \in 1 .. size[p] : class[p][r] \in ClassesOf(kind, p)

\* History has how a user is, and whatever an answer in the cache says of it.
SeenIsTrue == \A r \in Rows : FlagsOf(r) \subseteq seen[r] /\ cached[r] \subseteq seen[r]

\* The page of users that is being read.
PageFits ==
  pc = "logins" =>
    /\ kind = "users"
    /\ \E e \in PageEnds(1, token.url.at) :
         /\ page.next = PlainToken(NextRecordsURL(1, e))
         /\ page.kept \subseteq (token.url.at + 1 .. e) \cap Users
         /\ \A r \in ((token.url.at + 1 .. e) \cap Users) \ page.kept :
              ~syncDeactivatedUsers /\ "inactive" \in seen[r]
    /\ page.lit \subseteq page.kept
    /\ page.locked \subseteq page.looked /\ page.looked \subseteq page.kept
    /\ \A r \in page.kept :
         IF r \in page.lit THEN "active" \in seen[r] ELSE "inactive" \in seen[r]
    /\ \A r \in page.looked :
         IF r \in page.locked THEN "frozen" \in seen[r] ELSE "thawed" \in seen[r]

Inv ==
  /\ TypeOK /\ ClassesFit /\ SeenIsTrue /\ PageFits
  /\ Shaped(token) /\ Shaped(saved)
  /\ pc \in {"page", "logins"} => Covered(token)
  /\ Covered(saved)
  /\ ListingComplete /\ NothingForeign /\ StatusTrue

-----------------------------------------------------------------------------
(* Lemmas.                                                                 *)

\* What is due depends on the org alone.
LEMMA DueSame == ASSUME UNCHANGED orgVars PROVE \A p, r : Due(p, r)' = Due(p, r)
BY DEF Due, orgVars

\* Every form that is due is a form.
LEMMA DueForms == \A p, r : Due(p, r) \subseteq Forms
BY DEF Due, Forms

(* A page of any listing but that of users, whose records become what is   *)
(* due of them, with a token that passes over no more than the page,       *)
(* preserves the invariant.                                                *)
LEMMA DeliverKeeps ==
  ASSUME Inv, pc = "page", kind # "users",
         NEW q \in PhasesOf(kind), NEW made, NEW next,
         NEW e \in PageEnds(q, token.url.at),
         Deliver(q, made, e, next),
         \A r \in 1 .. size[q] : made[class[q][r]] = Fails \/ made[class[q][r]] = Due(q, r),
         Shaped(next),
         \A p \in PhasesOf(kind) : \A r \in 1 .. size[p] :
           (Before(next, p, r) \/ next = EmptyToken)
             => Before(token, p, r) \/ (p = q /\ r \in token.url.at + 1 .. e),
         UNCHANGED <<orgVars, active, frozen, cached, saved, page, enabled, seen, drift, faults>>
  PROVE  Inv'
<1> DEFINE rows == token.url.at + 1 .. e
<1>0. UNCHANGED orgVars /\ \A p, r : Due(p, r)' = Due(p, r)
  BY DueSame
<1>a. rows \subseteq 1 .. size[q] /\ q \in Phases /\ size[q] \in 0 .. MaxRows
  BY PagingBounds DEF Inv, TypeOK, Tokens, URLs, NoURL, Rows, PageEnds, PhasesOf, Phases
<1>b. 1 .. size[q] \subseteq Rows
  BY <1>a, PagingBounds DEF Rows
<1>1. CASE /\ \E r \in rows : made[class[q][r]] = Fails
           /\ pc' = "error"
           /\ UNCHANGED <<token, emitted>>
  <2>1. Given(1, 1)' = Given(1, 1) /\ \A p, r : Given(p, r)' = Given(p, r)
    BY <1>0, <1>1 DEF Given, orgVars
  <2>2. Shaped(token)' /\ Shaped(saved)' /\ Covered(saved)'
    BY <1>0, <1>1, <2>1 DEF Inv, Shaped, Covered, orgVars
  <2>3. TypeOK' /\ ClassesFit' /\ SeenIsTrue' /\ PageFits'
    BY <1>0, <1>1 DEF Inv, TypeOK, ClassesFit, SeenIsTrue, PageFits, FlagsOf, FlagsIn, orgVars
  <2>4. ListingComplete' /\ NothingForeign' /\ StatusTrue'
    BY <1>0, <1>1 DEF Inv, ListingComplete, NothingForeign, StatusTrue, orgVars
  <2> QED BY <2>2, <2>3, <2>4, <1>1 DEF Inv
<1>2. CASE /\ \A r \in rows : made[class[q][r]] # Fails
           /\ emitted' = emitted \cup
                UNION {{Emission(f, q, r) : f \in made[class[q][r]]} : r \in rows}
           /\ Return(next)
  <2>1. \A r \in rows : made[class[q][r]] = Due(q, r)
    BY <1>2, <1>a
  <2>2. emitted' = emitted \cup UNION {{Emission(f, q, r) : f \in Due(q, r)} : r \in rows}
    BY <1>2, <2>1
  <2>3. \A p, r : Given(p, r) => Given(p, r)'
    BY <1>0, <2>2 DEF Given, orgVars
  <2>4. \A r \in rows : Given(q, r)'
    BY <1>0, <2>2 DEF Given, orgVars
  <2>5. Shaped(token)' /\ Shaped(saved)'
    BY <1>0, <1>2 DEF Inv, Shaped, Return, orgVars
  <2>6. Covered(saved)'
    BY <1>0, <2>3 DEF Inv, Covered, orgVars
  <2>7. pc' = "page" => Covered(token)'
    <3> SUFFICES ASSUME NEW p \in PhasesOf(kind), NEW r \in 1 .. size[p], Before(next, p, r)
                 PROVE  Given(p, r)'
      BY <1>0, <1>2 DEF Covered, Return, orgVars
    <3>1. CASE Before(token, p, r)  BY <3>1, <2>3 DEF Inv, Covered
    <3>2. CASE p = q /\ r \in rows  BY <3>2, <2>4
    <3> QED BY <3>1, <3>2
  <2>8. ListingComplete'
    <3> SUFFICES ASSUME pc' = "done", NEW p \in PhasesOf(kind), NEW r \in 1 .. size[p]
                 PROVE  Given(p, r)'
      BY <1>0 DEF ListingComplete, Given, orgVars
    <3>0. next = EmptyToken  BY <1>2 DEF Return
    <3>1. CASE Before(token, p, r)  BY <3>1, <2>3 DEF Inv, Covered
    <3>2. CASE p = q /\ r \in rows  BY <3>2, <2>4
    <3> QED BY <3>0, <3>1, <3>2
  <2>9. NothingForeign'
    BY <1>0, <1>a, <2>2 DEF Inv, NothingForeign, Emission, orgVars
  <2>10. emitted' \subseteq Emissions
    BY <1>a, <1>b, <2>2, DueForms DEF Inv, TypeOK, Emission, Emissions
  <2>11. pc' \in {"page", "done", "error"}  BY <1>2 DEF Return
  <2>12. TypeOK'
    BY <1>0, <1>2, <2>5, <2>10, <2>11 DEF Inv, TypeOK, Shaped, Return, orgVars
  <2>13. ClassesFit' /\ SeenIsTrue' /\ PageFits' /\ StatusTrue'
    BY <1>0, <2>11 DEF Inv, ClassesFit, SeenIsTrue, PageFits, StatusTrue, FlagsOf, FlagsIn, orgVars
  <2> QED BY <2>5, <2>6, <2>7, <2>8, <2>9, <2>11, <2>12, <2>13 DEF Inv
<1> QED BY <1>1, <1>2 DEF Deliver

\* The empty token is one.
LEMMA EmptyIsToken ==
  /\ EmptyToken \in Tokens /\ EmptyToken.prefix = FALSE
  /\ EmptyToken.url.at = 0 /\ EmptyToken.url.phase = 1
BY DEF EmptyToken, Tokens, NoURL

\* The URL of a page that begins after a record.
LEMMA UrlFacts ==
  ASSUME NEW q \in Phases, NEW e \in Rows, NEW url, url = [phase |-> q, at |-> e]
  PROVE  url \in URLs /\ url # NoURL /\ url.at = e /\ url.phase = q
<1>1. url.at = e /\ e # 0 /\ NoURL.at = 0 /\ url.phase = q
  BY PagingBounds DEF Rows, NoURL
<1>2. url \in URLs
  BY DEF URLs
<1> QED BY <1>1, <1>2

\* A token with the prefix.
LEMMA PrefixedToken ==
  ASSUME NEW url \in URLs \cup {NoURL}, NEW k, k = [prefix |-> TRUE, url |-> url]
  PROVE  k \in Tokens /\ k.prefix = TRUE /\ k.url = url /\ k # EmptyToken
<1>1. k.prefix = TRUE /\ EmptyToken.prefix = FALSE /\ k.url = url
  BY DEF EmptyToken
<1>2. k \in Tokens
  BY DEF Tokens
<1> QED BY <1>1, <1>2

\* A token without the prefix.
LEMMA UrlToken ==
  ASSUME NEW url \in URLs, url # NoURL, NEW k, k = [prefix |-> FALSE, url |-> url]
  PROVE  k \in Tokens /\ k.prefix = FALSE /\ k.url = url /\ k # EmptyToken
<1>1. k.prefix = FALSE /\ EmptyToken.url = NoURL /\ k.url = url
  BY DEF EmptyToken
<1>2. k \in Tokens
  BY DEF Tokens
<1> QED BY <1>1, <1>2

(* The next page of a listing of one phase ends where the token for the    *)
(* page after it begins.                                                   *)
LEMMA PlainReaches ==
  ASSUME Inv, kind # "permissionGrants", NEW e \in PageEnds(1, token.url.at),
         NEW next, next = PlainToken(NextRecordsURL(1, e))
  PROVE  /\ Shaped(next)
         /\ \A p \in PhasesOf(kind) : \A r \in 1 .. size[p] :
              (Before(next, p, r) \/ next = EmptyToken)
                => Before(token, p, r) \/ (p = 1 /\ r \in token.url.at + 1 .. e)
<1>1. /\ size[1] \in 0 .. MaxRows /\ token.url.at \in Nat /\ e \in token.url.at .. size[1]
      /\ token.prefix = FALSE
  BY PagingBounds
     DEF Inv, TypeOK, Shaped, Tokens, URLs, NoURL, Rows, PageEnds, Phases
<1>2. CASE e < size[1]
  <2>0. NextRecordsURL(1, e) = [phase |-> 1, at |-> e] /\ e \in Rows /\ e # 0
    BY <1>1, <1>2, PagingBounds DEF PageEnds, NextRecordsURL, Rows
  <2>1. /\ next.prefix = FALSE /\ next.url.at = e /\ next.url.phase = 1
        /\ next \in Tokens /\ next # EmptyToken
    BY <2>0 DEF PlainToken, Tokens, URLs, Phases, EmptyToken, NoURL
  <2>2. Shaped(next)  BY <1>2, <2>1 DEF Shaped
  <2>3. \A r \in 1 .. size[1] : r <= e => r <= token.url.at \/ r \in token.url.at + 1 .. e
    BY <1>1
  <2> QED BY <1>1, <2>1, <2>2, <2>3 DEF PhasesOf, Before
<1>3. CASE e >= size[1]
  <2>0. e = size[1] /\ e \in Nat
    BY <1>1, <1>3, PagingBounds
  <2>1. NextRecordsURL(1, e) = NoURL
    BY <2>0 DEF NextRecordsURL
  <2>2. next = EmptyToken /\ next \in Tokens /\ next.prefix = FALSE /\ next.url.at = 0
    <3>1. next = EmptyToken  BY <2>1 DEF PlainToken, EmptyToken
    <3> QED BY <3>1, EmptyIsToken
  <2>3. Shaped(next)  BY <2>2 DEF Shaped
  <2>4. \A r \in 1 .. size[1] : r <= token.url.at \/ r \in token.url.at + 1 .. e
    BY <1>1, <2>0
  <2> QED BY <1>1, <2>3, <2>4 DEF PhasesOf, Before
<1> QED BY <1>1, <1>2, <1>3

\* So a page of a listing of one phase preserves the invariant.
LEMMA PageKeeps ==
  ASSUME Inv, NEW k \in Kinds \ {"users", "permissionGrants"}, NEW made, Page(k, made),
         \A r \in 1 .. size[1] : made[class[1][r]] = Fails \/ made[class[1][r]] = Due(1, r)
  PROVE  Inv'
<1>1. PICK e \in PageEnds(1, token.url.at) :
        Deliver(1, made, e, PlainToken(NextRecordsURL(1, e)))
  BY DEF Page
<1>2. kind # "users" /\ kind # "permissionGrants" /\ pc = "page" /\ 1 \in PhasesOf(kind)
  BY DEF Page, PhasesOf
<1> QED BY <1>1, <1>2, PlainReaches, DeliverKeeps DEF Page

\* What the client makes of the records of each listing of one phase is due.
LEMMA MadeIsDue ==
  ASSUME Inv, NEW r \in 1 .. size[1]
  PROVE  /\ kind = "groups" => GetGroups[class[1][r]] = Due(1, r)
         /\ kind = "permissionSets" => GetPermissionSets[class[1][r]] = Due(1, r)
         /\ kind = "profiles" => GetProfiles[class[1][r]] = Due(1, r)
         /\ kind = "roles" => GetUserRoles[class[1][r]] = Due(1, r)
         /\ kind = "connectedApplications" => GetConnectedApplications[class[1][r]] = Due(1, r)
         /\ kind = "agents" => GetBotDefinitions[class[1][r]] = Due(1, r)
         /\ kind = "permissionSetGroups" =>
              GetPermissionSetGroups[class[1][r]] \in {Fails, Due(1, r)}
         /\ kind = "territories" => GetTerritories[class[1][r]] = Due(1, r)
         /\ kind = "territoryRoles" => GetTerritoryRoles[class[1][r]] = Due(1, r)
         /\ kind = "groupGrants" => getIsGroup[class[1][r]] = Due(1, r)
         /\ kind \in {"profileGrants", "roleGrants"} => getAssignments[class[1][r]] = Due(1, r)
         /\ kind = "permissionSetGroupGrants" =>
              GetPermissionSetGroupAssignments[class[1][r]] = Due(1, r)
         /\ kind = "territoryGrants" => GetTerritoryMembers[class[1][r]] = Due(1, r)
<1>1. class[1][r] \in ClassesOf(kind, 1)
  BY DEF Inv, ClassesFit, PhasesOf
<1>2. /\ kind \in {"groups", "profiles", "roles", "connectedApplications", "agents",
                   "permissionSetGroupGrants"} => class[1][r] = "Plain"
      /\ kind = "permissionSets" => class[1][r] \in {"Plain", "OfProfile"}
  BY <1>1 DEF ClassesOf
<1>3. /\ kind = "permissionSetGroups" => class[1][r] \in {"Plain", "Malformed"}
      /\ kind = "territories" => class[1][r] \in {"Active", "Planned"}
      /\ kind = "territoryRoles" => class[1][r] \in {"Plain", "NoValue"}
  BY <1>1 DEF ClassesOf
<1>4. /\ kind = "groupGrants" => class[1][r] \in {"User", "Group", "Other"}
      /\ kind \in {"profileGrants", "roleGrants"} => class[1][r] \in {"Standard", "Portal"}
      /\ kind = "territoryGrants" => class[1][r] \in {"Plain", "WithRole"}
  BY <1>1 DEF ClassesOf
<1>5. /\ kind = "groups" => GetGroups[class[1][r]] = Due(1, r)
      /\ kind = "permissionSets" => GetPermissionSets[class[1][r]] = Due(1, r)
      /\ kind = "profiles" => GetProfiles[class[1][r]] = Due(1, r)
      /\ kind = "roles" => GetUserRoles[class[1][r]] = Due(1, r)
      /\ kind = "connectedApplications" => GetConnectedApplications[class[1][r]] = Due(1, r)
      /\ kind = "agents" => GetBotDefinitions[class[1][r]] = Due(1, r)
  BY <1>2 DEF Due, Lists, Grants, Forms, Classes, GetGroups, GetPermissionSets, GetProfiles, GetUserRoles,
              GetConnectedApplications, GetBotDefinitions
<1>6. /\ kind = "permissionSetGroups" =>
           GetPermissionSetGroups[class[1][r]] \in {Fails, Due(1, r)}
      /\ kind = "territories" => GetTerritories[class[1][r]] = Due(1, r)
      /\ kind = "territoryRoles" => GetTerritoryRoles[class[1][r]] = Due(1, r)
  BY <1>3 DEF Due, Lists, Grants, Forms, Classes, Fails, GetPermissionSetGroups, GetTerritories, GetTerritoryRoles
<1>7. kind = "groupGrants" => getIsGroup[class[1][r]] = Due(1, r)
  BY <1>4 DEF Due, Lists, Grants, Forms, Classes, getIsGroup
<1>8. kind \in {"profileGrants", "roleGrants"} => getAssignments[class[1][r]] = Due(1, r)
  BY <1>4 DEF Due, Lists, Grants, Forms, Classes, getAssignments
<1>9. kind = "permissionSetGroupGrants" =>
        GetPermissionSetGroupAssignments[class[1][r]] = Due(1, r)
  BY <1>2 DEF Due, Lists, Grants, Forms, Classes, GetPermissionSetGroupAssignments
<1>10. kind = "territoryGrants" => GetTerritoryMembers[class[1][r]] = Due(1, r)
  BY <1>4 DEF Due, Lists, Grants, Forms, Classes, GetTerritoryMembers
<1> QED BY <1>5, <1>6, <1>7, <1>8, <1>9, <1>10

-----------------------------------------------------------------------------
(* The steps.                                                              *)

\* The facts about the token that every step of a page uses.
LEMMA TokenFacts ==
  ASSUME Inv
  PROVE  /\ token.prefix \in BOOLEAN /\ token.url.at \in Nat /\ token.url.phase \in Phases
         /\ \A q \in Phases : size[q] \in 0 .. MaxRows /\ 1 .. size[q] \subseteq Rows
         /\ token.url.at # 0 => token.url.at < size[token.url.phase]
         /\ kind # "permissionGrants" => token.prefix = FALSE
         /\ token.url.at # 0 => token.url.phase = IF token.prefix THEN 2 ELSE 1
BY PagingBounds DEF Inv, TypeOK, Shaped, Tokens, URLs, NoURL, Rows, Phases

\* The listings of one phase, but that of users.
LEMMA PlainStep ==
  ASSUME Inv,
         \/ GroupList \/ PermissionList \/ ProfileList \/ RoleList \/ PermissionSetGroupList
         \/ TerritoryList \/ ConnectedApplicationList \/ Page("agents", GetBotDefinitions)
         \/ GroupGrants \/ ProfileGrants \/ RoleGrants \/ PermissionSetGroupGrants
         \/ TerritoryGrants
  PROVE  Inv'
<1> USE DEF Kinds, Lists, Grants
<1>1. CASE GroupList
  BY <1>1, MadeIsDue, PageKeeps DEF GroupList, Page
<1>2. CASE PermissionList
  BY <1>2, MadeIsDue, PageKeeps DEF PermissionList, Page
<1>3. CASE ProfileList
  BY <1>3, MadeIsDue, PageKeeps DEF ProfileList, Page
<1>4. CASE RoleList
  BY <1>4, MadeIsDue, PageKeeps DEF RoleList, Page
<1>5. CASE PermissionSetGroupList
  BY <1>5, MadeIsDue, PageKeeps DEF PermissionSetGroupList, Page
<1>6. CASE TerritoryList
  BY <1>6, MadeIsDue, PageKeeps DEF TerritoryList, Page
<1>7. CASE ConnectedApplicationList
  BY <1>7, MadeIsDue, PageKeeps DEF ConnectedApplicationList, Page
<1>8. CASE Page("agents", GetBotDefinitions)
  BY <1>8, MadeIsDue, PageKeeps DEF Page
<1>9. CASE GroupGrants
  BY <1>9, MadeIsDue, PageKeeps DEF GroupGrants, Page
<1>10. CASE ProfileGrants
  BY <1>10, MadeIsDue, PageKeeps DEF ProfileGrants, Page
<1>11. CASE RoleGrants
  BY <1>11, MadeIsDue, PageKeeps DEF RoleGrants, Page
<1>12. CASE PermissionSetGroupGrants
  BY <1>12, MadeIsDue, PageKeeps DEF PermissionSetGroupGrants, Page
<1>13. CASE TerritoryGrants
  BY <1>13, MadeIsDue, PageKeeps DEF TerritoryGrants, Page
<1> QED BY <1>1, <1>2, <1>3, <1>4, <1>5, <1>6, <1>7, <1>8, <1>9, <1>10, <1>11, <1>12, <1>13

\* An org without agents.
LEMMA NotSupportedStep == ASSUME Inv, NotSupported PROVE Inv'
<1>0. UNCHANGED orgVars /\ \A p, r : Due(p, r)' = Due(p, r)
  BY DueSame DEF NotSupported
<1>1. token' = EmptyToken /\ pc' = "done" /\ kind = "agents" /\ size[1] = 0
  BY DEF NotSupported, Return
<1>2. \A p, r : Given(p, r)' = Given(p, r)
  BY <1>0 DEF Given, NotSupported, orgVars
<1>3. Shaped(token)' /\ Shaped(saved)'
  BY <1>0, <1>1, EmptyIsToken DEF Inv, Shaped, NotSupported, orgVars
<1>4. Covered(saved)'
  BY <1>0, <1>2 DEF Inv, Covered, NotSupported, orgVars
<1>5. TypeOK' /\ ClassesFit' /\ SeenIsTrue' /\ PageFits'
  BY <1>0, <1>1, EmptyIsToken
     DEF Inv, TypeOK, ClassesFit, SeenIsTrue, PageFits, FlagsOf, FlagsIn, NotSupported, orgVars
<1>6. ListingComplete' /\ NothingForeign' /\ StatusTrue'
  BY <1>0, <1>1
     DEF Inv, ListingComplete, NothingForeign, StatusTrue, PhasesOf, NotSupported, orgVars
<1> QED BY <1>1, <1>3, <1>4, <1>5, <1>6 DEF Inv

\* The roles of territories, in one page.
LEMMA StaticEntitlementsStep == ASSUME Inv, StaticEntitlements PROVE Inv'
<1>1. kind = "territoryRoles" /\ pc = "page" /\ 1 \in PhasesOf(kind)
  BY DEF StaticEntitlements, PhasesOf
<1>2. /\ size[1] \in PageEnds(1, token.url.at)
      /\ \A r \in 1 .. size[1] : r <= token.url.at \/ r \in token.url.at + 1 .. size[1]
  <2>1. size[1] \in 0 .. MaxRows /\ token.url.at \in Nat
    BY TokenFacts DEF Phases
  <2>a. token.prefix = FALSE
    BY <1>1, TokenFacts
  <2>2. token.url.at # 0 => token.url.at < size[1]
    BY <2>a, TokenFacts
  <2> QED BY <2>1, <2>2, PagingBounds DEF PageEnds
<1>3. Shaped(EmptyToken)
  BY EmptyIsToken DEF Shaped
<1>4. \A p \in PhasesOf(kind) : \A r \in 1 .. size[p] :
        Before(token, p, r) \/ (p = 1 /\ r \in token.url.at + 1 .. size[1])
  BY <1>1, <1>2 DEF PhasesOf, Before
<1>5. \A r \in 1 .. size[1] : GetTerritoryRoles[class[1][r]] = Due(1, r)
  BY <1>1, MadeIsDue
<1> QED BY <1>1, <1>2, <1>3, <1>4, <1>5, DeliverKeeps DEF StaticEntitlements

\* The grants of a permission set, a page of users or of groups.
LEMMA PermissionGrantsStep == ASSUME Inv, PermissionGrants PROVE Inv'
<1>0. kind = "permissionGrants" /\ pc = "page" /\ PhasesOf(kind) = {1, 2}
  BY DEF PermissionGrants, PhasesOf
<1>1. CASE token.prefix
  <2>1. QueryOf(2) = 2 /\ (token.url.at # 0 => token.url.at < size[2])
    BY <1>1, TokenFacts DEF QueryOf
  <2>2. PICK e \in PageEnds(2, token.url.at) :
          Deliver(2, GetPermissionSetGroupComponentsByPermissionSet, e,
                  TokenAfterGroups(NextRecordsURL(2, e)))
    BY <1>1, <2>1 DEF PermissionGrants
  <2>3. /\ size[2] \in 0 .. MaxRows /\ token.url.at \in Nat
        /\ e \in token.url.at .. size[2] /\ (e > token.url.at \/ e = size[2])
    BY TokenFacts DEF Phases, PageEnds
  <2>4. PICK next : next = TokenAfterGroups(NextRecordsURL(2, e))
    OBVIOUS
  <2>6. /\ Shaped(next)
        /\ \A p \in PhasesOf(kind) : \A r \in 1 .. size[p] :
             (Before(next, p, r) \/ next = EmptyToken)
               => Before(token, p, r) \/ (p = 2 /\ r \in token.url.at + 1 .. e)
    <3>1. e < size[2] \/ e >= size[2]
      BY <2>3, PagingBounds
    <3>2. CASE e < size[2]
      <4>0. e \in Rows /\ 2 \in Phases
        BY <2>3, <3>2, PagingBounds DEF Rows, Phases
      <4>1. PICK url : url = NextRecordsURL(2, e) /\ url = [phase |-> 2, at |-> e]
        BY <3>2 DEF NextRecordsURL
      <4>2. url \in URLs /\ url # NoURL /\ url.at = e /\ url.phase = 2
        BY <4>0, <4>1, UrlFacts
      <4>a. next = [prefix |-> TRUE, url |-> url]
        BY <2>4, <4>1, <4>2 DEF TokenAfterGroups
      <4>3. /\ next.prefix = TRUE /\ next.url.at = e /\ next.url.phase = 2
            /\ next \in Tokens /\ next # EmptyToken
        BY <4>2, <4>a, PrefixedToken
      <4>4. Shaped(next)  BY <1>0, <3>2, <4>3 DEF Shaped
      <4>5. \A r \in 1 .. size[2] : r <= e => r <= token.url.at \/ r \in token.url.at + 1 .. e
        BY <2>3
      <4> QED BY <1>0, <1>1, <4>3, <4>4, <4>5 DEF Before
    <3>3. CASE e >= size[2]
      <4>1. e = size[2] /\ e \in Nat
        BY <2>3, <3>3, PagingBounds
      <4>2. NextRecordsURL(2, e) = NoURL
        BY <4>1 DEF NextRecordsURL
      <4>3. next = EmptyToken
        BY <2>4, <4>2 DEF TokenAfterGroups
      <4>4. Shaped(next)  BY <4>3, EmptyIsToken DEF Shaped
      <4>5. \A r \in 1 .. size[2] : r <= token.url.at \/ r \in token.url.at + 1 .. e
        BY <2>3, <4>1
      <4> QED BY <1>0, <1>1, <4>4, <4>5 DEF Before
    <3> QED BY <3>1, <3>2, <3>3
  <2>7. \A r \in 1 .. size[2] :
          GetPermissionSetGroupComponentsByPermissionSet[class[2][r]] \in {Fails, Due(2, r)}
    <3> SUFFICES ASSUME NEW r \in 1 .. size[2]
                 PROVE  GetPermissionSetGroupComponentsByPermissionSet[class[2][r]]
                          \in {Fails, Due(2, r)}
      OBVIOUS
    <3>1. class[2][r] \in ClassesOf(kind, 2)
      BY <1>0 DEF Inv, ClassesFit
    <3>2. class[2][r] \in {"Plain", "Malformed"}
      BY <1>0, <3>1 DEF ClassesOf
    <3> QED BY <1>0, <3>2 DEF GetPermissionSetGroupComponentsByPermissionSet, Due, Lists,
                              Grants, Forms, Classes
  <2>8. UNCHANGED <<orgVars, active, frozen, cached, saved, page, enabled, seen, drift, faults>>
    BY DEF PermissionGrants
  <2> QED BY <1>0, <2>2, <2>4, <2>6, <2>7, <2>8, DeliverKeeps
<1>2. CASE ~token.prefix
  <2>1. QueryOf(1) = 1 /\ (token.url.at # 0 => token.url.at < size[1])
    BY <1>2, TokenFacts DEF QueryOf
  <2>2. PICK e \in PageEnds(1, token.url.at) :
          Deliver(1, GetPermissionSetAssignments, e, TokenAfterUsers(NextRecordsURL(1, e)))
    BY <1>2, <2>1 DEF PermissionGrants
  <2>3. /\ size[1] \in 0 .. MaxRows /\ token.url.at \in Nat /\ size[2] \in 0 .. MaxRows
        /\ e \in token.url.at .. size[1] /\ (e > token.url.at \/ e = size[1])
    BY TokenFacts DEF Phases, PageEnds
  <2>4. PICK next : next = TokenAfterUsers(NextRecordsURL(1, e))
    OBVIOUS
  <2>6. /\ Shaped(next)
        /\ \A p \in PhasesOf(kind) : \A r \in 1 .. size[p] :
             (Before(next, p, r) \/ next = EmptyToken)
               => Before(token, p, r) \/ (p = 1 /\ r \in token.url.at + 1 .. e)
    <3>1. e < size[1] \/ e >= size[1]
      BY <2>3, PagingBounds
    <3>2. CASE e < size[1]
      <4>0. e \in Rows /\ 1 \in Phases
        BY <2>3, <3>2, PagingBounds DEF Rows, Phases
      <4>1. PICK url : url = NextRecordsURL(1, e) /\ url = [phase |-> 1, at |-> e]
        BY <3>2 DEF NextRecordsURL
      <4>2. url \in URLs /\ url # NoURL /\ url.at = e /\ url.phase = 1
        BY <4>0, <4>1, UrlFacts
      <4>a. next = [prefix |-> FALSE, url |-> url]
        BY <2>4, <4>1, <4>2 DEF TokenAfterUsers
      <4>3. /\ next.prefix = FALSE /\ next.url.at = e /\ next.url.phase = 1
            /\ next \in Tokens /\ next # EmptyToken
        BY <4>2, <4>a, UrlToken
      <4>4. Shaped(next)  BY <1>0, <3>2, <4>3 DEF Shaped
      <4>5. \A r \in 1 .. size[1] : r <= e => r <= token.url.at \/ r \in token.url.at + 1 .. e
        BY <2>3
      <4> QED BY <1>0, <1>2, <4>3, <4>4, <4>5 DEF Before
    <3>3. CASE e >= size[1]
      <4>1. e = size[1] /\ e \in Nat
        BY <2>3, <3>3, PagingBounds
      <4>2. NextRecordsURL(1, e) = NoURL
        BY <4>1 DEF NextRecordsURL
      <4>3. next = [prefix |-> TRUE, url |-> NoURL]
        BY <2>4, <4>2 DEF TokenAfterUsers
      <4>4. /\ next.prefix = TRUE /\ next.url.at = 0 /\ next \in Tokens /\ next # EmptyToken
        BY <4>3, PrefixedToken, EmptyIsToken DEF NoURL
      <4>5. Shaped(next)  BY <1>0, <4>4 DEF Shaped
      <4>6. \A r \in 1 .. size[1] : r <= token.url.at \/ r \in token.url.at + 1 .. e
        BY <2>3, <4>1
      <4>7. \A r \in 1 .. size[2] : ~(r <= 0)
        BY <2>3
      <4> QED BY <1>0, <1>2, <4>4, <4>5, <4>6, <4>7 DEF Before
    <3> QED BY <3>1, <3>2, <3>3
  <2>7. \A r \in 1 .. size[1] : GetPermissionSetAssignments[class[1][r]] = Due(1, r)
    <3> SUFFICES ASSUME NEW r \in 1 .. size[1]
                 PROVE  GetPermissionSetAssignments[class[1][r]] = Due(1, r)
      OBVIOUS
    <3>1. class[1][r] \in ClassesOf(kind, 1)
      BY <1>0 DEF Inv, ClassesFit
    <3>2. class[1][r] = "Plain"
      BY <1>0, <3>1 DEF ClassesOf
    <3> QED BY <1>0, <3>2 DEF GetPermissionSetAssignments, Due, Lists, Grants, Forms, Classes
  <2>8. UNCHANGED <<orgVars, active, frozen, cached, saved, page, enabled, seen, drift, faults>>
    BY DEF PermissionGrants
  <2> QED BY <1>0, <2>2, <2>4, <2>6, <2>7, <2>8, DeliverKeeps
<1> QED BY <1>1, <1>2

(* Whatever a query tells, from the cache or not, was so once, and so was  *)
(* all that is in the cache then.                                          *)
LEMMA AnswerIsSeen ==
  ASSUME Inv, NEW on \in Flags, NEW off \in Flags, NEW now, NEW rows \in SUBSET Rows,
         \A r \in rows : (IF r \in now THEN on ELSE off) \in seen[r],
         NEW told \in Answers(on, off, now, rows), Remember(on, off, told, rows)
  PROVE  /\ told \subseteq rows
         /\ \A r \in rows : (IF r \in told THEN on ELSE off) \in seen[r]
         /\ cached' \in [Rows -> SUBSET Flags]
         /\ \A r \in Rows : cached'[r] \subseteq seen[r]
<1>1. cached \in [Rows -> SUBSET Flags] /\ \A r \in Rows : cached[r] \subseteq seen[r]
  BY DEF Inv, TypeOK, SeenIsTrue
<1>2. told \subseteq rows /\ \A r \in rows : (IF r \in told THEN on ELSE off) \in seen[r]
  BY <1>1 DEF Answers
<1>3. cached' = [r \in Rows |-> IF r \in rows
                               THEN cached[r] \cup {IF r \in told THEN on ELSE off}
                               ELSE cached[r]]
  BY DEF Remember
<1> QED BY <1>1, <1>2, <1>3

\* A page of users is read.
LEMMA GetUsersStep == ASSUME Inv, GetUsers PROVE Inv'
<1>0. UNCHANGED orgVars /\ \A p, r : Due(p, r)' = Due(p, r)
  BY DueSame DEF GetUsers
<1>a. PICK e \in PageEnds(1, token.url.at) :
        LET rows == {r \in token.url.at + 1 .. e : UserQuery(class[1][r])}
        IN  \E lit \in Answers("active", "inactive", active, rows) :
              /\ page' = [kept |-> {r \in rows : /\ r \in lit \/ syncDeactivatedUsers
                                                /\ ~shouldSkipSyncingUserType(class[1][r])},
                          lit |-> {r \in lit : ~shouldSkipSyncingUserType(class[1][r])},
                          looked |-> {}, locked |-> {},
                          next |-> PlainToken(NextRecordsURL(1, e))]
              /\ Remember("active", "inactive", lit, rows)
  BY DEF GetUsers
<1> DEFINE rows == {r \in token.url.at + 1 .. e : UserQuery(class[1][r])}
<1>b. PICK lit \in Answers("active", "inactive", active, rows) :
        /\ page' = [kept |-> {r \in rows : /\ r \in lit \/ syncDeactivatedUsers
                                          /\ ~shouldSkipSyncingUserType(class[1][r])},
                    lit |-> {r \in lit : ~shouldSkipSyncingUserType(class[1][r])},
                    looked |-> {}, locked |-> {},
                    next |-> PlainToken(NextRecordsURL(1, e))]
        /\ Remember("active", "inactive", lit, rows)
  BY <1>a
<1>2. kind = "users" /\ pc = "page" /\ pc' = "logins"
  BY DEF GetUsers
<1>3. /\ token.url.at + 1 .. e \subseteq 1 .. size[1] /\ 1 .. size[1] \subseteq Rows
      /\ size[1] \in Nat
  BY TokenFacts, PagingBounds DEF PageEnds, Phases
<1>c. /\ rows \subseteq Rows /\ lit \subseteq rows
      /\ \A r \in rows : (IF r \in lit THEN "active" ELSE "inactive") \in seen[r]
      /\ cached' \in [Rows -> SUBSET Flags]
      /\ \A r \in Rows : cached'[r] \subseteq seen[r]
  <2>1. rows \subseteq Rows
    BY <1>3
  <2> HIDE DEF rows
  <2>2. \A r \in Rows : IF r \in active THEN "active" \in seen[r] ELSE "inactive" \in seen[r]
    BY DEF Inv, SeenIsTrue, FlagsOf, FlagsIn
  <2> QED BY <1>b, <2>1, <2>2, AnswerIsSeen DEF Flags
<1>4. /\ page'.kept = {r \in (token.url.at + 1 .. e) \cap Users :
                         r \in lit \/ syncDeactivatedUsers}
      /\ page'.lit = page'.kept \cap lit
      /\ page'.looked = {} /\ page'.locked = {}
      /\ page'.next = PlainToken(NextRecordsURL(1, e))
      /\ page'.kept \subseteq rows
      /\ (token.url.at + 1 .. e) \cap Users \subseteq rows
  BY <1>b, <1>2, <1>3, <1>c DEF Users
<1>5. page' \in Pages
  <2>1. PlainToken(NextRecordsURL(1, e)) \in Tokens
    BY <1>2, PlainReaches DEF Shaped
  <2>2. page'.kept \subseteq Rows
    BY <1>3, <1>4
  <2> QED BY <1>b, <1>3, <1>4, <1>c, <2>1, <2>2 DEF Pages
<1>6. UNCHANGED <<active, frozen, token, saved, emitted, enabled, seen, drift, faults>>
  BY DEF GetUsers
<1>7. TypeOK'
  BY <1>0, <1>2, <1>5, <1>6, <1>c DEF Inv, TypeOK, orgVars
<1>8. PageFits'
  <2>1. Users' = Users /\ PageEnds(1, token.url.at)' = PageEnds(1, token.url.at)
        /\ PlainToken(NextRecordsURL(1, e))' = PlainToken(NextRecordsURL(1, e))
    BY <1>0, <1>6 DEF Users, UserQuery, PageEnds, PlainToken, NextRecordsURL, orgVars
  <2>4. \A r \in ((token.url.at + 1 .. e) \cap Users) \ page'.kept :
          ~syncDeactivatedUsers /\ "inactive" \in seen[r]
    BY <1>4, <1>c
  <2>5. page'.kept \subseteq (token.url.at + 1 .. e) \cap Users
    BY <1>4
  <2>6. \E d \in PageEnds(1, token.url.at)' :
         /\ page'.next = PlainToken(NextRecordsURL(1, d))'
         /\ page'.kept \subseteq ((token.url.at + 1 .. d) \cap Users)'
         /\ \A r \in (((token.url.at + 1 .. d) \cap Users) \ page.kept)' :
              (~syncDeactivatedUsers /\ "inactive" \in seen[r])'
    <3> e \in PageEnds(1, token.url.at)'
      BY <2>1
    <3> WITNESS e \in PageEnds(1, token.url.at)'
    <3> QED BY <1>0, <1>4, <1>6, <2>1, <2>4, <2>5 DEF orgVars
  <2>7. \A r \in page'.kept :
          IF r \in page'.lit THEN "active" \in seen'[r] ELSE "inactive" \in seen'[r]
    BY <1>4, <1>6, <1>c
  <2> QED BY <1>0, <1>2, <1>4, <2>6, <2>7 DEF PageFits, orgVars
<1>9. \A p, r : Given(p, r)' = Given(p, r)
  BY <1>0, <1>6 DEF Given, orgVars
<1>10. /\ Shaped(token)' /\ Shaped(saved)' /\ Covered(token)' /\ Covered(saved)'
       /\ ClassesFit' /\ SeenIsTrue'
  BY <1>0, <1>2, <1>6, <1>9, <1>c
     DEF Inv, Shaped, Covered, ClassesFit, SeenIsTrue, FlagsOf, FlagsIn, orgVars
<1>11. ListingComplete' /\ NothingForeign' /\ StatusTrue'
  BY <1>0, <1>2, <1>6 DEF Inv, ListingComplete, NothingForeign, StatusTrue, orgVars
<1> QED BY <1>7, <1>8, <1>10, <1>11 DEF Inv

\* A chunk of UserLogins is read.
LEMMA GetUserLoginsStep == ASSUME Inv, GetUserLoginsByUserIDs PROVE Inv'
<1>0. UNCHANGED orgVars /\ \A p, r : Due(p, r)' = Due(p, r)
  BY DueSame DEF GetUserLoginsByUserIDs
<1>1. PICK told \in Answers("frozen", "thawed", frozen, Chunk) :
        /\ page' = [page EXCEPT !.looked = @ \cup Chunk, !.locked = @ \cup (Chunk \cap told)]
        /\ Remember("frozen", "thawed", told, Chunk)
  BY DEF GetUserLoginsByUserIDs, NotPaginated
<1>2. Chunk \subseteq page.kept \ page.looked
  BY DEF Chunk
<1>3. pc = "logins" /\ page \in Pages
  BY DEF GetUserLoginsByUserIDs, Inv, TypeOK
<1>a. /\ told \subseteq Chunk
      /\ \A r \in Chunk : (IF r \in told THEN "frozen" ELSE "thawed") \in seen[r]
      /\ cached' \in [Rows -> SUBSET Flags]
      /\ \A r \in Rows : cached'[r] \subseteq seen[r]
  <2>1. Chunk \subseteq Rows
    BY <1>2, <1>3 DEF Pages
  <2>2. \A r \in Rows : IF r \in frozen THEN "frozen" \in seen[r] ELSE "thawed" \in seen[r]
    BY DEF Inv, SeenIsTrue, FlagsOf, FlagsIn
  <2> QED BY <1>1, <2>1, <2>2, AnswerIsSeen DEF Flags
<1>4. /\ page'.kept = page.kept /\ page'.lit = page.lit /\ page'.next = page.next
      /\ page'.looked = page.looked \cup Chunk
      /\ page'.locked = page.locked \cup (Chunk \cap told)
      /\ page' \in Pages
  BY <1>1, <1>2, <1>3 DEF Pages
<1>5. UNCHANGED <<active, frozen, token, saved, pc, emitted, enabled, seen, drift, faults>>
  BY DEF GetUserLoginsByUserIDs
<1>6. TypeOK'
  BY <1>0, <1>4, <1>5, <1>a DEF Inv, TypeOK, orgVars
<1>7. PageFits'
  <2>1. Users' = Users /\ PageEnds(1, token.url.at)' = PageEnds(1, token.url.at)
        /\ \A e : PlainToken(NextRecordsURL(1, e))' = PlainToken(NextRecordsURL(1, e))
    BY <1>0, <1>5 DEF Users, UserQuery, PageEnds, PlainToken, NextRecordsURL, orgVars
  <2>4. \A r \in page'.looked :
          IF r \in page'.locked THEN "frozen" \in seen[r] ELSE "thawed" \in seen[r]
    BY <1>2, <1>3, <1>4, <1>a DEF Inv, PageFits
  <2>5. page'.locked \subseteq page'.looked /\ page'.looked \subseteq page'.kept
    BY <1>2, <1>3, <1>4 DEF Inv, PageFits
  <2> QED BY <1>0, <1>3, <1>4, <1>5, <2>1, <2>4, <2>5 DEF Inv, PageFits, orgVars
<1>8. \A p, r : Given(p, r)' = Given(p, r)
  BY <1>0, <1>5 DEF Given, orgVars
<1>9. /\ Shaped(token)' /\ Shaped(saved)' /\ Covered(token)' /\ Covered(saved)'
      /\ ClassesFit' /\ SeenIsTrue'
  BY <1>0, <1>3, <1>5, <1>8, <1>a
     DEF Inv, Shaped, Covered, ClassesFit, SeenIsTrue, FlagsOf, FlagsIn, orgVars
<1>10. ListingComplete' /\ NothingForeign' /\ StatusTrue'
  BY <1>0, <1>5 DEF Inv, ListingComplete, NothingForeign, StatusTrue, orgVars
<1> QED BY <1>6, <1>7, <1>9, <1>10 DEF Inv

\* The page of users is given to the SDK.
LEMMA userResourcesStep == ASSUME Inv, userResources PROVE Inv'
<1>0. UNCHANGED orgVars /\ \A p, r : Due(p, r)' = Due(p, r)
  BY DueSame DEF userResources
<1>1. pc = "logins" /\ kind = "users" /\ page.looked = page.kept /\ page \in Pages
  BY DEF userResources, Inv, PageFits, TypeOK
<1>2. PICK e \in PageEnds(1, token.url.at) :
        /\ page.next = PlainToken(NextRecordsURL(1, e))
        /\ page.kept \subseteq (token.url.at + 1 .. e) \cap Users
        /\ \A r \in ((token.url.at + 1 .. e) \cap Users) \ page.kept :
             ~syncDeactivatedUsers /\ "inactive" \in seen[r]
  BY <1>1 DEF Inv, PageFits
<1>3. /\ emitted' = emitted \cup {Emission("resource", 1, r) : r \in page.kept}
      /\ enabled' = (enabled \ page.kept) \cup (page.lit \ page.locked)
      /\ page' = NoPage
      /\ Return(page.next)
      /\ UNCHANGED <<active, frozen, cached, saved, seen, drift, faults>>
  BY DEF userResources
<1>4. /\ token.url.at + 1 .. e \subseteq 1 .. size[1] /\ 1 .. size[1] \subseteq Rows
      /\ size[1] \in Nat
  BY TokenFacts, PagingBounds DEF PageEnds, Phases
<1>5. \A r \in 1 .. size[1] : Due(1, r) = IF r \in Users THEN {"resource"} ELSE {}
  <2> SUFFICES ASSUME NEW r \in 1 .. size[1]
               PROVE  Due(1, r) = IF r \in Users THEN {"resource"} ELSE {}
    OBVIOUS
  <2>1. class[1][r] \in {"Standard", "Portal", "NoType"}
    BY <1>1 DEF Inv, ClassesFit, PhasesOf, ClassesOf
  <2> QED BY <1>1, <2>1 DEF Due, Users, UserQuery, shouldSkipSyncingUserType, Forms, Lists,
                            Grants
<1>6. \A p, r : Given(p, r) => Given(p, r)'
  BY <1>0, <1>3 DEF Given, orgVars
<1>7. \A r \in token.url.at + 1 .. e : Given(1, r)'
  BY <1>0, <1>1, <1>2, <1>3, <1>4, <1>5 DEF Given, orgVars
<1>8. /\ Shaped(page.next)
      /\ \A r \in 1 .. size[1] : (Before(page.next, 1, r) \/ page.next = EmptyToken)
           => Before(token, 1, r) \/ r \in token.url.at + 1 .. e
  BY <1>1, <1>2, PlainReaches DEF PhasesOf
<1>9. Shaped(token)' /\ Shaped(saved)'
  BY <1>0, <1>3, <1>8 DEF Inv, Shaped, Return, orgVars
<1>10. Covered(saved)'
  BY <1>0, <1>3, <1>6 DEF Inv, Covered, orgVars
<1>11. PhasesOf(kind) = {1} /\ kind' = kind /\ size' = size /\ token' = page.next
  BY <1>0, <1>1, <1>3 DEF PhasesOf, Return, orgVars
<1>12. \A r \in 1 .. size[1] : (Before(page.next, 1, r) \/ page.next = EmptyToken) => Given(1, r)'
  BY <1>1, <1>6, <1>7, <1>8, <1>11 DEF Inv, Covered
<1>13. Covered(token)'
  BY <1>11, <1>12 DEF Covered
<1>14. ListingComplete'
  <2> SUFFICES ASSUME pc' = "done", NEW r \in 1 .. size[1]
               PROVE  Given(1, r)'
    BY <1>0, <1>11 DEF ListingComplete, Given, orgVars
  <2> QED BY <1>3, <1>12 DEF Return
<1>15. NothingForeign'
  BY <1>0, <1>2, <1>3, <1>4, <1>5 DEF Inv, NothingForeign, Emission, orgVars
<1>16. StatusTrue'
  <2> SUFFICES ASSUME NEW m \in emitted'
               PROVE  IF m.row \in enabled' THEN {"active", "thawed"} \subseteq seen[m.row]
                      ELSE seen[m.row] \cap {"inactive", "frozen"} # {}
    BY <1>0, <1>3 DEF StatusTrue, orgVars
  <2>1. CASE m.row \in page.kept
    <3>1. /\ IF m.row \in page.lit THEN "active" \in seen[m.row] ELSE "inactive" \in seen[m.row]
          /\ IF m.row \in page.locked THEN "frozen" \in seen[m.row] ELSE "thawed" \in seen[m.row]
      BY <1>1, <2>1 DEF Inv, PageFits
    <3> QED BY <1>3, <2>1, <3>1
  <2>2. CASE m.row \notin page.kept
    <3>1. m \in emitted
      BY <1>3, <2>2 DEF Emission
    <3>2. page.lit \subseteq page.kept
      BY <1>1 DEF Inv, PageFits
    <3>3. m.row \in enabled' <=> m.row \in enabled
      BY <1>3, <2>2, <3>2
    <3> QED BY <1>1, <3>1, <3>3 DEF Inv, StatusTrue
  <2> QED BY <2>1, <2>2
<1>17. pc' \in {"page", "done", "error"}
  BY <1>3 DEF Return
<1>18. TypeOK'
  <2>1. emitted' \subseteq Emissions
    BY <1>2, <1>3, <1>4 DEF Inv, TypeOK, Emission, Emissions, Forms, Phases
  <2>2. enabled' \subseteq Rows /\ NoPage \in Pages
    BY <1>1, <1>3, EmptyIsToken DEF Inv, TypeOK, Pages, NoPage
  <2> QED BY <1>0, <1>3, <1>9, <1>17, <2>1, <2>2 DEF Inv, TypeOK, Shaped, orgVars
<1>19. ClassesFit' /\ SeenIsTrue' /\ PageFits'
  BY <1>0, <1>3, <1>17 DEF Inv, ClassesFit, SeenIsTrue, PageFits, FlagsOf, FlagsIn, orgVars
<1> QED BY <1>9, <1>10, <1>13, <1>14, <1>15, <1>16, <1>18, <1>19 DEF Inv

\* A failure, a repeated page or a restart, and a checkpoint.
LEMMA SdkStep == ASSUME Inv, ListingFails \/ Recover \/ Checkpoint PROVE Inv'
<1> USE DEF ListingFails, Recover, Checkpoint
<1>0. UNCHANGED orgVars /\ \A p, r : Due(p, r)' = Due(p, r)
  BY DueSame
<1>1. UNCHANGED <<active, frozen, cached, emitted, enabled, seen, drift>>
  OBVIOUS
<1>2. \A p, r : Given(p, r)' = Given(p, r)
  BY <1>0, <1>1 DEF Given, orgVars
<1>3. NoPage \in Pages
  BY EmptyIsToken DEF Pages, NoPage
<1>4. TypeOK'
  BY <1>0, <1>1, <1>3 DEF Inv, TypeOK, orgVars
<1>5. \A k : (Shaped(k) => (Shaped(k))') /\ (Covered(k) => (Covered(k))')
  BY <1>0, <1>2 DEF Shaped, Covered, orgVars
<1>6. pc' # "done" /\ pc' # "logins"
  OBVIOUS
<1>7. ClassesFit' /\ SeenIsTrue' /\ PageFits'
  BY <1>0, <1>1, <1>6 DEF Inv, ClassesFit, SeenIsTrue, PageFits, FlagsOf, FlagsIn, orgVars
<1>8. ListingComplete' /\ NothingForeign' /\ StatusTrue'
  BY <1>0, <1>1, <1>6 DEF Inv, ListingComplete, NothingForeign, StatusTrue, orgVars
<1>9. Shaped(token)' /\ Shaped(saved)'
  BY <1>0 DEF Inv, Shaped, orgVars
<1>10. Covered(saved)'
  BY <1>0, <1>2 DEF Inv, Covered, orgVars
<1>11. pc' \in {"page", "logins"} => Covered(token)'
  BY <1>0, <1>2 DEF Inv, Covered, orgVars
<1> QED BY <1>4, <1>7, <1>8, <1>9, <1>10, <1>11 DEF Inv

\* Someone else changes a user.
LEMMA DriftStep == ASSUME Inv, NEW r \in Users, Drift(r) PROVE Inv'
<1> USE DEF Drift
<1>0. UNCHANGED orgVars /\ \A p, q : Due(p, q)' = Due(p, q)
  BY DueSame
<1>1. /\ UNCHANGED <<cached, token, saved, pc, page, emitted, enabled, faults>>
      /\ seen' = [q \in Rows |-> seen[q] \cup FlagsOf(q)']
  OBVIOUS
<1>2. r \in Rows
  BY TokenFacts DEF Users, Phases
<1>3. /\ active' \subseteq Rows /\ frozen' \subseteq Rows
      /\ \A q \in Rows : FlagsOf(q)' \subseteq Flags /\ seen[q] \subseteq Flags
  BY <1>2 DEF Inv, TypeOK, FlagsOf, FlagsIn, Flags
<1>4. \A q \in Rows : seen[q] \subseteq seen'[q] /\ FlagsOf(q)' \subseteq seen'[q]
  BY <1>1
<1>5. seen' \in [Rows -> SUBSET Flags]
  BY <1>1, <1>3
<1>6. TypeOK'
  BY <1>0, <1>1, <1>3, <1>5 DEF Inv, TypeOK, orgVars
<1>7. \A p \in PhasesOf(kind) : \A q \in 1 .. size[p] : Given(p, q) => Given(p, q)'
  <2>1. \A p \in PhasesOf(kind) : 1 .. size[p] \subseteq Rows
    BY TokenFacts DEF PhasesOf, Phases
  <2> QED BY <1>0, <1>1, <1>4, <2>1 DEF Given, orgVars
<1>8. Covered(saved)' /\ (pc \in {"page", "logins"} => Covered(token)')
  BY <1>0, <1>1, <1>7 DEF Inv, Covered, orgVars
<1>9. Shaped(token)' /\ Shaped(saved)' /\ ClassesFit'
  BY <1>0, <1>1 DEF Inv, Shaped, ClassesFit, orgVars
<1>10. SeenIsTrue'
  BY <1>1, <1>4 DEF Inv, SeenIsTrue
<1>11. PageFits'
  <2> SUFFICES ASSUME pc = "logins" PROVE PageFits'
    BY <1>1 DEF PageFits
  <2>1. Users' = Users /\ PageEnds(1, token.url.at)' = PageEnds(1, token.url.at)
        /\ \A e : PlainToken(NextRecordsURL(1, e))' = PlainToken(NextRecordsURL(1, e))
    BY <1>0, <1>1 DEF Users, UserQuery, PageEnds, PlainToken, NextRecordsURL, orgVars
  <2>2. page.kept \subseteq Rows /\ page.looked \subseteq Rows /\ Users \subseteq Rows
    <3>1. page.kept \subseteq Rows /\ page.looked \subseteq Rows
      BY DEF Inv, TypeOK, Pages
    <3>2. 1 .. size[1] \subseteq Rows
      BY TokenFacts DEF Phases
    <3> QED BY <3>1, <3>2 DEF Users
  <2>3. \A q \in page.kept :
          IF q \in page.lit THEN "active" \in seen'[q] ELSE "inactive" \in seen'[q]
    BY <1>4, <2>2 DEF Inv, PageFits
  <2>4. \A q \in page.looked :
          IF q \in page.locked THEN "frozen" \in seen'[q] ELSE "thawed" \in seen'[q]
    BY <1>4, <2>2 DEF Inv, PageFits
  <2>5. \E e \in PageEnds(1, token.url.at) :
         /\ page.next = PlainToken(NextRecordsURL(1, e))
         /\ page.kept \subseteq (token.url.at + 1 .. e) \cap Users
         /\ \A q \in ((token.url.at + 1 .. e) \cap Users) \ page.kept :
              ~syncDeactivatedUsers /\ "inactive" \in seen'[q]
    BY <1>4, <2>2 DEF Inv, PageFits
  <2> QED BY <1>0, <1>1, <2>1, <2>3, <2>4, <2>5 DEF Inv, PageFits, orgVars
<1>12. pc # "done"
  OBVIOUS
<1>13. ListingComplete' /\ NothingForeign'
  BY <1>0, <1>1, <1>12 DEF Inv, ListingComplete, NothingForeign, orgVars
<1>14. StatusTrue'
  <2>1. \A m \in emitted : m.row \in Rows
    BY DEF Inv, TypeOK, Emissions
  <2> QED BY <1>0, <1>1, <1>4, <2>1 DEF Inv, StatusTrue, orgVars
<1> QED BY <1>1, <1>6, <1>8, <1>9, <1>10, <1>11, <1>13, <1>14 DEF Inv

\* The initial states.
LEMMA InitInv == Init => Inv
<1> SUFFICES ASSUME Init PROVE Inv
  OBVIOUS
<1>1. /\ token = EmptyToken /\ saved = EmptyToken /\ emitted = {} /\ enabled = {}
      /\ pc = "page" /\ page = NoPage /\ kind \in Kinds
      /\ size \in [Phases -> 0 .. MaxRows] /\ faults = 0
      /\ seen = [r \in Rows |-> cached[r] \cup FlagsOf(r)]
      /\ syncDeactivatedUsers \in BOOLEAN /\ syncNonStandardUsers \in BOOLEAN
      /\ active \subseteq Users /\ frozen \subseteq Users
  BY DEF Init
<1>2. \A p \in Phases : size[p] \in Nat /\ 1 .. size[p] \subseteq Rows
  BY <1>1, PagingBounds DEF Rows
<1>3. Users \subseteq Rows
  BY <1>2 DEF Users, Phases
<1>4. /\ class \in [Phases -> [Rows -> Classes]]
      /\ \A p \in Phases : \A r \in 1 .. size[p] : class[p][r] \in ClassesOf(kind, p)
  <2>1. PICK c1 \in [1 .. size[1] -> ClassesOf(kind, 1)],
             c2 \in [1 .. size[2] -> ClassesOf(kind, 2)] :
          class = [p \in Phases |-> [r \in Rows |-> IF r > size[p] THEN "Plain"
                                                ELSE IF p = 1 THEN c1[r] ELSE c2[r]]]
    BY DEF Init
  <2>2. ClassesOf(kind, 1) \subseteq Classes /\ ClassesOf(kind, 2) \subseteq Classes
        /\ "Plain" \in Classes
    BY DEF ClassesOf, Classes
  <2>3. /\ \A r \in 1 .. size[1] : c1[r] \in ClassesOf(kind, 1)
        /\ \A r \in 1 .. size[2] : c2[r] \in ClassesOf(kind, 2)
    BY <2>1
  <2>4. \A p \in Phases, r \in Rows : class[p][r] =
          IF r > size[p] THEN "Plain" ELSE IF p = 1 THEN c1[r] ELSE c2[r]
    BY <2>1
  <2>5. \A p \in Phases, r \in Rows : r > size[p] \/ r \in 1 .. size[p]
    BY <1>2, PagingBounds DEF Rows
  <2>6. \A p \in Phases : \A r \in 1 .. size[p] : ~(r > size[p]) /\ r \in Rows
    BY <1>2
  <2>7. \A p \in Phases : p = 1 \/ p = 2
    BY DEF Phases
  <2>8. \A p \in Phases : \A r \in 1 .. size[p] : class[p][r] \in ClassesOf(kind, p)
    BY <2>3, <2>4, <2>6, <2>7
  <2>9. \A p \in Phases, r \in Rows : class[p][r] \in Classes
    BY <2>2, <2>4, <2>5, <2>7, <2>8
  <2> QED BY <2>1, <2>8, <2>9
<1>5. PhasesOf(kind) \subseteq Phases
  BY DEF PhasesOf, Phases
<1>a. PICK a \in SUBSET Users, f \in SUBSET Users :
        /\ cached = [r \in Rows |-> FlagsIn(a, f, r)]
        /\ drift = Changes(a, active) + Changes(f, frozen)
  BY DEF Init
<1>b. drift \in Nat
  <2>1. IsFiniteSet(Users)
    <3>1. IsFiniteSet(Rows)
      BY FS_Interval, PagingBounds DEF Rows
    <3> QED BY <1>3, <3>1, FS_Subset
  <2>2. ASSUME NEW S \in SUBSET Users, NEW T \in SUBSET Users PROVE Changes(S, T) \in Nat
    <3>1. (S \ T) \cup (T \ S) \subseteq Users
      OBVIOUS
    <3>2. IsFiniteSet((S \ T) \cup (T \ S))
      BY <2>1, <3>1, FS_Subset
    <3> QED BY <3>2, FS_CardinalityType DEF Changes
  <2> QED BY <1>1, <1>a, <2>2
<1>6. cached \in [Rows -> SUBSET Flags] /\ seen \in [Rows -> SUBSET Flags] /\ SeenIsTrue
  BY <1>1, <1>a DEF SeenIsTrue, FlagsOf, FlagsIn, Flags
<1>7. NoPage \in Pages
  BY EmptyIsToken DEF Pages, NoPage
<1>8. TypeOK
  BY <1>1, <1>3, <1>4, <1>6, <1>7, <1>b, EmptyIsToken, PagingBounds DEF TypeOK
<1>9. ClassesFit /\ PageFits
  BY <1>1, <1>4, <1>5 DEF ClassesFit, PageFits
<1>10. Shaped(token) /\ Shaped(saved)
  BY <1>1, EmptyIsToken DEF Shaped
<1>11. Covered(token) /\ Covered(saved)
  BY <1>1, <1>2, <1>5, EmptyIsToken DEF Covered, Before
<1>12. ListingComplete /\ NothingForeign /\ StatusTrue
  BY <1>1 DEF ListingComplete, NothingForeign, StatusTrue
<1> QED BY <1>6, <1>8, <1>9, <1>10, <1>11, <1>12 DEF Inv

\* Every step preserves the invariant.
LEMMA StepInv == Inv /\ [Next]_pagingVars => Inv'
<1> SUFFICES ASSUME Inv, [Next]_pagingVars PROVE Inv'
  OBVIOUS
<1>1. CASE Progress
  BY <1>1, PlainStep, NotSupportedStep, StaticEntitlementsStep, PermissionGrantsStep,
     GetUsersStep, GetUserLoginsStep, userResourcesStep DEF Progress, AgentList
<1>2. CASE ListingFails \/ Recover \/ Checkpoint
  BY <1>2, SdkStep
<1>3. CASE \E r \in Users : Drift(r)
  BY <1>3, DriftStep
<1>4. CASE UNCHANGED pagingVars
  <2>0. UNCHANGED orgVars /\ \A p, r : Due(p, r)' = Due(p, r)
    BY <1>4, DueSame DEF pagingVars, orgVars
  <2>1. \A p, r : Given(p, r)' = Given(p, r)
    BY <1>4, <2>0 DEF Given, pagingVars
  <2>2. Users' = Users /\ PageEnds(1, token.url.at)' = PageEnds(1, token.url.at)
        /\ \A e : PlainToken(NextRecordsURL(1, e))' = PlainToken(NextRecordsURL(1, e))
    BY <1>4 DEF Users, UserQuery, PageEnds, PlainToken, NextRecordsURL, pagingVars
  <2>3. TypeOK' /\ ClassesFit' /\ SeenIsTrue' /\ Shaped(token)' /\ Shaped(saved)'
    BY <1>4 DEF Inv, TypeOK, ClassesFit, SeenIsTrue, FlagsOf, FlagsIn, Shaped, pagingVars
  <2>4. (pc' \in {"page", "logins"} => Covered(token)') /\ Covered(saved)'
    BY <1>4, <2>1 DEF Inv, Covered, pagingVars
  <2>5. ListingComplete' /\ NothingForeign' /\ StatusTrue'
    BY <1>4, <2>0 DEF Inv, ListingComplete, NothingForeign, StatusTrue, pagingVars
  <2>6. PageFits'
    BY <1>4, <2>2 DEF Inv, PageFits, pagingVars
  <2> QED BY <2>3, <2>4, <2>5, <2>6 DEF Inv
<1> QED BY <1>1, <1>2, <1>3, <1>4 DEF Next, Terminated

-----------------------------------------------------------------------------
(* The invariant holds of every listing: of the token in use and of the    *)
(* saved one, what is due before it has been given.                        *)
THEOREM InvHolds == Spec => []Inv
<1>1. Init => Inv  BY InitInv
<1>2. Inv /\ [Next]_pagingVars => Inv'  BY StepInv
<1> QED BY <1>1, <1>2, PTL DEF Spec

(* List and Grants of every builder: a listing that ends well has given    *)
(* the SDK all that is due, for any number of records, any cut into pages, *)
(* and any repeated pages and restarts.                                    *)
THEOREM ListingsAreComplete == Spec => []ListingComplete
<1>1. Inv => ListingComplete  BY DEF Inv
<1> QED BY <1>1, InvHolds, PTL

(* List and Grants of every builder: nothing that is not due is given,     *)
(* and the two phases of a permission set's grants are not mixed up.       *)
THEOREM ListingsAreClean == Spec => []NothingForeign
<1>1. Inv => NothingForeign  BY DEF Inv
<1> QED BY <1>1, InvHolds, PTL

(* The list of users gives each a status it had since the first of the     *)
(* cached answers, and so, if no sync failed before it, while it ran; for  *)
(* any chunk size and whichever answers List takes from the cache.         *)
THEOREM StatusIsTrue == Spec => []StatusTrue
<1>1. Inv => StatusTrue  BY DEF Inv
<1> QED BY <1>1, InvHolds, PTL

-----------------------------------------------------------------------------
(* No listing goes in circles.                                             *)

\* The SDK keeps what it has, and gets nothing with a failure.
Gives == emitted \subseteq emitted' /\ (pc' = "error" => emitted' = emitted)

\* The step counts down.
Nearer == StepsLeft' \in 0 .. StepsLeft - 1 /\ Gives

\* A bound on steps is a number, and depends on the org and the token alone.
LEMMA StepsFromType ==
  ASSUME Inv, NEW k, Shaped(k)
  PROVE  /\ StepsFrom(k) \in Nat /\ StepsFrom(k) >= 2
         /\ k.url.at \in Nat /\ k.prefix \in BOOLEAN
<1>1. k.url.at \in Nat /\ k.prefix \in BOOLEAN
  BY PagingBounds DEF Shaped, Tokens, URLs, NoURL, Rows
<1>2. size[1] \in Nat /\ size[2] \in Nat
  BY TokenFacts DEF Phases
<1>3. CASE k.prefix
  <2>1. k.url.at <= size[2]
    BY <1>1, <1>2, <1>3 DEF Shaped
  <2> QED BY <1>1, <1>2, <1>3, <2>1 DEF StepsFrom
<1>4. CASE ~k.prefix
  <2>1. k.url.at <= size[1]
    BY <1>1, <1>2, <1>4 DEF Shaped
  <2> QED BY <1>1, <1>2, <1>4, <2>1 DEF StepsFrom
<1> QED BY <1>1, <1>3, <1>4

\* The token that is in use leads to at least two more steps.
LEMMA PageSteps ==
  ASSUME Inv, pc = "page"
  PROVE  StepsLeft = StepsFrom(token) /\ StepsLeft \in Nat /\ StepsLeft >= 2
BY StepsFromType DEF Inv, StepsLeft

\* A page that is returned with a token for less counts down.
LEMMA DeliverCounts ==
  ASSUME Inv, pc = "page", UNCHANGED orgVars, NEW q, NEW made, NEW e, NEW next,
         Deliver(q, made, e, next),
         next = EmptyToken \/ (Shaped(next) /\ StepsFrom(next) < StepsFrom(token))
  PROVE  Nearer
<1>1. StepsLeft = StepsFrom(token) /\ StepsLeft \in Nat /\ StepsLeft >= 2
  BY PageSteps
<1>a. Gives
  <2>1. next = EmptyToken \/ next # token
    BY <1>1
  <2> QED BY <2>1 DEF Deliver, Return, Gives
<1>2. CASE pc' # "page"
  <2>1. pc' \in {"error", "done"}
    BY <1>2 DEF Deliver, Return
  <2>2. StepsLeft' = 0
    BY <2>1 DEF StepsLeft
  <2> QED BY <1>1, <1>a, <2>2 DEF Nearer
<1>3. CASE pc' = "page"
  <2>1. token' = next /\ next # EmptyToken
    BY <1>3 DEF Deliver, Return
  <2>2. StepsLeft' = StepsFrom(next)
    BY <1>3, <2>1 DEF StepsLeft, StepsFrom, orgVars
  <2>3. StepsFrom(next) \in Nat
    BY <2>1, StepsFromType
  <2> QED BY <1>1, <1>a, <2>1, <2>2, <2>3 DEF Nearer
<1> QED BY <1>2, <1>3

\* The token for the next page of a listing of one phase.
LEMMA PlainNext ==
  ASSUME Inv, kind # "permissionGrants", NEW e \in PageEnds(1, token.url.at),
         NEW next, next = PlainToken(NextRecordsURL(1, e))
  PROVE  \/ next = EmptyToken
         \/ /\ next # EmptyToken /\ Shaped(next)
            /\ e > token.url.at
            /\ StepsFrom(next) = 3 * (size[1] - e) + 3 * size[2] + 5
<1>1. /\ size[1] \in 0 .. MaxRows /\ token.url.at \in Nat /\ e \in token.url.at .. size[1]
  BY PagingBounds
     DEF Inv, TypeOK, Shaped, Tokens, URLs, NoURL, Rows, PageEnds, Phases
<1>2. CASE e < size[1]
  <2>0. e \in Rows /\ 1 \in Phases /\ e > token.url.at
    BY <1>1, <1>2, PagingBounds DEF PageEnds, Rows, Phases
  <2>1. PICK url : url = NextRecordsURL(1, e) /\ url = [phase |-> 1, at |-> e]
    BY <1>2 DEF NextRecordsURL
  <2>2. url \in URLs /\ url # NoURL /\ url.at = e
    BY <2>0, <2>1, UrlFacts
  <2>3. next.prefix = FALSE /\ next.url = url /\ next # EmptyToken
    BY <2>1, <2>2, UrlToken DEF PlainToken
  <2>4. Shaped(next)
    BY PlainReaches
  <2> QED BY <2>0, <2>2, <2>3, <2>4 DEF StepsFrom
<1>3. CASE ~(e < size[1])
  <2>1. NextRecordsURL(1, e) = NoURL
    BY <1>3 DEF NextRecordsURL
  <2> QED BY <2>1 DEF PlainToken, EmptyToken
<1> QED BY <1>2, <1>3

\* The facts about numbers all the pages of phase 1 have in common.
LEMMA TokenSteps ==
  ASSUME Inv, kind # "permissionGrants"
  PROVE  /\ StepsFrom(token) = 3 * (size[1] - token.url.at) + 3 * size[2] + 5
         /\ size[1] \in Nat /\ size[2] \in Nat /\ token.url.at \in Nat
         /\ token.url.at <= size[1]
<1>1. /\ token.url.at \in Nat /\ size[1] \in Nat /\ size[2] \in Nat
  BY TokenFacts, PagingBounds DEF Phases
<1>a. token.prefix = FALSE
  BY TokenFacts
<1>2. token.url.at <= size[1]
  BY <1>1, <1>a DEF Inv, Shaped
<1> QED BY <1>1, <1>a, <1>2 DEF StepsFrom

\* A page of a listing of one phase.
LEMMA PageCounts ==
  ASSUME Inv, NEW k \in Kinds \ {"users", "permissionGrants"}, NEW made, Page(k, made)
  PROVE  Nearer
<1>1. PICK e \in PageEnds(1, token.url.at) :
        Deliver(1, made, e, PlainToken(NextRecordsURL(1, e)))
  BY DEF Page
<1>2. kind # "permissionGrants" /\ pc = "page" /\ UNCHANGED orgVars
  BY DEF Page
<1>3. PICK next : next = PlainToken(NextRecordsURL(1, e))
  OBVIOUS
<1>4. next = EmptyToken \/ (Shaped(next) /\ StepsFrom(next) < StepsFrom(token))
  <2>1. e \in Int
    BY <1>2, TokenSteps DEF PageEnds
  <2> QED BY <1>2, <1>3, <2>1, PlainNext, TokenSteps
<1> QED BY <1>1, <1>2, <1>3, <1>4, DeliverCounts

\* A page of either phase of a permission set's grants.
LEMMA PermissionGrantsCounts == ASSUME Inv, PermissionGrants PROVE Nearer
<1>0. /\ kind = "permissionGrants" /\ pc = "page" /\ UNCHANGED orgVars
      /\ size[1] \in Nat /\ size[2] \in Nat /\ token.url.at \in Nat
      /\ size[1] <= MaxRows /\ size[2] <= MaxRows
  BY TokenFacts, PagingBounds DEF PermissionGrants, Phases
<1>1. CASE token.prefix
  <2>1. QueryOf(2) = 2 /\ token.url.at <= size[2]
    BY <1>0, <1>1, TokenFacts DEF QueryOf
  <2>2. PICK e \in PageEnds(2, token.url.at) :
          Deliver(2, GetPermissionSetGroupComponentsByPermissionSet, e,
                  TokenAfterGroups(NextRecordsURL(2, e)))
    BY <1>1, <2>1 DEF PermissionGrants
  <2>3. PICK next : next = TokenAfterGroups(NextRecordsURL(2, e))
    OBVIOUS
  <2>4. CASE e < size[2]
    <3>0. e \in Rows /\ 2 \in Phases /\ e > token.url.at
      BY <1>0, <2>4, PagingBounds DEF PageEnds, Rows, Phases
    <3>1. PICK url : url = NextRecordsURL(2, e) /\ url = [phase |-> 2, at |-> e]
      BY <2>4 DEF NextRecordsURL
    <3>2. url \in URLs /\ url # NoURL /\ url.at = e /\ url.phase = 2
      BY <3>0, <3>1, UrlFacts
    <3>a. next = [prefix |-> TRUE, url |-> url]
      BY <2>3, <3>1, <3>2 DEF TokenAfterGroups
    <3>3. next.prefix = TRUE /\ next.url = url /\ next \in Tokens
      BY <3>2, <3>a, PrefixedToken
    <3>4. Shaped(next)
      BY <1>0, <2>4, <3>2, <3>3 DEF Shaped
    <3>5. StepsFrom(next) = 3 * (size[2] - e) + 2
      BY <3>2, <3>3 DEF StepsFrom
    <3>6. StepsFrom(token) = 3 * (size[2] - token.url.at) + 2
      BY <1>1 DEF StepsFrom
    <3>7. StepsFrom(next) < StepsFrom(token)
      BY <1>0, <3>0, <3>5, <3>6 DEF Rows
    <3> QED BY <1>0, <2>2, <2>3, <3>4, <3>7, DeliverCounts
  <2>5. CASE ~(e < size[2])
    <3>1. next = EmptyToken
      BY <2>3, <2>5 DEF NextRecordsURL, TokenAfterGroups
    <3> QED BY <1>0, <2>2, <2>3, <3>1, DeliverCounts
  <2> QED BY <2>4, <2>5
<1>2. CASE ~token.prefix
  <2>1. QueryOf(1) = 1 /\ token.url.at <= size[1]
    BY <1>0, <1>2, TokenFacts DEF QueryOf
  <2>2. PICK e \in PageEnds(1, token.url.at) :
          Deliver(1, GetPermissionSetAssignments, e, TokenAfterUsers(NextRecordsURL(1, e)))
    BY <1>2, <2>1 DEF PermissionGrants
  <2>3. PICK next : next = TokenAfterUsers(NextRecordsURL(1, e))
    OBVIOUS
  <2>a. StepsFrom(token) = 3 * (size[1] - token.url.at) + 3 * size[2] + 5
    BY <1>2 DEF StepsFrom
  <2>4. CASE e < size[1]
    <3>0. e \in Rows /\ 1 \in Phases /\ e > token.url.at
      BY <1>0, <2>4, PagingBounds DEF PageEnds, Rows, Phases
    <3>1. PICK url : url = NextRecordsURL(1, e) /\ url = [phase |-> 1, at |-> e]
      BY <2>4 DEF NextRecordsURL
    <3>2. url \in URLs /\ url # NoURL /\ url.at = e /\ url.phase = 1
      BY <3>0, <3>1, UrlFacts
    <3>a. next = [prefix |-> FALSE, url |-> url]
      BY <2>3, <3>1, <3>2 DEF TokenAfterUsers
    <3>3. next.prefix = FALSE /\ next.url = url /\ next \in Tokens
      BY <3>2, <3>a, UrlToken
    <3>4. Shaped(next)
      BY <1>0, <2>4, <3>2, <3>3 DEF Shaped
    <3>5. StepsFrom(next) = 3 * (size[1] - e) + 3 * size[2] + 5
      BY <3>2, <3>3 DEF StepsFrom
    <3>6. StepsFrom(next) < StepsFrom(token)
      BY <1>0, <2>a, <3>0, <3>5 DEF Rows
    <3> QED BY <1>0, <2>2, <2>3, <3>4, <3>6, DeliverCounts
  <2>5. CASE ~(e < size[1])
    <3>1. next = [prefix |-> TRUE, url |-> NoURL]
      BY <2>3, <2>5 DEF NextRecordsURL, TokenAfterUsers
    <3>2. next.prefix = TRUE /\ next.url.at = 0 /\ next \in Tokens
      BY <3>1, PrefixedToken DEF NoURL
    <3>3. Shaped(next)
      BY <1>0, <3>2 DEF Shaped
    <3>4. StepsFrom(next) = 3 * (size[2] - 0) + 2
      BY <3>2 DEF StepsFrom
    <3>5. StepsFrom(next) < StepsFrom(token)
      BY <1>0, <2>1, <2>a, <3>4
    <3> QED BY <1>0, <2>2, <2>3, <3>3, <3>5, DeliverCounts
  <2> QED BY <2>4, <2>5
<1> QED BY <1>1, <1>2

\* The users of a page are no more than the records between its tokens.
LEMMA KeptSize ==
  ASSUME NEW a \in Nat, NEW e \in Nat, a <= e, NEW S \in SUBSET (a + 1 .. e)
  PROVE  IsFiniteSet(S) /\ Cardinality(S) \in Nat /\ Cardinality(S) <= e - a
<1>1. IsFiniteSet(a + 1 .. e) /\ Cardinality(a + 1 .. e) = e - a
  <2>1. a + 1 \in Int /\ e \in Int
    OBVIOUS
  <2>2. /\ IsFiniteSet(a + 1 .. e)
        /\ Cardinality(a + 1 .. e) = IF a + 1 > e THEN 0 ELSE e - (a + 1) + 1
    BY <2>1, FS_Interval
  <2> QED BY <2>2
<1> QED BY <1>1, FS_Subset, FS_CardinalityType

\* A page of users is read.
LEMMA GetUsersCounts == ASSUME Inv, GetUsers PROVE Nearer
<1>0. /\ kind = "users" /\ pc = "page" /\ pc' = "logins" /\ UNCHANGED orgVars
      /\ kind # "permissionGrants"
  BY DEF GetUsers
<1>1. PICK e \in PageEnds(1, token.url.at) :
        /\ page'.kept \subseteq token.url.at + 1 .. e
        /\ page'.looked = {}
        /\ page'.next = PlainToken(NextRecordsURL(1, e))
  BY DEF GetUsers
<1>2. PICK next : next = PlainToken(NextRecordsURL(1, e))
  OBVIOUS
<1>3. PICK n : n = Cardinality(page'.kept)
  OBVIOUS
<1>4. /\ StepsLeft' = 1 + n + IF next = EmptyToken THEN 0 ELSE StepsFrom(next)
      /\ StepsLeft = StepsFrom(token)
  <2>1. page'.kept \ page'.looked = page'.kept
    BY <1>1
  <2> QED BY <1>0, <1>1, <1>2, <1>3, <2>1 DEF StepsLeft, StepsFrom, orgVars
<1>5. /\ e \in Nat /\ token.url.at <= e /\ e <= size[1]
      /\ StepsFrom(token) = 3 * (size[1] - token.url.at) + 3 * size[2] + 5
      /\ size[1] \in Nat /\ size[2] \in Nat /\ token.url.at \in Nat
  BY <1>0, TokenSteps DEF PageEnds
<1>6. n \in Nat /\ n <= e - token.url.at
  BY <1>1, <1>3, <1>5, KeptSize
<1>a. Gives
  BY DEF GetUsers, Gives
<1>7. CASE next = EmptyToken
  BY <1>4, <1>5, <1>6, <1>7, <1>a DEF Nearer
<1>8. CASE next # EmptyToken
  <2>1. /\ e > token.url.at
        /\ StepsFrom(next) = 3 * (size[1] - e) + 3 * size[2] + 5
    BY <1>0, <1>2, <1>8, PlainNext
  <2> QED BY <1>4, <1>5, <1>6, <1>8, <1>a, <2>1 DEF Nearer
<1> QED BY <1>7, <1>8

\* What is still to be done while a page of users is read.
LEMMA LoginSteps ==
  ASSUME Inv, pc = "logins"
  PROVE  LET rest == IF page.next = EmptyToken THEN 0 ELSE StepsFrom(page.next)
         IN  /\ IsFiniteSet(page.kept)
             /\ rest \in Nat
             /\ page.next = EmptyToken \/ Shaped(page.next)
             /\ StepsLeft = 1 + Cardinality(page.kept \ page.looked) + rest
<1>1. kind = "users" /\ page.kept \subseteq Rows
  BY DEF Inv, PageFits, TypeOK, Pages
<1>2. page.next = EmptyToken \/ Shaped(page.next)
  <2>1. PICK e \in PageEnds(1, token.url.at) : page.next = PlainToken(NextRecordsURL(1, e))
    BY DEF Inv, PageFits
  <2> QED BY <1>1, <2>1, PlainNext
<1>3. IsFiniteSet(page.kept)
  <2>1. IsFiniteSet(Rows)
    BY FS_Interval, PagingBounds DEF Rows
  <2> QED BY <1>1, <2>1, FS_Subset
<1> QED BY <1>2, <1>3, StepsFromType DEF StepsLeft

\* A chunk of UserLogins is read.
LEMMA GetUserLoginsCounts == ASSUME Inv, GetUserLoginsByUserIDs PROVE Nearer
<1>0. pc = "logins" /\ pc' = pc /\ UNCHANGED orgVars /\ page \in Pages
  BY DEF GetUserLoginsByUserIDs, Inv, TypeOK
<1>1. PICK told : page' = [page EXCEPT !.looked = @ \cup Chunk,
                                       !.locked = @ \cup (Chunk \cap told)]
  BY DEF GetUserLoginsByUserIDs, NotPaginated
<1>2. /\ page'.kept = page.kept /\ page'.next = page.next
      /\ page'.looked = page.looked \cup Chunk
  BY <1>0, <1>1 DEF Pages
<1>3. PICK before, after : /\ before = page.kept \ page.looked
                           /\ after = page'.kept \ page'.looked
  OBVIOUS
<1>4. Chunk \subseteq before /\ Chunk # {}
  BY <1>3 DEF Chunk, GetUserLoginsByUserIDs
<1>5. after \subseteq before /\ after # before
  BY <1>2, <1>3, <1>4
<1>6. /\ IsFiniteSet(before)
      /\ Cardinality(before) \in Nat /\ Cardinality(after) \in Nat
      /\ Cardinality(after) < Cardinality(before)
  <2>1. IsFiniteSet(before)
    BY <1>0, <1>3, LoginSteps, FS_Subset
  <2>2. IsFiniteSet(after) /\ Cardinality(after) <= Cardinality(before)
        /\ Cardinality(before) # Cardinality(after)
    BY <1>5, <2>1, FS_Subset
  <2> QED BY <2>1, <2>2, FS_CardinalityType
<1>7. PICK rest \in Nat : rest = IF page.next = EmptyToken THEN 0 ELSE StepsFrom(page.next)
  BY <1>0, LoginSteps
<1>8. StepsLeft = 1 + Cardinality(before) + rest
  BY <1>0, <1>3, <1>7, LoginSteps
<1>9. StepsLeft' = 1 + Cardinality(after) + rest
  BY <1>0, <1>2, <1>3, <1>7 DEF StepsLeft, StepsFrom, orgVars
<1>10. Gives
  BY <1>0 DEF GetUserLoginsByUserIDs, Gives
<1> QED BY <1>6, <1>8, <1>9, <1>10 DEF Nearer

\* The page of users is given to the SDK.
LEMMA userResourcesCounts == ASSUME Inv, userResources PROVE Nearer
<1>0. /\ pc = "logins" /\ page.looked = page.kept /\ UNCHANGED orgVars
      /\ Return(page.next)
  BY DEF userResources
<1>1. PICK rest \in Nat : rest = IF page.next = EmptyToken THEN 0 ELSE StepsFrom(page.next)
  BY <1>0, LoginSteps
<1>2. StepsLeft = 1 + 0 + rest
  <2>1. page.kept \ page.looked = {}
    BY <1>0
  <2> QED BY <1>0, <1>1, <2>1, LoginSteps, FS_EmptySet
<1>a. Gives
  <2>1. PICK e \in PageEnds(1, token.url.at) : page.next = PlainToken(NextRecordsURL(1, e))
    BY <1>0 DEF Inv, PageFits
  <2>2. kind # "permissionGrants"
    BY <1>0 DEF Inv, PageFits
  <2>3. page.next # EmptyToken => StepsFrom(page.next) # StepsFrom(token)
    <3>1. e \in Int
      BY <2>2, TokenSteps DEF PageEnds
    <3> QED BY <2>1, <2>2, <3>1, PlainNext, TokenSteps
  <2> QED BY <1>0, <2>3 DEF userResources, Return, Gives
<1>3. CASE pc' = "page"
  <2>1. token' = page.next /\ page.next # EmptyToken
    BY <1>0, <1>3 DEF Return
  <2>2. StepsLeft' = rest
    BY <1>0, <1>1, <1>3, <2>1 DEF StepsLeft, StepsFrom, orgVars
  <2> QED BY <1>2, <1>a, <2>2 DEF Nearer
<1>4. CASE pc' # "page"
  <2>1. pc' \in {"done", "error"}
    BY <1>0, <1>4 DEF Return
  <2>2. StepsLeft' = 0
    BY <2>1 DEF StepsLeft
  <2> QED BY <1>2, <1>a, <2>2 DEF Nearer
<1> QED BY <1>3, <1>4

\* A listing that fails is over.
LEMMA ListingFailsCounts == ASSUME Inv, ListingFails PROVE Nearer
<1>1. pc' = "error" /\ StepsLeft' = 0
  BY DEF ListingFails, StepsLeft
<1>a. Gives
  BY DEF ListingFails, Gives
<1>2. CASE pc = "page"
  BY <1>1, <1>2, <1>a, PageSteps DEF Nearer
<1>3. CASE pc = "logins"
  <2>1. IsFiniteSet(page.kept \ page.looked)
    BY <1>3, LoginSteps, FS_Subset
  <2>2. Cardinality(page.kept \ page.looked) \in Nat
    BY <2>1, FS_CardinalityType
  <2>3. StepsLeft \in Nat /\ StepsLeft >= 1
    BY <1>3, <2>2, LoginSteps
  <2> QED BY <1>1, <1>a, <2>3 DEF Nearer
<1> QED BY <1>2, <1>3 DEF ListingFails

\* Every step of a builder counts down.
LEMMA ProgressCounts == ASSUME Inv, Progress PROVE Nearer
<1> USE DEF Kinds, Lists, Grants
<1>1. CASE \/ GroupList \/ PermissionList \/ ProfileList \/ RoleList
           \/ PermissionSetGroupList \/ TerritoryList \/ ConnectedApplicationList
  BY <1>1, PageCounts DEF GroupList, PermissionList, ProfileList, RoleList,
                          PermissionSetGroupList, TerritoryList, ConnectedApplicationList
<1>2. CASE \/ GroupGrants \/ ProfileGrants \/ RoleGrants \/ PermissionSetGroupGrants
           \/ TerritoryGrants
  BY <1>2, PageCounts DEF GroupGrants, ProfileGrants, RoleGrants, PermissionSetGroupGrants,
                          TerritoryGrants
<1>3. CASE AgentList
  <2>1. CASE NotSupported
    <3>1. pc = "page" /\ pc' = "done"
      BY <2>1 DEF NotSupported, Return
    <3>2. StepsLeft' = 0 /\ Gives
      BY <2>1, <3>1 DEF StepsLeft, NotSupported, Gives
    <3> QED BY <3>1, <3>2, PageSteps DEF Nearer
  <2> QED BY <1>3, <2>1, PageCounts DEF AgentList
<1>4. CASE StaticEntitlements
  BY <1>4, DeliverCounts DEF StaticEntitlements
<1> QED BY <1>1, <1>2, <1>3, <1>4, PermissionGrantsCounts, GetUsersCounts,
           GetUserLoginsCounts, userResourcesCounts DEF Progress

(* The List and the Grants of every builder, for any number of records and *)
(* any chunk size: every step brings the end of the listing closer, unless *)
(* the SDK repeats a page or starts again.                                 *)
THEOREM ListingsAdvance == Spec => ListingAdvances
<1>1. Inv /\ [Next]_pagingVars =>
        [UNCHANGED <<saved, drift, faults>> => StepsLeft' \in 0 .. StepsLeft - 1]_pagingVars
  <2> SUFFICES ASSUME Inv, Next, UNCHANGED <<saved, drift, faults>>
               PROVE  Nearer \/ UNCHANGED pagingVars
    BY DEF Nearer
  <2>1. ~Checkpoint
    BY DEF Checkpoint
  <2>2. ~Recover
    BY DEF Recover, Inv, TypeOK
  <2>3. \A r \in Users : ~Drift(r)
    BY DEF Drift, Inv, TypeOK
  <2> QED BY <2>1, <2>2, <2>3, ProgressCounts, ListingFailsCounts DEF Next, Terminated
<1> QED BY <1>1, InvHolds, PTL DEF Spec, ListingAdvances

-----------------------------------------------------------------------------
(* The refinement.                                                         *)

\* A listing without a second phase has no records of one.
OnePhase == 2 \notin PhasesOf(kind) => size[2] = 0

\* No step changes what is due.
LEMMA OrgKept ==
  ASSUME [Next]_pagingVars
  PROVE  UNCHANGED orgVars
BY DEF Next, Progress, GroupList, PermissionList, ProfileList, RoleList, PermissionSetGroupList,
       TerritoryList, ConnectedApplicationList, AgentList, NotSupported, StaticEntitlements,
       GroupGrants, ProfileGrants, RoleGrants, PermissionSetGroupGrants, TerritoryGrants, Page,
       PermissionGrants, GetUsers, GetUserLoginsByUserIDs, userResources, ListingFails, Recover,
       Checkpoint, Drift, Terminated, pagingVars, orgVars

\* What is due of all the records.
LEMMA AllDueFacts ==
  /\ \A e \in AllDue : \E p \in Phases : \E r \in 1 .. size[p] :
       e.phase = p /\ e.row = r /\ e.as \in Due(p, r) /\ e = Emission(e.as, p, r)
  /\ \A p \in Phases : \A r \in 1 .. size[p] : \A f \in Due(p, r) : Emission(f, p, r) \in AllDue
BY DEF AllDue, Emission

\* What may be missing stays so, and what is due stays due.
LEMMA ExcusedGrows ==
  ASSUME UNCHANGED orgVars, TypeOK
  PROVE  /\ AllDue' = AllDue /\ Excused \subseteq AllDue
         /\ seen' = seen => Excused' = Excused
         /\ (\A r \in Rows : seen[r] \subseteq seen'[r]) =>
              Excused \subseteq Excused' /\ Excused' \subseteq AllDue
<1>1. AllDue' = AllDue
  BY DueSame DEF AllDue, Emission, orgVars
<1>2. \A e \in AllDue : e.row \in Rows
  BY AllDueFacts, PagingBounds DEF TypeOK, Rows
<1> QED BY <1>1, <1>2 DEF Excused, orgVars

\* Every step of a listing is a step of the contract, or a stutter.
LEMMA StepIsListingStep ==
  ASSUME Inv, OnePhase, [Next]_pagingVars
  PROVE  [Listing!Next]_(Listing!vars)
<1>1. /\ UNCHANGED orgVars /\ TypeOK /\ Inv' /\ TypeOK' /\ OnePhase'
      /\ NothingForeign' /\ ListingComplete'
  <2>1. UNCHANGED orgVars /\ Inv'
    BY OrgKept, StepInv
  <2> QED BY <2>1 DEF Inv, OnePhase, orgVars
<1>2. AllDue' = AllDue /\ emitted' \subseteq AllDue
  <2>1. AllDue' = AllDue
    BY <1>1, ExcusedGrows
  <2>2. (emitted \subseteq AllDue)'
    <3>1. \A e \in emitted' : e \in Emissions /\ e.row <= size[e.phase] /\ e.as \in Due(e.phase, e.row)
      BY <1>1, DueSame DEF TypeOK, NothingForeign, orgVars
    <3>2. \A e \in emitted' : e = Emission(e.as, e.phase, e.row) /\ e.phase \in Phases
                              /\ e.row \in 1 .. size[e.phase]
      BY <1>1, <3>1, PagingBounds DEF Emissions, Emission, Rows, TypeOK
    <3> QED BY <2>1, <3>1, <3>2, AllDueFacts
  <2> QED BY <2>1, <2>2
<1>3. CASE Progress \/ ListingFails
  <2>1. Gives /\ seen' = seen /\ pc \in {"page", "logins"}
    <3>1. Gives
      BY <1>3, ProgressCounts, ListingFailsCounts DEF Nearer
    <3>2. seen' = seen /\ pc \in {"page", "logins"}
      BY <1>3 DEF Progress, GroupList, PermissionList, ProfileList, RoleList,
         PermissionSetGroupList, TerritoryList, ConnectedApplicationList, AgentList,
         NotSupported, StaticEntitlements, GroupGrants, ProfileGrants, RoleGrants,
         PermissionSetGroupGrants, TerritoryGrants, Page, PermissionGrants, GetUsers,
         GetUserLoginsByUserIDs, userResources, ListingFails
    <3> QED BY <3>1, <3>2
  <2>2. Excused' = Excused
    BY <1>1, <2>1, ExcusedGrows
  <2>3. CASE pc' = "error"
    <3>1. emitted' = emitted
      BY <2>1, <2>3 DEF Gives
    <3> QED BY <1>2, <2>1, <2>2, <2>3, <3>1 DEF Listing!Next, Listing!Fail
  <2>4. CASE pc' = "done"
    <3>1. AllDue \ Excused \subseteq emitted'
      <4>1. (AllDue \ Excused \subseteq emitted)'
        <5> SUFFICES ASSUME NEW e \in AllDue, e \notin emitted' PROVE e \in Excused'
          BY <1>2
        <5>1. PICK p \in Phases : \E r \in 1 .. size[p] :
                e.phase = p /\ e.row = r /\ e.as \in Due(p, r) /\ e = Emission(e.as, p, r)
          BY AllDueFacts
        <5>2. PICK r \in 1 .. size[p] :
                e.phase = p /\ e.row = r /\ e.as \in Due(p, r) /\ e = Emission(e.as, p, r)
          BY <5>1
        <5>3. p \in PhasesOf(kind)
          BY <5>2 DEF OnePhase, Phases, PhasesOf
        <5>4. kind = "users" /\ ~syncDeactivatedUsers /\ "inactive" \in seen[r]
          BY <1>1, <2>1, <2>4, <5>2, <5>3, DueSame DEF ListingComplete, orgVars
        <5> QED BY <2>2, <5>2, <5>4 DEF Excused
      <4> QED BY <1>2, <2>2, <4>1
    <3> QED BY <1>2, <2>1, <2>2, <2>4, <3>1 DEF Gives, Listing!Next, Listing!Give
  <2>5. CASE pc' \in {"page", "logins"}
    BY <1>2, <2>1, <2>2, <2>5 DEF Gives, Listing!Next, Listing!Give
  <2> QED BY <1>1, <2>3, <2>4, <2>5 DEF TypeOK
<1>4. CASE Recover \/ Checkpoint \/ UNCHANGED pagingVars
  <2>1. /\ UNCHANGED <<emitted, seen>>
        /\ pc' = pc \/ (pc \in {"page", "logins"} /\ pc' = "page")
    BY <1>4 DEF Recover, Checkpoint, pagingVars
  <2>2. Excused' = Excused
    BY <1>1, <2>1, ExcusedGrows
  <2> QED BY <1>2, <2>1, <2>2 DEF Listing!vars
<1>5. ASSUME NEW r \in Users, Drift(r)
      PROVE  [Listing!Next]_(Listing!vars)
  <2>1. UNCHANGED <<emitted, pc>> /\ pc \in {"page", "logins"}
        /\ \A q \in Rows : seen[q] \subseteq seen'[q]
    BY <1>5 DEF Drift
  <2>2. Excused \subseteq Excused' /\ Excused' \subseteq AllDue
    BY <1>1, <2>1, ExcusedGrows
  <2> QED BY <1>2, <2>1, <2>2 DEF Listing!Next, Listing!Excuse
<1> QED BY <1>3, <1>4, <1>5 DEF Next, Terminated

(* The List and the Grants of every builder, for any number of records and *)
(* any chunk size, implement ListingContract: the SDK gets what is due, in *)
(* whole pages, and then the end; it never meets a token that names the    *)
(* page it came with.                                                      *)
THEOREM ListingContractIsKept == Spec => KeepsListingContract
<1>1. Init => Listing!Init /\ OnePhase
  <2> SUFFICES ASSUME Init PROVE Listing!Init /\ OnePhase
    OBVIOUS
  <2>1. emitted = {} /\ pc = "page"
    BY DEF Init
  <2>2. Excused \subseteq AllDue
    BY DEF Excused
  <2>3. OnePhase
    BY DEF Init, OnePhase
  <2> QED BY <2>1, <2>2, <2>3 DEF Listing!Init
<1>2. OnePhase /\ [Next]_pagingVars => OnePhase'
  BY OrgKept DEF OnePhase, orgVars
<1>3. Inv /\ OnePhase /\ [Next]_pagingVars => [Listing!Next]_(Listing!vars)
  BY StepIsListingStep
<1> QED BY <1>1, <1>2, <1>3, InvHolds, PTL DEF Spec, KeepsListingContract, Listing!Spec
=============================================================================
