------------------------------- MODULE Workspace -------------------------------
(***************************************************************************)
(* Organizations: their rows and memberships, the organization service      *)
(* whose handlers check in some database calls and write in another, and    *)
(* the workspace of one browser: the list of organizations and the member   *)
(* lists that the query cache holds, the active organization and role of    *)
(* the workspace store, and the dialogs that call the service.              *)
(*                                                                          *)
(* The other users are clients of the API whose browsers are not modelled.  *)
(* An effect that a change of state sets off is part of the action that     *)
(* makes the change.                                                        *)
(*                                                                          *)
(* A definition whose name ends in "_" and a word is not part of the        *)
(* specification: it is the definition after it with a bug a programmer     *)
(* could have made, and the properties must tell the two apart.             *)
(***************************************************************************)
EXTENDS Naturals, FiniteSets

CONSTANTS Users,
          First,             \* the user who owns the first organization
          MaxOrgs,           \* organizations that can be made
          MaxOrgsPerUser, MaxMembersPerOrg,
          MaxCalls,          \* bound on requests that change something
          MaxOpen            \* bound on such requests under way

ASSUME WorkspaceAssumption ==
    /\ First \in Users
    /\ {MaxOrgs, MaxOrgsPerUser} \subseteq Nat \ {0}
    /\ {MaxMembersPerOrg, MaxCalls, MaxOpen} \subseteq Nat

VARIABLES org,       \* what each organization is: "none" yet, "live" or "deleted"
          creator,   \* owner_id of each
          member,    \* organization_members: the role of each user in each, or "out"
          version,   \* changes that the browser has made to each one's memberships
          call,      \* the request of each slot
          me,        \* the user of the browser
          list,      \* orgKeys.list() in the query cache
          listed,    \* its request
          people,    \* orgKeys.members(o) in the query cache: a version
          peopled,   \* their requests
          active,    \* activeOrg of the workspace store, or 0
          role,      \* its currentRole
          calls,
          raced,     \* history: users with two additions at a time
          orphaned,  \* history: organizations erased while a member was being added
          botched,   \* history: organizations whose owner could not be added
          bounced,   \* history: the active organization changed without a choice
          wrote      \* history: version of the browser's last acknowledged change of each

dbVars == <<org, creator, member, version>>
cacheVars == <<list, listed, people, peopled>>
storeVars == <<active, role>>
historyVars == <<raced, orphaned, botched, bounced, wrote>>
vars == <<dbVars, call, me, cacheVars, storeVars, calls, historyVars>>

Orgs == 1..MaxOrgs
Roles == {"owner", "admin", "viewer"}
Out == "out"
NoRole == "none"
Versions == 0..MaxCalls

\* The forms of the browser, and the other clients.
Forms == {"create", "update", "delete", "people"}
Slots == Forms \cup Users

Kinds == {"create", "update", "delete", "invite", "role", "remove"}
HandlerSteps == {"allow", "count", "insert", "own", "write", "erase", "seats", "quota", "add", "target"}
Steps == {"idle", "ok", "refused"} \cup HandlerSteps
Call == [step: Steps, kind: Kinds, by: Users, org: 0..MaxOrgs, whom: Users, role: Roles]
Idle == [step |-> "idle", kind |-> "create", by |-> First, org |-> 0, whom |-> First, role |-> "viewer"]

NoList == [o \in Orgs |-> NoRole]
Unread == MaxCalls + 1

Init == /\ org = [o \in Orgs |-> IF o = 1 THEN "live" ELSE "none"]
        /\ creator = [o \in Orgs |-> First]
        /\ member = [o \in Orgs |-> [u \in Users |-> IF o = 1 /\ u = First THEN "owner" ELSE Out]]
        /\ version = [o \in Orgs |-> 0]
        /\ call = [s \in Slots |-> Idle]
        /\ me = First
        /\ list = NoList /\ listed = [step |-> "stale", data |-> NoList]
        /\ people = [o \in Orgs |-> Unread]
        /\ peopled = [o \in Orgs |-> [step |-> "stale", data |-> 0]]
        /\ active = 0 /\ role = NoRole
        /\ calls = 0
        /\ raced = {} /\ orphaned = {} /\ botched = {} /\ bounced = FALSE
        /\ wrote = [o \in Orgs |-> 0]

-----------------------------------------------------------------------------
(***************************************************************************)
(* The organization service                                                 *)
(***************************************************************************)
At(s, step) == call[s].step = step
\* Nobody looks at the answer of another client.
GoTo(s, step) == call' = [call EXCEPT ![s] = IF s \in Users /\ step \in {"ok", "refused"} THEN Idle
                                             ELSE [@ EXCEPT !.step = step]]
Check(s, condition, step) == GoTo(s, IF condition THEN step ELSE "refused")
HandlerOnly == UNCHANGED <<me, cacheVars, storeVars, calls, bounced, wrote>>
NoWrite == UNCHANGED <<dbVars, raced, orphaned, botched>>

OrgsOf(u) == {o \in Orgs : member[o][u] # Out}
MembersOf(o) == {u \in Users : member[o][u] # Out}

\* hasPermission: owner above admin above the others.
MayManage(o, u) == member[o][u] \in {"owner", "admin"}

\* requireRole, with the membership alone: the organization is not looked at.
Allow(s) ==
    LET c == call[s] IN
    /\ At(s, "allow")
    /\ Check(s, IF c.kind = "delete" THEN member[c.org][c.by] = "owner" ELSE MayManage(c.org, c.by),
             CASE c.kind = "update" -> "write" [] c.kind = "delete" -> "erase"
               [] c.kind = "invite" -> "seats" [] OTHER -> "target")
    /\ NoWrite /\ HandlerOnly

\* CountUserOrgs against MaxOrgsPerUser, for the creator or for who is invited.
WithinQuota_Inclusive(u) == Cardinality(OrgsOf(u)) <= MaxOrgsPerUser
WithinQuota(u) == Cardinality(OrgsOf(u)) < MaxOrgsPerUser

CountOrgs(s) ==
    /\ At(s, "count") \/ At(s, "quota")
    /\ IF At(s, "count") THEN Check(s, WithinQuota(call[s].by), "insert")
       ELSE Check(s, WithinQuota(call[s].whom), "add")
    /\ NoWrite /\ HandlerOnly

\* SlugExists and Create: a slug that is taken is refused by one or the other.
InsertOrg(s) ==
    /\ At(s, "insert")
    /\ \/ GoTo(s, "refused") /\ UNCHANGED <<org, creator>>
       \/ \E o \in Orgs : /\ org[o] = "none" /\ \A p \in 1..(o - 1) : org[p] # "none"
                          /\ org' = [org EXCEPT ![o] = "live"]
                          /\ creator' = [creator EXCEPT ![o] = call[s].by]
                          /\ call' = [call EXCEPT ![s].step = "own", ![s].org = o]
    /\ UNCHANGED <<member, version, raced, orphaned, botched>> /\ HandlerOnly

\* Requests past the count of a user that have not added it yet.
Adding(u) == {s \in Slots : \/ At(s, "add") /\ call[s].whom = u
                            \/ call[s].step \in {"insert", "own"} /\ call[s].by = u}

Changed(s) == IF s = "people" THEN [version EXCEPT ![call[s].org] = @ + 1] ELSE version

\* AddMember: a membership is unique, nothing ties it to the organization's row.
AddMember(s) ==
    LET c == call[s]
        u == IF At(s, "own") THEN c.by ELSE c.whom
    IN  /\ At(s, "own") \/ At(s, "add")
        /\ IF member[c.org][u] # Out THEN GoTo(s, "refused") /\ UNCHANGED <<member, version, raced>>
           ELSE /\ member' = [member EXCEPT ![c.org][u] = IF At(s, "own") THEN "owner" ELSE c.role]
                /\ version' = Changed(s)
                /\ raced' = IF Adding(u) # {s} THEN raced \cup {u} ELSE raced
                /\ GoTo(s, "ok")
        /\ UNCHANGED <<org, creator, orphaned, botched>> /\ HandlerOnly

\* InviteMember: the members are counted, then the one invited is looked up.
CountMembers(s) ==
    /\ At(s, "seats")
    /\ Check(s, /\ Cardinality(MembersOf(call[s].org)) < MaxMembersPerOrg
                /\ member[call[s].org][call[s].whom] = Out, "quota")
    /\ NoWrite /\ HandlerOnly

\* UpdateMemberRole and RemoveMember refuse to touch the owner.
CheckTarget_Any(s) ==
    /\ At(s, "target")
    /\ Check(s, member[call[s].org][call[s].whom] # Out, "write")
    /\ NoWrite /\ HandlerOnly

CheckTarget(s) ==
    /\ At(s, "target")
    /\ Check(s, member[call[s].org][call[s].whom] \notin {Out, "owner"}, "write")
    /\ NoWrite /\ HandlerOnly

\* The writes have a WHERE clause: a membership that is gone stays gone.
WriteMember(s) ==
    LET c == call[s] IN
    /\ At(s, "write") /\ c.kind \in {"role", "remove"}
    /\ IF member[c.org][c.whom] = Out THEN UNCHANGED <<member, version>>
       ELSE /\ member' = [member EXCEPT ![c.org][c.whom] = IF c.kind = "role" THEN c.role ELSE Out]
            /\ version' = Changed(s)
    /\ GoTo(s, "ok")
    /\ UNCHANGED <<org, creator, raced, orphaned, botched>> /\ HandlerOnly

\* GetByID and Update: name and description, of which the model has nothing.
UpdateOrg(s) ==
    /\ At(s, "write") /\ call[s].kind = "update"
    /\ Check(s, org[call[s].org] = "live", "ok")
    /\ NoWrite /\ HandlerOnly

\* orgRepo.Delete, one transaction.
EraseOrg_KeepMembers(s) ==
    LET o == call[s].org IN
    /\ At(s, "erase")
    /\ org' = [org EXCEPT ![o] = "deleted"]
    /\ GoTo(s, "ok")
    /\ UNCHANGED <<creator, member, version, raced, botched, orphaned>> /\ HandlerOnly

EraseOrg(s) ==
    LET o == call[s].org IN
    /\ At(s, "erase")
    /\ org' = [org EXCEPT ![o] = "deleted"]
    /\ member' = [member EXCEPT ![o] = [u \in Users |-> Out]]
    /\ orphaned' = IF \E r \in Slots : call[r].org = o /\ call[r].step \in {"seats", "quota", "add"}
                   THEN orphaned \cup {o} ELSE orphaned
    /\ GoTo(s, "ok")
    /\ UNCHANGED <<creator, version, raced, botched>> /\ HandlerOnly

\* A database call fails: the request is refused, what it has written stays.
Fault(s) ==
    /\ call[s].step \in HandlerSteps
    /\ botched' = IF At(s, "own") THEN botched \cup {call[s].org} ELSE botched
    /\ GoTo(s, "refused")
    /\ UNCHANGED <<dbVars, raced, orphaned>> /\ HandlerOnly

-----------------------------------------------------------------------------
(***************************************************************************)
(* The workspace of the browser                                             *)
(***************************************************************************)
\* ListUserOrgs: the memberships of the user, joined to the organizations.
ListOf_Outer(u) == [o \in Orgs |-> member[o][u]]
ListOf(u) == [o \in Orgs |-> IF org[o] = "live" /\ member[o][u] # Out THEN member[o][u] ELSE NoRole]
Listed(l) == {o \in Orgs : l[o] # NoRole}

\* OrgSwitcher's effect: an active organization that the list does not have is
\* replaced by the newest it has, and the role is the list's; an empty list, or
\* none, changes nothing.
Newest(O) == {o \in O : \A p \in O : o >= p}
SyncOrg(l, o) == IF Listed(l) = {} \/ o \in Listed(l) THEN {o} ELSE Newest(Listed(l))
SetActiveOrg(l, o, r) == \E a \in SyncOrg(l, o) :
    /\ active' = a
    /\ role' = IF Listed(l) = {} THEN r ELSE l[a]
    /\ bounced' = (bounced \/ a # active)

BrowserOnly == UNCHANGED <<dbVars, raced, orphaned, botched>>
Stale == [step |-> "stale", data |-> NoList]
StalePeople == [step |-> "stale", data |-> 0]

SendList ==
    /\ listed.step = "stale"
    /\ listed' = [step |-> "read", data |-> ListOf(me)]
    /\ UNCHANGED <<call, me, list, people, peopled, storeVars, calls, bounced, wrote>> /\ BrowserOnly

AnswerList ==
    /\ listed.step = "read"
    /\ list' = listed.data
    /\ listed' = [step |-> "fresh", data |-> NoList]
    /\ SetActiveOrg(listed.data, active, role)
    /\ UNCHANGED <<call, me, people, peopled, calls, wrote>> /\ BrowserOnly

\* The members page asks for the members of the active organization.
SendPeople(o) ==
    /\ o = active /\ peopled[o].step = "stale"
    /\ peopled' = [peopled EXCEPT ![o] = IF member[o][me] = Out THEN [step |-> "failed", data |-> 0]
                                         ELSE [step |-> "read", data |-> version[o]]]
    /\ UNCHANGED <<call, me, list, listed, people, storeVars, calls, bounced, wrote>> /\ BrowserOnly

AnswerPeople(o) ==
    /\ peopled[o].step = "read"
    /\ people' = [people EXCEPT ![o] = peopled[o].data]
    /\ peopled' = [peopled EXCEPT ![o] = [step |-> "fresh", data |-> 0]]
    /\ UNCHANGED <<call, me, list, listed, storeVars, calls, bounced, wrote>> /\ BrowserOnly

\* handleSelectOrg.
SelectOrg_Keep(o) ==
    /\ o \in Listed(list) /\ o # active
    /\ active' = o /\ role' = list[o] /\ bounced' = FALSE
    /\ UNCHANGED <<call, me, cacheVars, calls, wrote>> /\ BrowserOnly

SelectOrg(o) ==
    /\ o \in Listed(list) /\ o # active
    /\ active' = o /\ role' = list[o] /\ bounced' = FALSE
    /\ peopled' = [peopled EXCEPT ![o] = StalePeople]
    /\ UNCHANGED <<call, me, list, listed, people, calls, wrote>> /\ BrowserOnly

Open == {s \in Slots : ~At(s, "idle")}

Submit(s, step, c) ==
    /\ At(s, "idle") /\ calls < MaxCalls /\ Cardinality(Open) < MaxOpen
    /\ calls' = calls + 1
    /\ call' = [call EXCEPT ![s] = [c EXCEPT !.step = step]]
    /\ UNCHANGED <<me, cacheVars, storeVars, bounced, wrote>>
    /\ BrowserOnly

\* useHasPermission, with the role the store has.
HasPermission(roles) == active # 0 /\ role \in roles

SubmitCreate == Submit("create", "count", [Idle EXCEPT !.by = me])

SubmitUpdate == /\ HasPermission({"owner", "admin"})
                /\ Submit("update", "allow", [Idle EXCEPT !.kind = "update", !.by = me, !.org = active])

\* The button wants the phrase with the organization's name.
SubmitDelete == /\ HasPermission({"owner"})
                /\ Submit("delete", "allow", [Idle EXCEPT !.kind = "delete", !.by = me, !.org = active])

\* InviteMemberModal, ChangeRoleDialog and the removal dialog; nobody is offered
\* a change of himself.
SubmitPeople(kind, u, r) ==
    /\ HasPermission({"owner", "admin"}) /\ u # me /\ people[active] # Unread
    /\ kind = "remove" => r = "viewer"
    /\ Submit("people", "allow", [step |-> "idle", kind |-> kind, by |-> me, org |-> active, whom |-> u, role |-> r])

\* Another client of the API.
SubmitOther(u, kind, o, v, r) ==
    /\ u # me /\ org[o] # "none"
    /\ kind \in {"create", "delete"} => v = First
    /\ kind = "create" => o = 1
    /\ kind \notin {"invite", "role"} => r = "viewer"
    /\ Submit(u, IF kind = "create" THEN "count" ELSE "allow",
              [step |-> "idle", kind |-> kind, by |-> u, org |-> o, whom |-> v, role |-> r])

Clear(s) == call' = [call EXCEPT ![s] = Idle]

\* An error is shown in the dialog.
FinishRefused(f) ==
    /\ f \in Forms /\ At(f, "refused") /\ Clear(f)
    /\ UNCHANGED <<me, cacheVars, storeVars, calls, bounced, wrote>> /\ BrowserOnly

\* onSuccess of the three mutations on organizations: the list is invalidated
\* and the store set, with the list of before still in the cache.
FinishCreate ==
    /\ At("create", "ok") /\ Clear("create")
    /\ listed' = Stale
    /\ SetActiveOrg(list, call["create"].org, "owner")
    /\ UNCHANGED <<me, list, people, peopled, calls, wrote>> /\ BrowserOnly

FinishUpdate ==
    /\ At("update", "ok") /\ Clear("update")
    /\ listed' = Stale
    /\ IF role # NoRole THEN SetActiveOrg(list, call["update"].org, role)
       ELSE UNCHANGED <<storeVars, bounced>>
    /\ UNCHANGED <<me, list, people, peopled, calls, wrote>> /\ BrowserOnly

FinishDelete ==
    /\ At("delete", "ok") /\ Clear("delete")
    /\ listed' = Stale
    /\ SetActiveOrg(list, 0, NoRole)
    /\ UNCHANGED <<me, list, people, peopled, calls, wrote>> /\ BrowserOnly

\* The removal invalidates the list of the organization that is active by then,
\* the dialogs that of the organization they were opened for.
FinishPeople ==
    LET c == call["people"]
        o == IF c.kind = "remove" THEN active ELSE c.org
    IN  /\ At("people", "ok") /\ Clear("people")
        /\ peopled' = IF o = 0 THEN peopled ELSE [peopled EXCEPT ![o] = StalePeople]
        /\ wrote' = [wrote EXCEPT ![c.org] = version[c.org]]
        /\ UNCHANGED <<me, list, listed, people, storeVars, calls, bounced>> /\ BrowserOnly

\* A page load, of the same user or after a sign-out of another: the query
\* cache is empty, the workspace is still in localStorage.
Load(u) ==
    /\ Open = {}
    /\ me' = u
    /\ list' = NoList /\ listed' = Stale
    /\ people' = [o \in Orgs |-> Unread] /\ peopled' = [o \in Orgs |-> StalePeople]
    /\ bounced' = FALSE /\ wrote' = [o \in Orgs |-> 0]
    /\ UNCHANGED <<call, storeVars, calls>> /\ BrowserOnly

-----------------------------------------------------------------------------
Handler(s) == \/ Allow(s) \/ CountOrgs(s) \/ InsertOrg(s) \/ AddMember(s) \/ CountMembers(s)
              \/ CheckTarget(s) \/ WriteMember(s) \/ UpdateOrg(s) \/ EraseOrg(s)

Finish == \/ FinishCreate \/ FinishUpdate \/ FinishDelete \/ FinishPeople
          \/ \E f \in Forms : FinishRefused(f)

Next == \/ \E s \in Open : Handler(s) \/ Fault(s)
        \/ Finish \/ SendList \/ AnswerList
        \/ \E o \in Orgs : SendPeople(o) \/ AnswerPeople(o) \/ SelectOrg(o)
        \/ /\ calls < MaxCalls
           /\ \/ SubmitCreate \/ SubmitUpdate \/ SubmitDelete
              \/ \E u \in Users, r \in Roles \ {"owner"} :
                    \/ \E kind \in {"invite", "role", "remove"} : SubmitPeople(kind, u, r)
                    \/ \E v \in Users, kind \in Kinds \ {"update"}, o \in Orgs : SubmitOther(v, kind, o, u, r)
        \/ \E u \in Users : Load(u)

Spec == Init /\ [][Next]_vars

-----------------------------------------------------------------------------
TypeOK == /\ org \in [Orgs -> {"none", "live", "deleted"}]
          /\ creator \in [Orgs -> Users]
          /\ member \in [Orgs -> [Users -> Roles \cup {Out}]]
          /\ version \in [Orgs -> Versions]
          /\ call \in [Slots -> Call]
          /\ me \in Users
          /\ list \in [Orgs -> Roles \cup {NoRole}]
          /\ listed \in [step : {"stale", "read", "fresh"}, data : [Orgs -> Roles \cup {NoRole}]]
          /\ people \in [Orgs -> Versions \cup {Unread}]
          /\ peopled \in [Orgs -> [step : {"stale", "read", "fresh", "failed"}, data : Versions]]
          /\ active \in 0..MaxOrgs /\ role \in Roles \cup {NoRole}
          /\ calls \in 0..MaxCalls
          /\ raced \subseteq Users /\ orphaned \subseteq Orgs /\ botched \subseteq Orgs
          /\ bounced \in BOOLEAN /\ wrote \in [Orgs -> Versions]

\* An organization has its creator for its only owner from the moment it is
\* complete: no sequence of invitations, changes of roles and removals, each of
\* them checked in other calls than it is made in, takes the owner away or makes
\* a second one.  Only a failure while the owner is added leaves none.
OwnerHolds ==
    \A o \in Orgs : org[o] = "live" =>
        {u \in Users : member[o][u] = "owner"} =
            IF o \in botched \/ \E s \in Slots : At(s, "own") /\ call[s].org = o THEN {} ELSE {creator[o]}

\* A user is in more organizations than allowed only when two additions of the
\* user ran at the same time, each counting before the other had added.
QuotaRaceOnly == \A u \in Users : Cardinality(OrgsOf(u)) > MaxOrgsPerUser => u \in raced

\* A membership of an organization that is no more, which counts for the quota
\* and is in nobody's list, comes only from an invitation under way while the
\* organization was deleted.
OrphanRaceOnly == \A o \in Orgs : MembersOf(o) # {} /\ org[o] # "live" => o \in orphaned

\* The tables of organizations and members are sound in every state, up to the
\* two races that are named.
MembershipSound == TypeOK /\ OwnerHolds /\ QuotaRaceOnly /\ OrphanRaceOnly

\* Once the members page has loaded it shows the changes the user has made,
\* although a removal invalidates the list of whatever organization is active
\* when it is answered: going back to the organization invalidates its own.
\* Where the active organization changed without the user, nothing is promised.
OwnChangesShown ==
    active # 0 /\ ~bounced /\ peopled[active].step = "fresh" => people[active] >= wrote[active]

\* Refuted: that the active organization is one the user has, once the list is
\* up to date.  The effect does nothing for an empty list, so the last
\* organization stays active after its deletion, and one of another user after
\* a sign-in.
DeletedNotActive == listed.step = "fresh" /\ list = ListOf(me) => active = 0 \/ active \in Listed(list)

\* Refuted: that the effect replaces the active organization only when it was
\* deleted or the user removed.  The list in the cache is older than an
\* organization that has just been created.
SyncOnlyWhenGone ==
    [][At("create", "ok") /\ org[call["create"].org] = "live" /\ call'["create"].step = "idle"
       => active' = call["create"].org]_vars
=============================================================================
