--------------------------- MODULE WorkspaceProofs ----------------------------
(***************************************************************************)
(* Proofs about Workspace.                                                  *)
(*                                                                          *)
(* The first part is the type invariant, with two additions it needs: which *)
(* requests name an organization, and that a version counts no more than    *)
(* the browser's requests.  The second part is about the tables.  The       *)
(* invariant MemberInv says of every step of a handler what the checks      *)
(* behind it still guarantee: nobody is allowed anything in an organization *)
(* without an owner, so a write that has passed its check is never aimed at *)
(* an owner, and a user who has been counted has room, unless two additions *)
(* of the user overlap.  The third part is about the member list in the     *)
(* browser's cache.                                                         *)
(***************************************************************************)
EXTENDS Workspace, FiniteSetTheorems, TLAPS

\* A request that names an organization names one that can be made.
OrgNamed == \A s \in Slots : /\ call[s].role # "owner"
                             /\ call[s].step \in HandlerSteps \ {"count", "insert"} => call[s].org \in Orgs

\* The browser's changes are counted by the requests that make them.
Underway == IF call["people"].step \in HandlerSteps THEN 1 ELSE 0
VersionCounted == \A o \in Orgs : version[o] + Underway <= calls

TypeInv == TypeOK /\ OrgNamed /\ VersionCounted

\* How a handler's step leaves its own request, where it goes on to a step.
Moved(s, step) ==
    /\ call' \in [Slots -> Call]
    /\ \A t \in Slots : t # s => call'[t] = call[t]
    /\ \/ step \in {"ok", "refused"} /\ s \in Users /\ call'[s] = Idle
       \/ /\ call'[s].step = step /\ call'[s].kind = call[s].kind /\ call'[s].by = call[s].by
          /\ call'[s].org = call[s].org /\ call'[s].whom = call[s].whom /\ call'[s].role = call[s].role

\* The request of a slot that has none.
LEMMA IdleFact ==
  Idle \in Call /\ Idle.step = "idle" /\ Idle.role = "viewer" /\ Idle.org = 0 /\ Idle.kind = "create"
  BY WorkspaceAssumption DEF Idle, Call, Steps, HandlerSteps, Kinds, Roles

\* GoTo, as it changes the requests.
LEMMA GoToFact ==
  ASSUME TypeOK, NEW s \in Slots, NEW step \in Steps, GoTo(s, step)
  PROVE  Moved(s, step)
<1>1. call \in [Slots -> Call] /\ call[s] \in Call
  BY DEF TypeOK
<1>2. CASE s \in Users /\ step \in {"ok", "refused"}
  <2>1. call' = [call EXCEPT ![s] = Idle]
    BY <1>2 DEF GoTo
  <2> QED
    BY <1>1, <1>2, <2>1, IdleFact DEF Moved
<1>3. CASE ~(s \in Users /\ step \in {"ok", "refused"})
  <2> DEFINE r == [call[s] EXCEPT !.step = step]
  <2>1. call' = [call EXCEPT ![s] = r]
    BY <1>3 DEF GoTo
  <2>2. r \in Call /\ r.step = step /\ r.kind = call[s].kind /\ r.by = call[s].by /\ r.org = call[s].org
        /\ r.whom = call[s].whom /\ r.role = call[s].role
    BY <1>1 DEF Call
  <2> HIDE DEF r
  <2>3. call'[s] = r /\ call' \in [Slots -> Call] /\ \A t \in Slots : t # s => call'[t] = call[t]
    BY <1>1, <2>1, <2>2
  <2> QED
    BY <2>2, <2>3 DEF Moved
<1> QED
  BY <1>2, <1>3

\* A handler's step keeps the requests well-formed, and ends at most one change.
LEMMA MovedFact ==
  ASSUME TypeInv, NEW s \in Slots, NEW step \in Steps, Moved(s, step), call[s].step \in HandlerSteps,
         step \in HandlerSteps \ {"count", "insert"} => call[s].org \in Orgs
  PROVE  /\ call' \in [Slots -> Call] /\ OrgNamed'
         /\ Underway' \in {0, 1} /\ Underway' <= Underway
         /\ s = "people" /\ step \in {"ok", "refused"} => Underway = 1 /\ Underway' = 0
<1>1. "people" \in Slots
  BY DEF Slots, Forms
<1>2. call' \in [Slots -> Call] /\ \A t \in Slots : t # s => call'[t] = call[t]
  BY DEF Moved
<1>3. /\ call'[s].role = call[s].role \/ call'[s].role = "viewer"
      /\ call'[s].step \in {"idle", "ok", "refused"} \/ (call'[s].step = step /\ call'[s].org = call[s].org)
      /\ step \in {"ok", "refused"} => call'[s].step \in {"idle", "ok", "refused"}
  <2>1. CASE step \in {"ok", "refused"} /\ call'[s] = Idle
    <3>1. call'[s].step = "idle" /\ call'[s].role = "viewer"
      BY <2>1, IdleFact, Zenon
    <3> QED
      BY <3>1
  <2>2. CASE call'[s].step = step /\ call'[s].org = call[s].org /\ call'[s].role = call[s].role
    BY <2>2
  <2> QED
    BY <2>1, <2>2 DEF Moved
<1>4. OrgNamed'
  BY <1>2, <1>3 DEF TypeInv, OrgNamed, HandlerSteps
<1>5. /\ call["people"].step \in HandlerSteps \/ call["people"] = call'["people"]
      /\ {"idle", "ok", "refused"} \cap HandlerSteps = {}
  BY <1>1, <1>2 DEF HandlerSteps
<1>6. Underway' \in {0, 1} /\ Underway' <= Underway
  BY <1>5 DEF Underway
<1>7. s = "people" /\ step \in {"ok", "refused"} => Underway = 1 /\ Underway' = 0
  BY <1>3, <1>5 DEF Underway
<1> QED
  BY <1>2, <1>4, <1>6, <1>7

\* A handler's step that writes nothing.
LEMMA CheckedType ==
  ASSUME TypeInv, NEW s \in Slots, NEW step \in Steps, Moved(s, step), call[s].step \in HandlerSteps,
         step \in HandlerSteps \ {"count", "insert"} => call[s].org \in Orgs,
         UNCHANGED dbVars, raced' \subseteq Users, orphaned' \subseteq Orgs, botched' \subseteq Orgs, HandlerOnly
  PROVE  TypeInv'
<1>1. /\ call' \in [Slots -> Call] /\ OrgNamed' /\ Underway' \in {0, 1} /\ Underway' <= Underway
  BY MovedFact
<1>2. TypeOK'
  BY <1>1 DEF TypeInv, TypeOK, HandlerOnly, dbVars, cacheVars, storeVars
<1>3. VersionCounted'
  <2>1. \A o \in Orgs : version[o] \in Nat
    BY WorkspaceAssumption DEF TypeInv, TypeOK, Versions
  <2>2. Underway \in {0, 1} /\ calls \in Nat
    BY WorkspaceAssumption DEF Underway, TypeInv, TypeOK
  <2> QED
    BY <1>1, <2>1, <2>2 DEF TypeInv, VersionCounted, HandlerOnly, dbVars
<1> QED
  BY <1>1, <1>2, <1>3 DEF TypeInv

\* A handler's last step, which may write memberships and organizations.
LEMMA WrittenType ==
  ASSUME TypeInv, NEW s \in Slots, Moved(s, "ok"), call[s].step \in HandlerSteps,
         org' \in [Orgs -> {"none", "live", "deleted"}], UNCHANGED creator,
         member' \in [Orgs -> [Users -> Roles \cup {Out}]],
         version' = version \/ version' = Changed(s), call[s].org \in Orgs,
         raced' \subseteq Users, orphaned' \subseteq Orgs, botched' \subseteq Orgs, HandlerOnly
  PROVE  TypeInv'
<1>0. "ok" \in Steps /\ "ok" \notin HandlerSteps
  BY DEF Steps, HandlerSteps
<1>1. /\ call' \in [Slots -> Call] /\ OrgNamed' /\ Underway' \in {0, 1} /\ Underway' <= Underway
      /\ s = "people" => Underway = 1 /\ Underway' = 0
  BY <1>0, MovedFact
<1>2. Underway \in {0, 1} /\ calls \in Nat /\ calls <= MaxCalls /\ MaxCalls \in Nat /\ calls' = calls
  BY WorkspaceAssumption DEF Underway, TypeInv, TypeOK, HandlerOnly
<1>3. \A o \in Orgs : version[o] \in Nat
  BY WorkspaceAssumption DEF TypeInv, TypeOK, Versions
<1>4. version' \in [Orgs -> Nat] /\ VersionCounted'
  <2>1. CASE s = "people" /\ version' = Changed(s)
    <3>1. version' = [version EXCEPT ![call[s].org] = @ + 1]
      BY <2>1 DEF Changed
    <3>2. \A o \in Orgs : version'[o] \in Nat /\ version'[o] <= version[o] + 1
      BY <1>3, <3>1 DEF TypeInv, TypeOK
    <3>3. version' \in [Orgs -> Nat]
      BY <3>1, <3>2 DEF TypeInv, TypeOK
    <3> QED
      BY <1>1, <1>2, <1>3, <2>1, <3>2, <3>3 DEF TypeInv, VersionCounted
  <2>2. CASE version' = version
    BY <1>1, <1>2, <1>3, <2>2 DEF TypeInv, TypeOK, VersionCounted
  <2> QED
    BY <2>1, <2>2 DEF Changed
<1>5. version' \in [Orgs -> Versions]
  <2>1. \A o \in Orgs : version'[o] \in Versions
    BY <1>1, <1>2, <1>4 DEF VersionCounted, Versions
  <2> QED
    BY <1>4, <2>1
<1>6. TypeOK'
  BY <1>1, <1>5 DEF TypeInv, TypeOK, HandlerOnly, cacheVars, storeVars
<1> QED
  BY <1>1, <1>4, <1>6 DEF TypeInv

\* The service keeps the types.
LEMMA HandlerType == ASSUME TypeInv, NEW s \in Slots, Handler(s) \/ Fault(s) PROVE TypeInv'
<1>0. /\ call[s] \in Call /\ call[s].org \in 0..MaxOrgs /\ call[s].by \in Users /\ call[s].whom \in Users
      /\ call[s].role \in Roles
      /\ call[s].step \in HandlerSteps \ {"count", "insert"} => call[s].org \in Orgs
  BY DEF TypeInv, TypeOK, OrgNamed, Call
<1>1. \A step \in Steps : GoTo(s, step) => Moved(s, step)
  BY GoToFact DEF TypeInv
<1>t. raced \subseteq Users /\ orphaned \subseteq Orgs /\ botched \subseteq Orgs
  BY DEF TypeInv, TypeOK
<1>2. CASE Allow(s)
  <2>1. PICK step \in {"write", "erase", "seats", "target", "refused"} : GoTo(s, step)
    BY <1>2 DEF Allow, Check
  <2> QED
    BY <1>0, <1>1, <1>2, <1>t, <2>1, CheckedType DEF Allow, At, NoWrite, Steps, HandlerSteps
<1>3. CASE CountOrgs(s)
  <2>1. PICK step \in {"insert", "add", "refused"} : GoTo(s, step) /\ (step = "add" => At(s, "quota"))
    BY <1>3 DEF CountOrgs, Check, At
  <2> QED
    BY <1>0, <1>1, <1>3, <1>t, <2>1, CheckedType DEF CountOrgs, At, NoWrite, Steps, HandlerSteps
<1>4. CASE CountMembers(s)
  <2>1. PICK step \in {"quota", "refused"} : GoTo(s, step)
    BY <1>4 DEF CountMembers, Check
  <2> QED
    BY <1>0, <1>1, <1>4, <1>t, <2>1, CheckedType DEF CountMembers, At, NoWrite, Steps, HandlerSteps
<1>5. CASE CheckTarget(s)
  <2>1. PICK step \in {"write", "refused"} : GoTo(s, step)
    BY <1>5 DEF CheckTarget, Check
  <2> QED
    BY <1>0, <1>1, <1>5, <1>t, <2>1, CheckedType DEF CheckTarget, At, NoWrite, Steps, HandlerSteps
<1>6. CASE UpdateOrg(s)
  <2>1. PICK step \in {"ok", "refused"} : GoTo(s, step)
    BY <1>6 DEF UpdateOrg, Check
  <2> QED
    BY <1>0, <1>1, <1>6, <1>t, <2>1, CheckedType DEF UpdateOrg, At, NoWrite, Steps, HandlerSteps
<1>7. CASE Fault(s)
  <2>1. botched' \subseteq Orgs
    BY <1>0, <1>7, <1>t DEF Fault, At, HandlerSteps
  <2> QED
    BY <1>0, <1>1, <1>7, <1>t, <2>1, CheckedType DEF Fault, Steps, HandlerSteps
<1>8. CASE InsertOrg(s)
  <2>1. CASE GoTo(s, "refused") /\ UNCHANGED <<org, creator>>
    BY <1>0, <1>1, <1>8, <1>t, <2>1, CheckedType DEF InsertOrg, At, dbVars, Steps, HandlerSteps
  <2>2. ASSUME NEW o \in Orgs,
               org' = [org EXCEPT ![o] = "live"] /\ creator' = [creator EXCEPT ![o] = call[s].by],
               call' = [call EXCEPT ![s].step = "own", ![s].org = o]
        PROVE  TypeInv'
    <3> DEFINE r == [call[s] EXCEPT !.step = "own", !.org = o]
    <3>1. call' = [call EXCEPT ![s] = r]
      BY <1>0, <2>2 DEF TypeInv, TypeOK, Call
    <3>2. r \in Call /\ r.step = "own" /\ r.org = o /\ r.role = call[s].role
      <4>1. "own" \in Steps /\ o \in 0..MaxOrgs
        BY WorkspaceAssumption DEF Steps, HandlerSteps, Orgs
      <4> QED
        BY <1>0, <4>1 DEF Call
    <3> HIDE DEF r
    <3>3. call' \in [Slots -> Call] /\ call'[s] = r /\ \A t \in Slots : t # s => call'[t] = call[t]
      BY <3>1, <3>2 DEF TypeInv, TypeOK
    <3>4. OrgNamed'
      BY <3>2, <3>3 DEF TypeInv, OrgNamed
    <3>5. Underway' = Underway
      <4>1. "people" \in Slots
        BY DEF Slots, Forms
      <4> QED
        BY <1>8, <3>2, <3>3, <4>1 DEF Underway, InsertOrg, At, HandlerSteps
    <3>6. VersionCounted'
      BY <1>8, <3>5 DEF InsertOrg, HandlerOnly, VersionCounted, TypeInv
    <3>7. org' \in [Orgs -> {"none", "live", "deleted"}] /\ creator' \in [Orgs -> Users]
      BY <1>0, <2>2 DEF TypeInv, TypeOK
    <3>8. TypeOK'
      BY <1>8, <3>3, <3>7 DEF InsertOrg, HandlerOnly, TypeInv, TypeOK, cacheVars, storeVars
    <3> QED
      BY <3>4, <3>6, <3>8 DEF TypeInv
  <2> QED
    BY <1>8, <2>1, <2>2 DEF InsertOrg
<1>9. CASE AddMember(s)
  <2>1. call[s].step \in HandlerSteps /\ call[s].org \in Orgs /\ HandlerOnly
        /\ UNCHANGED <<org, creator, orphaned, botched>>
    BY <1>0, <1>9 DEF AddMember, At, HandlerSteps
  <2>2. CASE GoTo(s, "refused") /\ UNCHANGED <<member, version, raced>>
    BY <1>1, <1>t, <2>1, <2>2, CheckedType DEF dbVars, Steps, HandlerSteps
  <2>3. CASE ~(GoTo(s, "refused") /\ UNCHANGED <<member, version, raced>>)
    <3>1. GoTo(s, "ok") /\ version' = Changed(s)
      BY <1>9, <2>3 DEF AddMember
    <3>2. PICK u \in Users, r \in Roles : member' = [member EXCEPT ![call[s].org][u] = r]
      <4>1. "owner" \in Roles
        BY DEF Roles
      <4> QED
        BY <1>0, <1>9, <2>3, <4>1 DEF AddMember
    <3>3. member' \in [Orgs -> [Users -> Roles \cup {Out}]]
      BY <3>2 DEF TypeInv, TypeOK
    <3>4. raced' \subseteq Users
      BY <1>0, <1>9, <1>t, <2>3 DEF AddMember
    <3> QED
      BY <1>1, <1>t, <2>1, <3>1, <3>3, <3>4, WrittenType DEF Steps, TypeInv, TypeOK
  <2> QED
    BY <2>2, <2>3
<1>10. CASE WriteMember(s)
  <2>1. call[s].step \in HandlerSteps /\ call[s].org \in Orgs /\ HandlerOnly
        /\ UNCHANGED <<org, creator, raced, orphaned, botched>> /\ GoTo(s, "ok")
        /\ (version' = version \/ version' = Changed(s))
    BY <1>0, <1>10 DEF WriteMember, At, HandlerSteps
  <2>2. member' \in [Orgs -> [Users -> Roles \cup {Out}]]
    <3>1. CASE member' = member
      BY <3>1 DEF TypeInv, TypeOK
    <3>2. CASE member' # member
      <4>1. PICK r \in Roles \cup {Out} : member' = [member EXCEPT ![call[s].org][call[s].whom] = r]
        BY <1>0, <1>10, <3>2 DEF WriteMember
      <4> QED
        BY <4>1 DEF TypeInv, TypeOK
    <3> QED
      BY <3>1, <3>2
  <2> QED
    BY <1>1, <1>t, <2>1, <2>2, WrittenType DEF Steps, TypeInv, TypeOK
<1>11. CASE EraseOrg(s)
  <2>1. call[s].step \in HandlerSteps /\ call[s].org \in Orgs /\ HandlerOnly
        /\ UNCHANGED <<creator, version, raced, botched>> /\ GoTo(s, "ok")
    BY <1>0, <1>11 DEF EraseOrg, At, HandlerSteps
  <2>2. org' \in [Orgs -> {"none", "live", "deleted"}] /\ member' \in [Orgs -> [Users -> Roles \cup {Out}]]
    BY <1>11, <2>1 DEF EraseOrg, TypeInv, TypeOK
  <2>3. orphaned' \subseteq Orgs
    BY <1>11, <1>t, <2>1 DEF EraseOrg
  <2> QED
    BY <1>1, <1>t, <2>1, <2>2, <2>3, WrittenType DEF Steps
<1> QED
  BY <1>2, <1>3, <1>4, <1>5, <1>6, <1>7, <1>8, <1>9, <1>10, <1>11 DEF Handler

\* The service's answer to the list is a list.
LEMMA ListType == TypeOK => ListOf(me) \in [Orgs -> Roles \cup {NoRole}]
<1> SUFFICES ASSUME TypeOK PROVE ListOf(me) \in [Orgs -> Roles \cup {NoRole}]
  OBVIOUS
<1>1. \A o \in Orgs : member[o][me] \in Roles \cup {Out}
  BY DEF TypeOK
<1> QED
  BY <1>1 DEF ListOf

\* The active organization is one of the list, or what it was set to.
LEMMA SetActiveType ==
  ASSUME NEW l \in [Orgs -> Roles \cup {NoRole}], NEW o \in 0..MaxOrgs, NEW r \in Roles \cup {NoRole},
         SetActiveOrg(l, o, r)
  PROVE  active' \in 0..MaxOrgs /\ role' \in Roles \cup {NoRole} /\ bounced' \in BOOLEAN
<1>1. PICK a \in SyncOrg(l, o) : /\ active' = a
                                 /\ role' = IF Listed(l) = {} THEN r ELSE l[a]
                                 /\ bounced' = (bounced \/ a # active)
  BY DEF SetActiveOrg
<1>2. a \in 0..MaxOrgs /\ (Listed(l) # {} => a \in Orgs)
  <2>1. Orgs \subseteq 0..MaxOrgs
    BY WorkspaceAssumption DEF Orgs
  <2> QED
    BY <1>1, <2>1 DEF SyncOrg, Newest, Listed
<1> QED
  BY <1>1, <1>2

\* What the browser does with what it has, without a request.
LEMMA BrowserType ==
  ASSUME TypeInv, BrowserOnly, UNCHANGED <<call, calls>>, me' \in Users,
         list' \in [Orgs -> Roles \cup {NoRole}],
         listed' \in [step : {"stale", "read", "fresh"}, data : [Orgs -> Roles \cup {NoRole}]],
         people' \in [Orgs -> Versions \cup {Unread}],
         peopled' \in [Orgs -> [step : {"stale", "read", "fresh", "failed"}, data : Versions]],
         active' \in 0..MaxOrgs, role' \in Roles \cup {NoRole}, bounced' \in BOOLEAN, wrote' \in [Orgs -> Versions]
  PROVE  TypeInv'
<1>1. TypeOK'
  BY DEF TypeInv, TypeOK, BrowserOnly, dbVars
<1>2. OrgNamed' /\ VersionCounted'
  BY DEF TypeInv, OrgNamed, VersionCounted, Underway, BrowserOnly, dbVars
<1> QED
  BY <1>1, <1>2 DEF TypeInv

\* What the cache holds, and what takes its place.
LEMMA CacheFact ==
  TypeOK => /\ 0 \in Versions /\ Unread \in Versions \cup {Unread}
            /\ NoList \in [Orgs -> Roles \cup {NoRole}]
            /\ Stale \in [step : {"stale", "read", "fresh"}, data : [Orgs -> Roles \cup {NoRole}]]
            /\ StalePeople \in [step : {"stale", "read", "fresh", "failed"}, data : Versions]
  BY WorkspaceAssumption DEF Versions, NoList, Stale, StalePeople

\* Asking for the list of organizations, and its answer, keep the types.
LEMMA FetchType == ASSUME TypeInv, SendList \/ AnswerList PROVE TypeInv'
<1>t. TypeOK /\ ListOf(me) \in [Orgs -> Roles \cup {NoRole}] /\ NoList \in [Orgs -> Roles \cup {NoRole}]
      /\ listed.data \in [Orgs -> Roles \cup {NoRole}] /\ active \in 0..MaxOrgs /\ role \in Roles \cup {NoRole}
  BY ListType, CacheFact DEF TypeInv, TypeOK
<1>1. CASE SendList
  BY <1>1, <1>t, BrowserType DEF SendList, TypeOK, storeVars
<1>2. CASE AnswerList
  <2>1. active' \in 0..MaxOrgs /\ role' \in Roles \cup {NoRole} /\ bounced' \in BOOLEAN
    BY <1>2, <1>t, SetActiveType DEF AnswerList
  <2> QED
    BY <1>2, <1>t, <2>1, BrowserType DEF AnswerList, TypeOK
<1> QED
  BY <1>1, <1>2

\* So do the requests for member lists, and the choice of an organization.
LEMMA PeopleType == ASSUME TypeInv, NEW o \in Orgs, SendPeople(o) \/ AnswerPeople(o) \/ SelectOrg(o) PROVE TypeInv'
<1> DEFINE P == [step : {"stale", "read", "fresh", "failed"}, data : Versions]
<1>t. TypeOK /\ 0 \in Versions /\ StalePeople \in P /\ peopled[o] \in P /\ peopled[o].data \in Versions
      /\ peopled \in [Orgs -> P] /\ people \in [Orgs -> Versions \cup {Unread}] /\ version[o] \in Versions
      /\ list[o] \in Roles \cup {NoRole} /\ o \in 0..MaxOrgs
  BY CacheFact, WorkspaceAssumption DEF TypeInv, TypeOK, Orgs
<1>1. CASE SendPeople(o)
  <2>1. PICK d \in P : peopled' = [peopled EXCEPT ![o] = d]
    BY <1>1, <1>t DEF SendPeople
  <2>2. peopled' \in [Orgs -> P]
    BY <1>t, <2>1
  <2> QED
    BY <1>1, <1>t, <2>2, BrowserType DEF SendPeople, TypeOK, storeVars
<1>2. CASE AnswerPeople(o)
  <2>1. [step |-> "fresh", data |-> 0] \in P
    BY <1>t
  <2>2. peopled' \in [Orgs -> P] /\ people' \in [Orgs -> Versions \cup {Unread}]
    BY <1>2, <1>t, <2>1 DEF AnswerPeople
  <2> QED
    BY <1>2, <1>t, <2>2, BrowserType DEF AnswerPeople, TypeOK, storeVars
<1>3. CASE SelectOrg(o)
  <2>1. peopled' \in [Orgs -> P]
    BY <1>3, <1>t DEF SelectOrg
  <2> QED
    BY <1>3, <1>t, <2>1, BrowserType DEF SelectOrg, TypeOK
<1> QED
  BY <1>1, <1>2, <1>3

\* A page load keeps the types.
LEMMA LoadType == ASSUME TypeInv, NEW u \in Users, Load(u) PROVE TypeInv'
<1>1. [o \in Orgs |-> Unread] \in [Orgs -> Versions \cup {Unread}] /\ [o \in Orgs |-> 0] \in [Orgs -> Versions]
  BY CacheFact DEF TypeInv
<1>2. [o \in Orgs |-> StalePeople] \in [Orgs -> [step : {"stale", "read", "fresh", "failed"}, data : Versions]]
  BY CacheFact DEF TypeInv
<1> QED
  BY <1>1, <1>2, CacheFact, BrowserType DEF TypeInv, Load, TypeOK, storeVars

\* A new request, for an organization that can be made if for any.
LEMMA SubmitType ==
  ASSUME TypeInv, NEW s \in Slots, NEW step \in {"count", "allow"}, NEW c \in Call,
         c.role # "owner", step = "allow" => c.org \in Orgs, Submit(s, step, c)
  PROVE  TypeInv'
<1> DEFINE r == [c EXCEPT !.step = step]
<1>1. r \in Call /\ r.step = step /\ r.role = c.role /\ r.org = c.org
  BY DEF Call, Steps, HandlerSteps
<1>2. call' = [call EXCEPT ![s] = r]
  BY DEF Submit
<1> HIDE DEF r
<1>3. call' \in [Slots -> Call] /\ call'[s] = r /\ \A t \in Slots : t # s => call'[t] = call[t]
  BY <1>1, <1>2 DEF TypeInv, TypeOK
<1>4. OrgNamed'
  BY <1>1, <1>3 DEF TypeInv, OrgNamed
<1>5. calls \in 0..MaxCalls /\ calls < MaxCalls /\ calls' = calls + 1 /\ MaxCalls \in Nat
      /\ \A o \in Orgs : version[o] \in Nat
  BY WorkspaceAssumption DEF TypeInv, TypeOK, Submit, Versions
<1>6. VersionCounted'
  <2>1. Underway \in {0, 1} /\ Underway' \in {0, 1} /\ Underway' <= Underway + 1 /\ UNCHANGED version
    BY DEF Underway, Submit, BrowserOnly, dbVars
  <2> QED
    BY <1>5, <2>1 DEF TypeInv, VersionCounted
<1>7. TypeOK'
  BY <1>3, <1>5 DEF TypeInv, TypeOK, Submit, BrowserOnly, dbVars, cacheVars, storeVars
<1> QED
  BY <1>4, <1>6, <1>7 DEF TypeInv

Ask == \/ SubmitCreate \/ SubmitUpdate \/ SubmitDelete
       \/ \E u \in Users, r \in Roles \ {"owner"} :
             \/ \E kind \in {"invite", "role", "remove"} : SubmitPeople(kind, u, r)
             \/ \E v \in Users, kind \in Kinds \ {"update"}, o \in Orgs : SubmitOther(v, kind, o, u, r)

\* A request as it is submitted.
Asked(s, step, c) == /\ s \in Slots /\ step \in {"count", "allow"} /\ c \in Call
                     /\ c.role # "owner" /\ (step = "allow" => c.org \in Orgs) /\ Submit(s, step, c)

\* Every dialog, and every other client, submits a request with a form.
LEMMA AskFact ==
  ASSUME TypeInv, Ask
  PROVE  \E s, step, c : Asked(s, step, c)
<1>1. /\ me \in Users /\ active \in 0..MaxOrgs /\ (active # 0 => active \in Orgs) /\ Orgs \subseteq 0..MaxOrgs
      /\ First \in Users
  BY WorkspaceAssumption DEF TypeInv, TypeOK, Orgs
<1>2. \A f \in Forms : f \in Slots
  BY DEF Slots
<1>3. "idle" \in Steps /\ "viewer" \in Roles /\ Idle \in Call
  BY IdleFact DEF Steps, Roles
<1>4. CASE SubmitCreate
  <2> DEFINE c == [Idle EXCEPT !.by = me]
  <2>1. c \in Call /\ c.role # "owner"
    BY <1>1, IdleFact DEF Call
  <2> HIDE DEF c
  <2> QED
    BY <1>2, <1>4, <2>1 DEF SubmitCreate, Forms, c, Asked
<1>5. CASE SubmitUpdate \/ SubmitDelete
  <2>1. PICK kind \in {"update", "delete"} : Submit(kind, "allow", [Idle EXCEPT !.kind = kind, !.by = me, !.org = active])
    BY <1>5 DEF SubmitUpdate, SubmitDelete
  <2> DEFINE c == [Idle EXCEPT !.kind = kind, !.by = me, !.org = active]
  <2>2. active # 0
    BY <1>5 DEF SubmitUpdate, SubmitDelete, HasPermission
  <2>3. c \in Call /\ c.role # "owner" /\ c.org = active
    BY <1>1, IdleFact DEF Call, Kinds
  <2> HIDE DEF c
  <2>4. Submit(kind, "allow", c)
    BY <2>1 DEF c
  <2>5. kind \in Slots
    BY <1>2 DEF Forms
  <2> QED
    BY <1>1, <2>2, <2>3, <2>4, <2>5 DEF Asked
<1>6. ASSUME NEW u \in Users, NEW r \in Roles \ {"owner"}, NEW kind \in {"invite", "role", "remove"},
             SubmitPeople(kind, u, r)
      PROVE  \E s, step, d : Asked(s, step, d)
  <2> DEFINE c == [step |-> "idle", kind |-> kind, by |-> me, org |-> active, whom |-> u, role |-> r]
  <2>1. active # 0 /\ Submit("people", "allow", c)
    BY <1>6 DEF SubmitPeople, HasPermission
  <2>2. c \in Call /\ c.role # "owner" /\ c.org = active
    BY <1>1, <1>3 DEF Call, Kinds
  <2> HIDE DEF c
  <2> QED
    BY <1>1, <1>2, <2>1, <2>2 DEF Forms, Asked
<1>7. ASSUME NEW u \in Users, NEW r \in Roles \ {"owner"}, NEW v \in Users, NEW kind \in Kinds \ {"update"},
             NEW o \in Orgs, SubmitOther(v, kind, o, u, r)
      PROVE  \E s, step, d : Asked(s, step, d)
  <2> DEFINE c == [step |-> "idle", kind |-> kind, by |-> v, org |-> o, whom |-> u, role |-> r]
  <2>1. PICK step \in {"count", "allow"} : Submit(v, step, c)
    BY <1>7 DEF SubmitOther
  <2>2. c \in Call /\ c.role # "owner" /\ c.org = o
    BY <1>1, <1>3 DEF Call
  <2>3. v \in Slots
    BY DEF Slots
  <2> HIDE DEF c
  <2> QED
    BY <2>1, <2>2, <2>3 DEF Asked
<1> QED
  BY <1>4, <1>5, <1>6, <1>7 DEF Ask

\* Submitting a request keeps the types.
LEMMA AskType == ASSUME TypeInv, Ask PROVE TypeInv'
  BY AskFact, SubmitType DEF Asked

\* A dialog that is done with its request has none.
LEMMA ClearFact ==
  ASSUME TypeInv, NEW f \in Forms, ~(call[f].step \in HandlerSteps), Clear(f)
  PROVE  /\ call' \in [Slots -> Call] /\ OrgNamed' /\ Underway' = Underway
         /\ call'[f] = Idle /\ \A t \in Slots : t # f => call'[t] = call[t]
<1>1. f \in Slots /\ "people" \in Slots
  BY DEF Slots, Forms
<1>2. /\ call' \in [Slots -> Call]
      /\ call'[f] = Idle /\ \A t \in Slots : t # f => call'[t] = call[t]
  BY <1>1, IdleFact DEF TypeInv, TypeOK, Clear
<1>3. Idle.step = "idle" /\ "idle" \notin HandlerSteps /\ Idle.role = "viewer"
  BY IdleFact DEF HandlerSteps
<1>4. Underway' = Underway
  BY <1>1, <1>2, <1>3 DEF Underway
<1>5. call'[f].step = "idle" /\ call'[f].role = "viewer"
  BY <1>2, <1>3, Zenon
<1>6. OrgNamed'
  BY <1>2, <1>3, <1>5 DEF TypeInv, OrgNamed
<1> QED
  BY <1>2, <1>4, <1>6

\* A dialog that takes its answer keeps the types.
LEMMA FinishType == TypeInv /\ Finish => TypeInv'
<1> SUFFICES ASSUME TypeInv, Finish PROVE TypeInv'
  OBVIOUS
<1> DEFINE R == Roles \cup {NoRole}
           L == [step : {"stale", "read", "fresh"}, data : [Orgs -> R]]
           P == [step : {"stale", "read", "fresh", "failed"}, data : Versions]
<1>1. PICK f \in Forms : Clear(f) /\ call[f].step \in {"ok", "refused"}
  BY DEF Finish, FinishCreate, FinishUpdate, FinishDelete, FinishPeople, FinishRefused, At, Forms
<1>2. call' \in [Slots -> Call] /\ OrgNamed' /\ Underway' = Underway
  BY <1>1, ClearFact DEF HandlerSteps
<1>3. /\ UNCHANGED <<me, list, people, calls>> /\ BrowserOnly
  BY DEF Finish, FinishCreate, FinishUpdate, FinishDelete, FinishPeople, FinishRefused, cacheVars
<1>t. /\ TypeOK /\ list \in [Orgs -> R] /\ active \in 0..MaxOrgs /\ role \in R /\ 0 \in 0..MaxOrgs
      /\ \A s \in Slots : call[s].org \in 0..MaxOrgs
      /\ NoRole \in R /\ "owner" \in R /\ Stale \in L /\ StalePeople \in P
      /\ {"create", "update", "delete", "people"} \subseteq Slots
      /\ listed \in L /\ peopled \in [Orgs -> P] /\ wrote \in [Orgs -> Versions] /\ bounced \in BOOLEAN
      /\ version \in [Orgs -> Versions]
  BY CacheFact, WorkspaceAssumption DEF TypeInv, TypeOK, Call, Roles, Slots, Forms
<1>4. /\ listed' \in L /\ peopled' \in [Orgs -> P] /\ wrote' \in [Orgs -> Versions] /\ bounced' \in BOOLEAN
      /\ active' \in 0..MaxOrgs /\ role' \in R
  <2>1. CASE FinishCreate
    <3>1. SetActiveOrg(list, call["create"].org, "owner")
      BY <2>1 DEF FinishCreate
    <3>2. active' \in 0..MaxOrgs /\ role' \in R /\ bounced' \in BOOLEAN
      BY <1>t, <3>1, SetActiveType
    <3> QED
      BY <1>t, <2>1, <3>2 DEF FinishCreate
  <2>2. CASE FinishUpdate
    <3>1. SetActiveOrg(list, call["update"].org, role) \/ UNCHANGED <<storeVars, bounced>>
      BY <2>2 DEF FinishUpdate
    <3>2. active' \in 0..MaxOrgs /\ role' \in R /\ bounced' \in BOOLEAN
      BY <1>t, <3>1, SetActiveType DEF storeVars
    <3> QED
      BY <1>t, <2>2, <3>2 DEF FinishUpdate
  <2>3. CASE FinishDelete
    <3>1. SetActiveOrg(list, 0, NoRole)
      BY <2>3 DEF FinishDelete
    <3>2. active' \in 0..MaxOrgs /\ role' \in R /\ bounced' \in BOOLEAN
      BY <1>t, <3>1, SetActiveType
    <3> QED
      BY <1>t, <2>3, <3>2 DEF FinishDelete
  <2>4. CASE FinishPeople
    <3>1. peopled' = peopled \/ \E o : peopled' = [peopled EXCEPT ![o] = StalePeople]
      BY <2>4 DEF FinishPeople
    <3>2. peopled' \in [Orgs -> P]
      BY <1>t, <3>1
    <3>3. wrote' \in [Orgs -> Versions]
      <4>1. wrote' = [wrote EXCEPT ![call["people"].org] = version[call["people"].org]]
        BY <2>4 DEF FinishPeople
      <4> QED
        BY <1>t, <4>1
    <3> QED
      BY <1>t, <2>4, <3>2, <3>3 DEF FinishPeople, storeVars
  <2>5. CASE \E g \in Forms : FinishRefused(g)
    BY <1>t, <2>5 DEF FinishRefused, cacheVars, storeVars
  <2> QED
    BY <2>1, <2>2, <2>3, <2>4, <2>5 DEF Finish
<1>5. TypeOK'
  BY <1>2, <1>3, <1>4 DEF TypeInv, TypeOK, BrowserOnly, dbVars
<1>6. VersionCounted'
  BY <1>2, <1>3 DEF TypeInv, VersionCounted, BrowserOnly, dbVars
<1> QED
  BY <1>2, <1>5, <1>6 DEF TypeInv

\* Init has the types.
LEMMA TypeInit == Init => TypeInv
<1> SUFFICES ASSUME Init PROVE TypeInv
  OBVIOUS
<1>1. TypeOK
  <2>1. /\ 0 \in Versions /\ Unread \in Versions \cup {Unread} /\ NoList \in [Orgs -> Roles \cup {NoRole}]
        /\ 0 \in 0..MaxCalls /\ 0 \in 0..MaxOrgs /\ "owner" \in Roles /\ First \in Users
    BY WorkspaceAssumption DEF Versions, NoList, Roles
  <2> QED
    BY <2>1, IdleFact DEF Init, TypeOK
<1>2. OrgNamed
  <2>1. \A s \in Slots : call[s] = Idle
    BY DEF Init
  <2> QED
    BY <2>1, IdleFact, Zenon DEF OrgNamed, HandlerSteps
<1>3. VersionCounted
  <2>1. Underway = 0
    <3>1. call["people"] = Idle
      BY DEF Init, Slots, Forms
    <3> QED
      BY <3>1, IdleFact DEF Underway, HandlerSteps
  <2> QED
    BY <2>1 DEF Init, VersionCounted
<1> QED
  BY <1>1, <1>2, <1>3 DEF TypeInv

\* Every step keeps them.
LEMMA TypeNext == TypeInv /\ [Next]_vars => TypeInv'
<1> SUFFICES ASSUME TypeInv, [Next]_vars PROVE TypeInv'
  OBVIOUS
<1>1. CASE UNCHANGED vars
  BY <1>1 DEF TypeInv, TypeOK, OrgNamed, VersionCounted, Underway, vars, dbVars, cacheVars, storeVars, historyVars
<1>2. CASE Next
  BY <1>2, HandlerType, FinishType, FetchType, PeopleType, AskType, LoadType DEF Next, Ask, Open
<1> QED
  BY <1>1, <1>2

\* The steps of a handler that has found its caller to be allowed.
Allowed == {"seats", "quota", "add", "target", "write", "erase"}
Of(o) == {s \in Slots : call[s].org = o}

\* An organization in the making, or one whose making failed half-way.
Ownerless(o) == o \in botched \/ \E s \in Of(o) : At(s, "own")

\* Nobody is a member of an organization before its owner is, so nobody is
\* allowed to do anything to it.
Closed(o) == /\ \A u \in Users : member[o][u] = Out
             /\ \A s \in Of(o) : call[s].step \notin Allowed

Unmade == \A o \in Orgs : org[o] = "none" => /\ Closed(o) /\ ~Ownerless(o)
Making == \A o \in Orgs : Ownerless(o) => org[o] = "live" /\ Closed(o)
Makers == /\ \A s \in Slots : At(s, "own") => call[s].by = creator[call[s].org] /\ call[s].org \notin botched
          /\ \A s, t \in Slots : At(s, "own") /\ At(t, "own") /\ call[s].org = call[t].org => s = t

\* The creator is the owner, and no write under way is aimed at him.
Owned == \A o \in Orgs : org[o] = "live" /\ ~Ownerless(o) =>
             /\ \A u \in Users : member[o][u] = "owner" <=> u = creator[o]
             /\ \A s \in Of(o) : At(s, "write") /\ call[s].kind \in {"role", "remove"}
                                 => call[s].whom # creator[o]

\* A deleted organization has no members, and no request that may add one.
Emptied == \A o \in Orgs : org[o] = "deleted" /\ o \notin orphaned =>
               /\ \A u \in Users : member[o][u] = Out
               /\ \A s \in Of(o) : call[s].step \notin {"seats", "quota", "add"}

\* A user who has been counted has room for the addition that follows.
Counted == \A u \in Users \ raced : /\ Cardinality(OrgsOf(u)) <= MaxOrgsPerUser
                                    /\ Adding(u) # {} => Cardinality(OrgsOf(u)) < MaxOrgsPerUser

MemberInv == Unmade /\ Making /\ Makers /\ Owned /\ Emptied /\ Counted

\* What the invariant speaks of.
memberVars == <<org, creator, member, raced, orphaned, botched>>

\* A request leaves the service, or is not yet in it.
LEMMA QuietInv ==
  ASSUME MemberInv, NEW s \in Slots, \A t \in Slots : t # s => call'[t] = call[t],
         call'[s].step \in {"idle", "ok", "refused", "count", "allow"}, ~At(s, "own"), UNCHANGED memberVars
  PROVE  MemberInv'
<1>1. \A t \in Slots : At(t, "own")' <=> At(t, "own")
  BY DEF At
<1>2. \A t \in Slots : At(t, "own") => call'[t] = call[t]
  BY DEF At
<1>3. \A o \in Orgs : Ownerless(o)' <=> Ownerless(o)
  BY <1>1, <1>2 DEF Ownerless, Of, memberVars, At
<1>4. \A t \in Slots : call'[t].step \in Allowed => call'[t] = call[t]
  BY DEF Allowed
<1>5. \A o \in Orgs : Closed(o) => Closed(o)'
  BY <1>4 DEF Closed, Of, memberVars
<1>6. Unmade' /\ Making'
  BY <1>3, <1>5 DEF MemberInv, Unmade, Making, memberVars
<1>7. Makers'
  BY <1>1, <1>2 DEF MemberInv, Makers, memberVars, At
<1>8. Owned'
  <2>1. \A t \in Slots : At(t, "write")' => call'[t] = call[t]
    BY DEF At
  <2> QED
    BY <1>3, <2>1 DEF MemberInv, Owned, Of, At, memberVars
<1>9. Emptied'
  BY <1>4 DEF MemberInv, Emptied, Of, memberVars, Allowed
<1>10. Counted'
  <2>1. \A u \in Users : Adding(u)' \subseteq Adding(u)
    BY DEF Adding, At
  <2>2. \A u \in Users : UNCHANGED OrgsOf(u)
    BY DEF OrgsOf, memberVars
  <2> QED
    BY <2>1, <2>2 DEF MemberInv, Counted, memberVars
<1> QED
  BY <1>6, <1>7, <1>8, <1>9, <1>10 DEF MemberInv

\* A request goes on in the service: its caller is a member, or was.
LEMMA ForwardInv ==
  ASSUME MemberInv, NEW s \in Slots, \A t \in Slots : t # s => call'[t] = call[t],
         call[s].org \in Orgs, call'[s].org = call[s].org, call'[s].kind = call[s].kind,
         call'[s].whom = call[s].whom,
         call'[s].step \in Allowed, call[s].step \in Allowed \cup {"allow"},
         At(s, "allow") => \E u \in Users : member[call[s].org][u] # Out,
         call'[s].step \in {"seats", "quota", "add"} => call[s].step \in {"allow", "seats", "quota"},
         call'[s].step = "write" /\ call[s].kind \in {"role", "remove"} => member[call[s].org][call[s].whom] # "owner",
         call'[s].step = "add" => Cardinality(OrgsOf(call[s].whom)) < MaxOrgsPerUser,
         call[s].whom \in Users, UNCHANGED memberVars
  PROVE  MemberInv'
<1>0. ~At(s, "own") /\ call'[s].step # "own"
  BY DEF At, Allowed
<1>1. \A t \in Slots : At(t, "own")' <=> At(t, "own")
  BY <1>0 DEF At
<1>2. \A t \in Slots : At(t, "own") => call'[t] = call[t]
  BY <1>0 DEF At
<1>3. \A o \in Orgs : Ownerless(o)' <=> Ownerless(o)
  BY <1>1, <1>2 DEF Ownerless, Of, memberVars, At
<1>4. ~Closed(call[s].org)
  BY DEF Closed, Of, At
<1>5. \A o \in Orgs : Closed(o) => Closed(o)'
  BY <1>4 DEF Closed, Of, memberVars
<1>6. Unmade' /\ Making'
  BY <1>3, <1>5 DEF MemberInv, Unmade, Making, memberVars
<1>7. Makers'
  BY <1>1, <1>2 DEF MemberInv, Makers, memberVars, At
<1>8. Owned'
  <2>1. \A t \in Slots : t # s /\ At(t, "write")' => call'[t] = call[t] /\ At(t, "write")
    BY DEF At
  <2>2. SUFFICES ASSUME NEW o \in Orgs, org[o] = "live" /\ ~Ownerless(o)
                 PROVE  /\ \A u \in Users : member[o][u] = "owner" <=> u = creator[o]
                        /\ \A t \in Slots : call'[t].org = o /\ call'[t].step = "write" /\ call'[t].kind \in {"role", "remove"}
                                            => call'[t].whom # creator[o]
    BY <1>3 DEF Owned, Of, At, memberVars
  <2>3. /\ \A u \in Users : member[o][u] = "owner" <=> u = creator[o]
        /\ \A t \in Slots : call[t].org = o /\ call[t].step = "write" /\ call[t].kind \in {"role", "remove"}
                            => call[t].whom # creator[o]
    BY <2>2 DEF MemberInv, Owned, Of, At
  <2> QED
    BY <2>3
<1>9. Emptied'
  BY DEF MemberInv, Emptied, Of, memberVars, At
<1>10. Counted'
  <2>1. \A u \in Users : Adding(u)' \subseteq Adding(u) \/ (u = call[s].whom /\ call'[s].step = "add")
    BY <1>0 DEF Adding, At, Allowed
  <2>2. \A u \in Users : UNCHANGED OrgsOf(u)
    BY DEF OrgsOf, memberVars
  <2> QED
    BY <2>1, <2>2 DEF MemberInv, Counted, memberVars
<1> QED
  BY <1>6, <1>7, <1>8, <1>9, <1>10 DEF MemberInv

\* Sets of organizations are finite.
LEMMA OrgsFinite ==
  /\ \A u \in Users : IsFiniteSet(OrgsOf(u)) /\ Cardinality(OrgsOf(u)) \in Nat
  /\ \A S, T : S \subseteq T /\ T \subseteq Orgs => Cardinality(S) \in Nat /\ Cardinality(T) \in Nat /\ Cardinality(S) <= Cardinality(T)
  /\ \A S : S \subseteq Orgs => \A o : Cardinality(S \cup {o}) <= Cardinality(S) + 1
<1>1. IsFiniteSet(Orgs)
  BY WorkspaceAssumption, FS_Interval DEF Orgs
<1>2. \A S \in SUBSET Orgs : IsFiniteSet(S) /\ Cardinality(S) \in Nat
  BY <1>1, FS_Subset, FS_CardinalityType
<1>3. \A u \in Users : OrgsOf(u) \in SUBSET Orgs
  BY DEF OrgsOf
<1>4. \A S, T : S \subseteq T /\ T \subseteq Orgs => Cardinality(S) <= Cardinality(T)
  BY <1>2, FS_Subset
<1>5. \A S \in SUBSET Orgs : \A o : Cardinality(S \cup {o}) <= Cardinality(S) + 1
  <2> SUFFICES ASSUME NEW S \in SUBSET Orgs, NEW o PROVE Cardinality(S \cup {o}) <= Cardinality(S) + 1
    OBVIOUS
  <2>1. IsFiniteSet(S) /\ Cardinality(S) \in Nat
    BY <1>2
  <2>2. Cardinality(S \cup {o}) = IF o \in S THEN Cardinality(S) ELSE Cardinality(S) + 1
    BY <2>1, FS_AddElement
  <2> QED
    BY <2>1, <2>2
<1> QED
  BY <1>2, <1>3, <1>4, <1>5

\* The creator of an organization has been counted.
LEMMA CountInv ==
  ASSUME MemberInv, NEW s \in Slots, \A t \in Slots : t # s => call'[t] = call[t],
         At(s, "count"), call'[s].step = "insert", call'[s].by = call[s].by, WithinQuota(call[s].by), UNCHANGED memberVars
  PROVE  MemberInv'
<1>0. ~At(s, "own") /\ call'[s].step # "own"
  BY DEF At
<1>1. \A t \in Slots : At(t, "own")' <=> At(t, "own")
  BY <1>0 DEF At
<1>2. \A t \in Slots : At(t, "own") => call'[t] = call[t]
  BY <1>0 DEF At
<1>3. \A o \in Orgs : Ownerless(o)' <=> Ownerless(o)
  BY <1>1, <1>2 DEF Ownerless, Of, memberVars, At
<1>4. \A t \in Slots : call'[t].step \in Allowed => call'[t] = call[t]
  BY DEF Allowed
<1>5. \A o \in Orgs : Closed(o) => Closed(o)'
  BY <1>4 DEF Closed, Of, memberVars
<1>6. Unmade' /\ Making'
  BY <1>3, <1>5 DEF MemberInv, Unmade, Making, memberVars
<1>7. Makers'
  BY <1>1, <1>2 DEF MemberInv, Makers, memberVars, At
<1>8. Owned'
  <2>1. \A t \in Slots : At(t, "write")' => call'[t] = call[t]
    BY DEF At
  <2> QED
    BY <1>3, <2>1 DEF MemberInv, Owned, Of, At, memberVars
<1>9. Emptied'
  BY <1>4 DEF MemberInv, Emptied, Of, memberVars, Allowed
<1>10. Counted'
  <2>1. \A u \in Users : Adding(u)' \subseteq Adding(u) \/ u = call[s].by
    BY DEF Adding, At
  <2>2. \A u \in Users : UNCHANGED OrgsOf(u)
    BY DEF OrgsOf, memberVars
  <2> QED
    BY <2>1, <2>2 DEF MemberInv, Counted, memberVars, WithinQuota
<1> QED
  BY <1>6, <1>7, <1>8, <1>9, <1>10 DEF MemberInv

\* An organization in the making has no members, and only its creator asks for one.
LEMMA InsertInv ==
  ASSUME TypeInv, MemberInv, NEW s \in Slots, \A t \in Slots : t # s => call'[t] = call[t],
         NEW o \in Orgs, At(s, "insert"), call'[s].step = "own", call'[s].org = o, call'[s].by = call[s].by,
         org[o] = "none", org' = [org EXCEPT ![o] = "live"], creator' = [creator EXCEPT ![o] = call[s].by],
         UNCHANGED <<member, raced, orphaned, botched>>
  PROVE  MemberInv'
<1>1. Closed(o) /\ ~Ownerless(o)
  BY DEF MemberInv, Unmade
<1>2. /\ org'[o] = "live" /\ \A p \in Orgs : p # o => org'[p] = org[p] /\ creator'[p] = creator[p]
      /\ creator'[o] = call[s].by
  BY DEF TypeInv, TypeOK
<1>3. \A t \in Slots : At(t, "own")' <=> At(t, "own") \/ t = s
  BY DEF At
<1>4. \A t \in Slots : At(t, "own") => t # s /\ call'[t] = call[t] /\ call[t].org # o /\ call[t].org \in Orgs
  BY <1>1 DEF At, Ownerless, Of, TypeInv, OrgNamed, HandlerSteps
<1>5. Ownerless(o)' /\ \A p \in Orgs : p # o => (Ownerless(p)' <=> Ownerless(p))
  BY <1>3, <1>4 DEF Ownerless, Of, At
<1>6. \A t \in Slots : call'[t].step \in Allowed => call'[t] = call[t]
  BY DEF Allowed
<1>7. \A p \in Orgs : Closed(p) => Closed(p)'
  BY <1>6 DEF Closed, Of
<1>8. Unmade' /\ Making'
  BY <1>1, <1>2, <1>5, <1>7 DEF MemberInv, Unmade, Making
<1>9. Makers'
  <2>1. o \notin botched
    BY <1>1 DEF Ownerless
  <2>2. \A t \in Slots : At(t, "own") => call[t].by = creator[call[t].org] /\ call[t].org \notin botched
    BY DEF MemberInv, Makers
  <2>3. \A t, u \in Slots : At(t, "own") /\ At(u, "own") /\ call[t].org = call[u].org => t = u
    BY DEF MemberInv, Makers
  <2>4. \A t \in Slots : At(t, "own")' => call'[t].by = creator'[call'[t].org] /\ call'[t].org \notin botched
    BY <1>2, <1>3, <1>4, <2>1, <2>2
  <2>5. \A t, u \in Slots : At(t, "own")' /\ At(u, "own")' /\ call'[t].org = call'[u].org => t = u
    BY <1>3, <1>4, <2>3
  <2> QED
    BY <2>4, <2>5 DEF Makers
<1>10. Owned'
  <2>1. \A t \in Slots : At(t, "write")' => call'[t] = call[t]
    BY DEF At
  <2> QED
    BY <1>2, <1>5, <2>1 DEF MemberInv, Owned, Of, At
<1>11. Emptied'
  BY <1>2, <1>6 DEF MemberInv, Emptied, Of, Allowed
<1>12. Counted'
  <2>1. \A u \in Users : Adding(u)' \subseteq Adding(u)
    BY DEF Adding, At
  <2>2. \A u \in Users : UNCHANGED OrgsOf(u)
    BY DEF OrgsOf
  <2> QED
    BY <2>1, <2>2 DEF MemberInv, Counted
<1> QED
  BY <1>8, <1>9, <1>10, <1>11, <1>12 DEF MemberInv

\* A request that is allowed is for an organization that is complete.
LEMMA AllowedFact ==
  ASSUME MemberInv, NEW s \in Slots, call[s].step \in Allowed, call[s].org \in Orgs
  PROVE  ~Closed(call[s].org) /\ ~Ownerless(call[s].org) /\ org[call[s].org] # "none"
  BY DEF MemberInv, Unmade, Making, Closed, Of

\* The one request of the slot is over: what is left of it is in nobody's way.
LEMMA OverFact ==
  ASSUME NEW s \in Slots, \A t \in Slots : t # s => call'[t] = call[t],
         call'[s].step \in {"idle", "ok", "refused"}
  PROVE  /\ \A t \in Slots : call'[t].step \in Allowed \cup {"own", "insert"} => t # s /\ call'[t] = call[t]
         /\ \A t \in Slots : At(t, "own")' <=> (At(t, "own") /\ t # s)
         /\ \A t \in Slots : At(t, "write")' => t # s /\ call'[t] = call[t]
         /\ \A u \in Users : Adding(u)' \subseteq Adding(u) \ {s}
<1>1. \A t \in Slots : call'[t].step \in Allowed \cup {"own", "insert"} => t # s /\ call'[t] = call[t]
  BY DEF Allowed
<1>2. \A t \in Slots : At(t, "own")' <=> (At(t, "own") /\ t # s)
  BY DEF At
<1>3. \A u \in Users : Adding(u)' \subseteq Adding(u) \ {s}
  BY DEF Adding, At
<1>4. \A t \in Slots : At(t, "write")' => t # s /\ call'[t] = call[t]
  BY DEF At
<1> QED
  BY <1>1, <1>2, <1>3, <1>4

\* One membership more, of a user who was counted.
LEMMA RoomFact ==
  ASSUME TypeInv, MemberInv, NEW s \in Slots, \A t \in Slots : t # s => call'[t] = call[t],
         call'[s].step \in {"idle", "ok", "refused"},
         NEW o \in Orgs, NEW u \in Users, NEW r, s \in Adding(u),
         member' = [member EXCEPT ![o][u] = r],
         raced' = IF Adding(u) # {s} THEN raced \cup {u} ELSE raced
  PROVE  Counted'
<1>1. \A w \in Users : Adding(w)' \subseteq Adding(w) \ {s}
  BY OverFact
<1>2. /\ \A w \in Users : w # u => OrgsOf(w)' = OrgsOf(w)
      /\ OrgsOf(u)' \subseteq OrgsOf(u) \cup {o} /\ OrgsOf(u) \subseteq Orgs
  BY DEF TypeInv, TypeOK, OrgsOf
<1>3. Cardinality(OrgsOf(u)') <= Cardinality(OrgsOf(u)) + 1 /\ Cardinality(OrgsOf(u)') \in Nat
      /\ Cardinality(OrgsOf(u)) \in Nat
  <2>1. OrgsOf(u) \cup {o} \subseteq Orgs
    BY <1>2
  <2>2. Cardinality(OrgsOf(u) \cup {o}) <= Cardinality(OrgsOf(u)) + 1
    BY <1>2, OrgsFinite
  <2>3. Cardinality(OrgsOf(u)') <= Cardinality(OrgsOf(u) \cup {o}) /\ Cardinality(OrgsOf(u) \cup {o}) \in Nat
        /\ Cardinality(OrgsOf(u)') \in Nat
    BY <1>2, <2>1, OrgsFinite
  <2> QED
    BY <2>2, <2>3, OrgsFinite
<1>4. ASSUME u \notin raced'
      PROVE  Cardinality(OrgsOf(u)') <= MaxOrgsPerUser /\ Adding(u)' = {}
  <2>1. u \notin raced /\ Adding(u) = {s}
    BY <1>4
  <2>2. Cardinality(OrgsOf(u)) < MaxOrgsPerUser
    BY <2>1 DEF MemberInv, Counted
  <2> QED
    BY <1>1, <1>3, <2>1, <2>2, WorkspaceAssumption
<1>5. ASSUME NEW w \in Users, w # u, w \notin raced'
      PROVE  /\ Cardinality(OrgsOf(w)') <= MaxOrgsPerUser
             /\ Adding(w)' # {} => Cardinality(OrgsOf(w)') < MaxOrgsPerUser
  BY <1>1, <1>2, <1>5 DEF MemberInv, Counted
<1> QED
  BY <1>4, <1>5 DEF Counted

\* Memberships fewer, or others.
LEMMA FewerFact ==
  ASSUME TypeInv, MemberInv, NEW s \in Slots, \A t \in Slots : t # s => call'[t] = call[t],
         call'[s].step \in {"idle", "ok", "refused"}, UNCHANGED raced,
         \A p \in Orgs, w \in Users : member[p][w] = Out => member'[p][w] = Out
  PROVE  Counted'
<1>1. \A w \in Users : Adding(w)' \subseteq Adding(w) \ {s}
  BY OverFact
<1>2. \A w \in Users : OrgsOf(w)' \subseteq OrgsOf(w) /\ OrgsOf(w) \subseteq Orgs
  BY DEF OrgsOf
<1>3. \A w \in Users : Cardinality(OrgsOf(w)') <= Cardinality(OrgsOf(w)) /\ Cardinality(OrgsOf(w)') \in Nat
                       /\ Cardinality(OrgsOf(w)) \in Nat
  BY <1>2, OrgsFinite
<1> QED
  BY <1>1, <1>3, WorkspaceAssumption DEF MemberInv, Counted

\* The owner of a new organization becomes its first member.
LEMMA OwnInv ==
  ASSUME TypeInv, MemberInv, NEW s \in Slots, \A t \in Slots : t # s => call'[t] = call[t],
         At(s, "own"), AddMember(s), call'[s].step \in {"idle", "ok"}
  PROVE  MemberInv'
<1> DEFINE u == call[s].by
<1>0. PICK o : o = call[s].org
  OBVIOUS
<1>1. o \in Orgs /\ u \in Users /\ u = creator[o] /\ o \notin botched
  BY <1>0 DEF TypeInv, TypeOK, OrgNamed, Call, At, HandlerSteps, MemberInv, Makers
<1>2. Ownerless(o) /\ Closed(o) /\ org[o] = "live"
  BY <1>0, <1>1 DEF Ownerless, Of, MemberInv, Making
<1>3. member[o][u] = Out
  BY <1>1, <1>2 DEF Closed
<1>4. /\ member' = [member EXCEPT ![o][u] = "owner"]
      /\ raced' = IF Adding(u) # {s} THEN raced \cup {u} ELSE raced
      /\ UNCHANGED <<org, creator, orphaned, botched>>
  BY <1>0, <1>3 DEF AddMember, At
<1>5. /\ \A p \in Orgs : p # o => member'[p] = member[p]
      /\ member'[o][u] = "owner" /\ \A w \in Users : w # u => member'[o][w] = Out
  BY <1>1, <1>2, <1>4 DEF TypeInv, TypeOK, Closed
<1>6. /\ \A t \in Slots : call'[t].step \in Allowed \cup {"own", "insert"} => t # s /\ call'[t] = call[t]
      /\ \A t \in Slots : At(t, "own")' <=> (At(t, "own") /\ t # s)
      /\ \A t \in Slots : At(t, "write")' => t # s /\ call'[t] = call[t]
  BY OverFact
<1>7. \A t \in Slots : At(t, "own") /\ t # s => call[t].org # o
  BY <1>0 DEF MemberInv, Makers
<1>8. ~Ownerless(o)' /\ \A p \in Orgs : p # o => (Ownerless(p)' <=> Ownerless(p))
  <2>1. \A t \in Slots : At(t, "own")' => call'[t] = call[t] /\ At(t, "own") /\ t # s
    BY <1>6 DEF At
  <2>2. \A t \in Slots : At(t, "own") /\ t # s => call'[t] = call[t] /\ At(t, "own")'
    BY <1>6
  <2>3. ~Ownerless(o)'
    BY <1>1, <1>4, <1>7, <2>1 DEF Ownerless, Of
  <2>4. ASSUME NEW p \in Orgs, p # o PROVE Ownerless(p)' <=> Ownerless(p)
    <3>1. \A t \in Slots : call[t].org = p => t # s
      BY <1>0, <2>4
    <3>2. \A t \in Slots : (call'[t].org = p /\ At(t, "own")') <=> (call[t].org = p /\ At(t, "own"))
      BY <2>1, <2>2, <3>1
    <3> QED
      BY <1>4, <3>2 DEF Ownerless, Of
  <2> QED
    BY <2>3, <2>4
<1>9. \A p \in Orgs : p # o /\ Closed(p) => Closed(p)'
  BY <1>5, <1>6 DEF Closed, Of
<1>10. Unmade' /\ Making'
  <2>1. Unmade'
    BY <1>2, <1>4, <1>8, <1>9 DEF MemberInv, Unmade
  <2>2. Making'
    BY <1>2, <1>4, <1>8, <1>9 DEF MemberInv, Making
  <2> QED
    BY <2>1, <2>2
<1>11. Makers'
  BY <1>4, <1>6 DEF MemberInv, Makers, At
<1>12. Owned'
  <2>1. \A t \in Slots : call[t].org = o => call[t].step # "write"
    BY <1>2 DEF Closed, Of, Allowed
  <2>2. ASSUME NEW p \in Orgs, p # o, org[p] = "live", ~Ownerless(p)'
        PROVE  /\ \A w \in Users : member'[p][w] = "owner" <=> w = creator[p]
               /\ \A t \in Slots : call'[t].org = p /\ At(t, "write")' /\ call'[t].kind \in {"role", "remove"}
                                   => call'[t].whom # creator[p]
    <3>1. ~Ownerless(p)
      BY <1>8, <2>2
    <3>2. /\ \A w \in Users : member[p][w] = "owner" <=> w = creator[p]
          /\ \A t \in Slots : call[t].org = p /\ At(t, "write") /\ call[t].kind \in {"role", "remove"}
                              => call[t].whom # creator[p]
      BY <2>2, <3>1 DEF MemberInv, Owned, Of
    <3> QED
      BY <1>5, <1>6, <2>2, <3>2 DEF At
  <2>3. \A w \in Users : member'[o][w] = "owner" <=> w = creator[o]
    BY <1>1, <1>5 DEF Out
  <2>4. \A t \in Slots : call'[t].org = o => ~At(t, "write")'
    BY <1>6, <2>1 DEF At
  <2> QED
    BY <1>4, <2>2, <2>3, <2>4 DEF Owned, Of
<1>13. Emptied'
  BY <1>2, <1>4, <1>5, <1>6 DEF MemberInv, Emptied, Of, Allowed
<1>14. Counted'
  <2>1. s \in Adding(u)
    BY DEF Adding, At
  <2> QED
    BY <1>1, <1>4, <2>1, RoomFact
<1> QED
  BY <1>10, <1>11, <1>12, <1>13, <1>14 DEF MemberInv

\* A membership of a complete organization is made, changed or removed: never its
\* owner's, and none becomes an owner.
LEMMA ChangeInv ==
  ASSUME TypeInv, MemberInv, NEW s \in Slots, \A t \in Slots : t # s => call'[t] = call[t],
         call[s].step \in Allowed, call[s].org \in Orgs, call'[s].step \in {"idle", "ok"},
         NEW u \in Users, NEW r \in (Roles \cup {Out}) \ {"owner"},
         member' = [member EXCEPT ![call[s].org][u] = r],
         org[call[s].org] = "live" => u # creator[call[s].org],
         org[call[s].org] = "live" \/ call[s].org \in orphaned,
         Counted', UNCHANGED <<org, creator, orphaned, botched>>
  PROVE  MemberInv'
<1> DEFINE o == call[s].org
<1>1. ~Closed(o) /\ ~Ownerless(o) /\ org[o] # "none"
  BY AllowedFact
<1>2. /\ \A p \in Orgs : p # o => member'[p] = member[p]
      /\ member'[o][u] = r /\ \A w \in Users : w # u => member'[o][w] = member[o][w]
  BY DEF TypeInv, TypeOK
<1>3. /\ \A t \in Slots : call'[t].step \in Allowed \cup {"own", "insert"} => t # s /\ call'[t] = call[t]
      /\ \A t \in Slots : At(t, "own")' <=> (At(t, "own") /\ t # s)
      /\ \A t \in Slots : At(t, "write")' => t # s /\ call'[t] = call[t]
  BY OverFact
<1>4. ~At(s, "own")
  BY DEF Allowed, At
<1>5. \A p \in Orgs : Ownerless(p)' <=> Ownerless(p)
  BY <1>3, <1>4 DEF Ownerless, Of, At
<1>6. \A p \in Orgs : p # o /\ Closed(p) => Closed(p)'
  BY <1>2, <1>3 DEF Closed, Of
<1>7. Unmade' /\ Making'
  BY <1>1, <1>5, <1>6 DEF MemberInv, Unmade, Making
<1>8. Makers'
  BY <1>3 DEF MemberInv, Makers, At
<1>9. Owned'
  <2> SUFFICES ASSUME NEW p \in Orgs, org[p] = "live", ~Ownerless(p)'
               PROVE  /\ \A w \in Users : member'[p][w] = "owner" <=> w = creator[p]
                      /\ \A t \in Slots : call'[t].org = p /\ At(t, "write")' /\ call'[t].kind \in {"role", "remove"}
                                          => call'[t].whom # creator[p]
    BY DEF Owned, Of
  <2>1. /\ \A w \in Users : member[p][w] = "owner" <=> w = creator[p]
        /\ \A t \in Slots : call[t].org = p /\ At(t, "write") /\ call[t].kind \in {"role", "remove"}
                            => call[t].whom # creator[p]
    BY <1>5 DEF MemberInv, Owned, Of
  <2>2. \A w \in Users : member'[p][w] = "owner" <=> w = creator[p]
    BY <1>2, <2>1
  <2> QED
    BY <1>3, <2>1, <2>2 DEF At
<1>10. Emptied'
  BY <1>2, <1>3 DEF MemberInv, Emptied, Of, Allowed
<1> QED
  BY <1>7, <1>8, <1>9, <1>10 DEF MemberInv

\* A deleted organization loses its members; a request that may add one is on record.
LEMMA EraseInv ==
  ASSUME TypeInv, MemberInv, NEW s \in Slots, \A t \in Slots : t # s => call'[t] = call[t],
         EraseOrg(s), call[s].org \in Orgs, call'[s].step \in {"idle", "ok"}
  PROVE  MemberInv'
<1> DEFINE o == call[s].org
<1>0. call[s].step \in Allowed /\ call[s].step \notin {"seats", "quota", "add", "own"}
  BY DEF EraseOrg, At, Allowed
<1>1. ~Closed(o) /\ ~Ownerless(o) /\ org[o] # "none"
  BY <1>0, AllowedFact
<1>2. /\ org' = [org EXCEPT ![o] = "deleted"]
      /\ member' = [member EXCEPT ![o] = [u \in Users |-> Out]]
      /\ orphaned' = IF \E r \in Slots : call[r].org = o /\ call[r].step \in {"seats", "quota", "add"}
                     THEN orphaned \cup {o} ELSE orphaned
      /\ UNCHANGED <<creator, version, raced, botched>>
  BY DEF EraseOrg
<1>3. /\ \A p \in Orgs : p # o => member'[p] = member[p] /\ org'[p] = org[p]
      /\ org'[o] = "deleted" /\ \A w \in Users : member'[o][w] = Out
  BY <1>2 DEF TypeInv, TypeOK
<1>4. /\ \A t \in Slots : call'[t].step \in Allowed \cup {"own", "insert"} => t # s /\ call'[t] = call[t]
      /\ \A t \in Slots : At(t, "own")' <=> (At(t, "own") /\ t # s)
      /\ \A t \in Slots : At(t, "write")' => t # s /\ call'[t] = call[t]
  BY OverFact
<1>5. \A p \in Orgs : Ownerless(p)' <=> Ownerless(p)
  BY <1>0, <1>2, <1>4 DEF Ownerless, Of, At
<1>6. \A p \in Orgs : p # o /\ Closed(p) => Closed(p)'
  BY <1>3, <1>4 DEF Closed, Of
<1>7. Unmade' /\ Making'
  BY <1>1, <1>3, <1>5, <1>6 DEF MemberInv, Unmade, Making
<1>8. Makers'
  BY <1>2, <1>4 DEF MemberInv, Makers, At
<1>9. Owned'
  <2> SUFFICES ASSUME NEW p \in Orgs, org'[p] = "live", ~Ownerless(p)'
               PROVE  /\ \A w \in Users : member'[p][w] = "owner" <=> w = creator[p]
                      /\ \A t \in Slots : call'[t].org = p /\ At(t, "write")' /\ call'[t].kind \in {"role", "remove"}
                                          => call'[t].whom # creator[p]
    BY <1>2 DEF Owned, Of
  <2>1. p # o /\ org[p] = "live"
    BY <1>3
  <2>2. /\ \A w \in Users : member[p][w] = "owner" <=> w = creator[p]
        /\ \A t \in Slots : call[t].org = p /\ At(t, "write") /\ call[t].kind \in {"role", "remove"}
                            => call[t].whom # creator[p]
    BY <1>5, <2>1 DEF MemberInv, Owned, Of
  <2> QED
    BY <1>3, <1>4, <2>1, <2>2 DEF At
<1>10. Emptied'
  <2> SUFFICES ASSUME NEW p \in Orgs, org'[p] = "deleted", p \notin orphaned'
               PROVE  /\ \A w \in Users : member'[p][w] = Out
                      /\ \A t \in Slots : call'[t].org = p => call'[t].step \notin {"seats", "quota", "add"}
    BY DEF Emptied, Of
  <2>1. CASE p = o
    <3>1. \A t \in Slots : call[t].org = p => call[t].step \notin {"seats", "quota", "add"}
      BY <1>2, <2>1
    <3> QED
      BY <1>3, <1>4, <2>1, <3>1 DEF Allowed
  <2>2. CASE p # o
    <3>1. org[p] = "deleted" /\ p \notin orphaned
      BY <1>2, <1>3, <2>2
    <3>2. /\ \A w \in Users : member[p][w] = Out
          /\ \A t \in Slots : call[t].org = p => call[t].step \notin {"seats", "quota", "add"}
      BY <3>1 DEF MemberInv, Emptied, Of
    <3> QED
      BY <1>3, <1>4, <2>2, <3>2 DEF Allowed
  <2> QED
    BY <2>1, <2>2
<1>11. Counted'
  <2>1. \A p \in Orgs, w \in Users : member[p][w] = Out => member'[p][w] = Out
    BY <1>3
  <2>2. call'[s].step \in {"idle", "ok", "refused"} /\ UNCHANGED raced
    BY <1>2
  <2> QED
    BY <2>1, <2>2, FewerFact
<1> QED
  BY <1>7, <1>8, <1>9, <1>10, <1>11 DEF MemberInv

\* The owner could not be added: nobody will ever be a member.
LEMMA BotchInv ==
  ASSUME TypeInv, MemberInv, NEW s \in Slots, \A t \in Slots : t # s => call'[t] = call[t],
         At(s, "own"), call'[s].step \in {"idle", "refused"}, botched' = botched \cup {call[s].org},
         UNCHANGED <<org, creator, member, raced, orphaned>>
  PROVE  MemberInv'
<1> DEFINE o == call[s].org
<1>1. o \in Orgs /\ Ownerless(o)
  BY DEF TypeInv, OrgNamed, At, HandlerSteps, Ownerless, Of
<1>2. /\ \A t \in Slots : call'[t].step \in Allowed \cup {"own", "insert"} => t # s /\ call'[t] = call[t]
      /\ \A t \in Slots : At(t, "own")' <=> (At(t, "own") /\ t # s)
      /\ \A t \in Slots : At(t, "write")' => t # s /\ call'[t] = call[t]
      /\ \A u \in Users : Adding(u)' \subseteq Adding(u) \ {s}
  BY OverFact
<1>3. \A p \in Orgs : Ownerless(p)' <=> Ownerless(p)
  BY <1>1, <1>2 DEF Ownerless, Of, At
<1>4. \A p \in Orgs : Closed(p) => Closed(p)'
  BY <1>2 DEF Closed, Of
<1>5. Unmade' /\ Making'
  BY <1>3, <1>4 DEF MemberInv, Unmade, Making
<1>6. Makers'
  <2>1. \A t \in Slots : At(t, "own") /\ t # s => call[t].org # o
    BY DEF MemberInv, Makers
  <2> QED
    BY <1>2, <2>1 DEF MemberInv, Makers, At
<1>7. Owned'
  BY <1>2, <1>3 DEF MemberInv, Owned, Of, At
<1>8. Emptied'
  BY <1>2 DEF MemberInv, Emptied, Of, Allowed
<1>9. Counted'
  <2>1. \A u \in Users : UNCHANGED OrgsOf(u)
    BY DEF OrgsOf
  <2> QED
    BY <1>2, <2>1 DEF MemberInv, Counted
<1> QED
  BY <1>5, <1>6, <1>7, <1>8, <1>9 DEF MemberInv

\* Every step of the service keeps the invariant.
LEMMA HandlerMember == ASSUME TypeInv, MemberInv, NEW s \in Slots, Handler(s) \/ Fault(s) PROVE MemberInv'
<1> DEFINE o == call[s].org
<1>0. /\ call[s].by \in Users /\ call[s].whom \in Users /\ call[s].role \in Roles /\ call[s].role # "owner"
      /\ call[s].step \in HandlerSteps \ {"count", "insert"} => o \in Orgs
  BY DEF TypeInv, TypeOK, OrgNamed, Call
<1>1. \A step \in Steps : GoTo(s, step) => Moved(s, step)
  BY GoToFact DEF TypeInv
<1>2. ASSUME NEW step \in Steps, Moved(s, step)
      PROVE  /\ \A t \in Slots : t # s => call'[t] = call[t]
             /\ step \in {"ok", "refused"} => call'[s].step \in {"idle", step}
             /\ step \notin {"ok", "refused"}
                  => /\ call'[s].step = step /\ call'[s].org = o /\ call'[s].kind = call[s].kind
                     /\ call'[s].whom = call[s].whom /\ call'[s].by = call[s].by
  <2>1. CASE step \in {"ok", "refused"} /\ call'[s] = Idle
    <3>1. call'[s].step = "idle"
      BY <2>1, IdleFact, Zenon
    <3> QED
      BY <1>2, <2>1, <3>1 DEF Moved
  <2>2. CASE ~(step \in {"ok", "refused"} /\ call'[s] = Idle)
    BY <1>2, <2>2 DEF Moved
  <2> QED
    BY <2>1, <2>2
<1>3. "ok" \in Steps /\ "refused" \in Steps /\ HandlerSteps \subseteq Steps /\ Allowed \subseteq HandlerSteps
  BY DEF Steps, HandlerSteps, Allowed
<1>4. GoTo(s, "refused") /\ ~At(s, "own") /\ UNCHANGED memberVars => MemberInv'
  <2> SUFFICES ASSUME GoTo(s, "refused"), ~At(s, "own"), UNCHANGED memberVars PROVE MemberInv'
    OBVIOUS
  <2>1. /\ \A t \in Slots : t # s => call'[t] = call[t]
        /\ call'[s].step \in {"idle", "ok", "refused", "count", "allow"}
    BY <1>1, <1>2, <1>3
  <2> QED
    BY <2>1, QuietInv
<1>n. NoWrite => UNCHANGED memberVars
  BY DEF NoWrite, dbVars, memberVars
<1>5. CASE Allow(s)
  <2>1. o \in Orgs /\ At(s, "allow")
    BY <1>0, <1>5 DEF Allow, At, HandlerSteps
  <2>2. PICK step \in {"write", "erase", "seats", "target", "refused"} :
          /\ GoTo(s, step)
          /\ step # "refused" => member[o][call[s].by] # Out
          /\ step = "write" => call[s].kind = "update"
    BY <1>5 DEF Allow, Check, MayManage, Out
  <2>3. CASE step = "refused"
    BY <1>4, <1>5, <1>n, <2>1, <2>2, <2>3 DEF Allow, At
  <2>4. CASE step # "refused"
    <3>1. step \in Allowed /\ step \in Steps /\ step # "add" /\ step \notin {"ok", "refused"}
      BY <1>3, <2>2, <2>4 DEF Allowed
    <3>2. /\ \A t \in Slots : t # s => call'[t] = call[t]
          /\ call'[s].step = step /\ call'[s].org = o /\ call'[s].kind = call[s].kind
          /\ call'[s].whom = call[s].whom
      BY <1>1, <1>2, <2>2, <3>1
    <3> QED
      BY <1>0, <1>5, <1>n, <2>1, <2>2, <2>4, <3>1, <3>2, ForwardInv DEF Allow, At
  <2> QED
    BY <2>3, <2>4
<1>6. CASE CountOrgs(s) /\ At(s, "count")
  <2>1. (GoTo(s, "insert") /\ WithinQuota(call[s].by)) \/ GoTo(s, "refused")
    BY <1>6 DEF CountOrgs, Check
  <2>2. CASE GoTo(s, "refused")
    BY <1>4, <1>6, <1>n, <2>2 DEF CountOrgs, At
  <2>3. CASE GoTo(s, "insert") /\ WithinQuota(call[s].by)
    <3>1. "insert" \in Steps /\ "insert" \notin {"ok", "refused"}
      BY DEF Steps, HandlerSteps
    <3>2. /\ \A t \in Slots : t # s => call'[t] = call[t]
          /\ call'[s].step = "insert" /\ call'[s].by = call[s].by
      BY <1>1, <1>2, <2>3, <3>1
    <3> QED
      BY <1>6, <1>n, <2>3, <3>2, CountInv DEF CountOrgs
  <2> QED
    BY <2>1, <2>2, <2>3
<1>7. ASSUME NEW step \in {"add", "quota", "write"}, GoTo(s, step), NoWrite,
             call[s].step \in {"seats", "quota", "target"}, step \in {"add", "quota"} => call[s].step # "target",
             step = "add" => WithinQuota(call[s].whom),
             step = "write" => member[o][call[s].whom] # "owner"
      PROVE  MemberInv'
  <2>1. step \in Allowed /\ step \in Steps /\ step \notin {"ok", "refused"}
        /\ call[s].step \in Allowed /\ o \in Orgs
    BY <1>0, <1>3, <1>7 DEF Allowed
  <2>2. /\ \A t \in Slots : t # s => call'[t] = call[t]
        /\ call'[s].step = step /\ call'[s].org = o /\ call'[s].kind = call[s].kind
        /\ call'[s].whom = call[s].whom
    BY <1>1, <1>2, <1>7, <2>1
  <2>3. ~At(s, "allow")
    BY <1>7 DEF At
  <2> QED
    BY <1>0, <1>7, <1>n, <2>1, <2>2, <2>3, ForwardInv DEF WithinQuota
<1>8. CASE CountOrgs(s) /\ ~At(s, "count")
  BY <1>4, <1>7, <1>8, <1>n DEF CountOrgs, Check, At
<1>9. CASE CountMembers(s)
  BY <1>4, <1>7, <1>9, <1>n DEF CountMembers, Check, At
<1>10. CASE CheckTarget(s)
  BY <1>4, <1>7, <1>10, <1>n DEF CheckTarget, Check, At
<1>11. CASE InsertOrg(s)
  <2>1. CASE GoTo(s, "refused") /\ UNCHANGED <<org, creator>>
    BY <1>4, <1>11, <2>1 DEF InsertOrg, At, memberVars
  <2>2. ASSUME NEW p \in Orgs, org[p] = "none",
               org' = [org EXCEPT ![p] = "live"], creator' = [creator EXCEPT ![p] = call[s].by],
               call' = [call EXCEPT ![s].step = "own", ![s].org = p]
        PROVE  MemberInv'
    <3> DEFINE r == [call[s] EXCEPT !.step = "own", !.org = p]
    <3>0. call[s] \in Call /\ call \in [Slots -> Call]
      BY DEF TypeInv, TypeOK
    <3>1. call' = [call EXCEPT ![s] = r]
      BY <2>2, <3>0 DEF Call
    <3>2. r.step = "own" /\ r.org = p /\ r.by = call[s].by
      BY <3>0 DEF Call
    <3> HIDE DEF r
    <3>3. call'[s] = r /\ \A t \in Slots : t # s => call'[t] = call[t]
      BY <3>0, <3>1
    <3>4. call'[s].step = "own" /\ call'[s].org = p /\ call'[s].by = call[s].by
      BY <3>2, <3>3
    <3>5. At(s, "insert") /\ UNCHANGED <<member, raced, orphaned, botched>>
      BY <1>11 DEF InsertOrg
    <3> QED
      BY <2>2, <3>3, <3>4, <3>5, InsertInv
  <2> QED
    BY <1>11, <2>1, <2>2 DEF InsertOrg
<1>o. GoTo(s, "ok") => /\ \A t \in Slots : t # s => call'[t] = call[t]
                       /\ call'[s].step \in {"idle", "ok"}
  BY <1>1, <1>2, <1>3
<1>12. CASE AddMember(s) /\ At(s, "own")
  <2>1. o \in Orgs /\ Ownerless(o)
    BY <1>0, <1>12 DEF At, HandlerSteps, Ownerless, Of
  <2>2. member[o][call[s].by] = Out
    BY <1>0, <2>1 DEF MemberInv, Making, Closed
  <2>3. GoTo(s, "ok")
    BY <1>12, <2>2 DEF AddMember
  <2> QED
    BY <1>12, <1>o, <2>3, OwnInv
<1>13. CASE AddMember(s) /\ ~At(s, "own")
  <2> DEFINE u == call[s].whom
  <2>1. At(s, "add") /\ o \in Orgs /\ call[s].step \in Allowed
    BY <1>0, <1>13 DEF AddMember, At, HandlerSteps, Allowed
  <2>2. CASE member[o][u] # Out
    BY <1>4, <1>13, <2>2 DEF AddMember, memberVars
  <2>3. CASE member[o][u] = Out
    <3>1. /\ GoTo(s, "ok") /\ member' = [member EXCEPT ![o][u] = call[s].role]
          /\ raced' = IF Adding(u) # {s} THEN raced \cup {u} ELSE raced
          /\ UNCHANGED <<org, creator, orphaned, botched>>
      BY <1>13, <2>3 DEF AddMember
    <3>2. /\ \A t \in Slots : t # s => call'[t] = call[t]
          /\ call'[s].step \in {"idle", "ok"}
      BY <1>o, <3>1
    <3>3. ~Ownerless(o) /\ org[o] # "none"
      BY <2>1, AllowedFact
    <3>4. org[o] = "live" => u # creator[o]
      <4>1. org[o] = "live" => member[o][creator[o]] = "owner"
        BY <2>1, <3>3 DEF MemberInv, Owned, TypeInv, TypeOK
      <4> QED
        BY <2>3, <4>1 DEF Out
    <3>5. org[o] = "live" \/ o \in orphaned
      BY <2>1, <3>3 DEF MemberInv, Emptied, Of, At, TypeInv, TypeOK
    <3>6. s \in Adding(u)
      BY <2>1 DEF Adding
    <3>7. Counted'
      BY <1>0, <2>1, <3>1, <3>2, <3>6, RoomFact
    <3>8. call[s].role \in (Roles \cup {Out}) \ {"owner"}
      BY <1>0
    <3> QED
      BY <1>0, <2>1, <3>1, <3>2, <3>4, <3>5, <3>7, <3>8, ChangeInv
  <2> QED
    BY <2>2, <2>3
<1>14. CASE WriteMember(s)
  <2> DEFINE u == call[s].whom
  <2>1. /\ At(s, "write") /\ o \in Orgs /\ call[s].step \in Allowed /\ call[s].kind \in {"role", "remove"}
        /\ GoTo(s, "ok") /\ UNCHANGED <<org, creator, raced, orphaned, botched>>
    BY <1>0, <1>14 DEF WriteMember, At, HandlerSteps, Allowed
  <2>2. /\ \A t \in Slots : t # s => call'[t] = call[t]
        /\ call'[s].step \in {"idle", "ok"}
    BY <1>o, <2>1
  <2>3. CASE member[o][u] = Out
    <3>1. UNCHANGED memberVars /\ ~At(s, "own")
      BY <1>14, <2>1, <2>3 DEF WriteMember, memberVars, At
    <3>2. call'[s].step \in {"idle", "ok", "refused", "count", "allow"}
      BY <2>2
    <3> QED
      BY <2>2, <3>1, <3>2, QuietInv
  <2>4. CASE member[o][u] # Out
    <3> DEFINE r == IF call[s].kind = "role" THEN call[s].role ELSE Out
    <3>1. member' = [member EXCEPT ![o][u] = r]
      BY <1>14, <2>4 DEF WriteMember
    <3>2. r \in (Roles \cup {Out}) \ {"owner"}
      BY <1>0 DEF Out
    <3> HIDE DEF r
    <3>3. ~Ownerless(o) /\ org[o] # "none"
      BY <2>1, AllowedFact
    <3>4. org[o] = "live" => u # creator[o]
      BY <2>1, <3>3 DEF MemberInv, Owned, Of
    <3>5. org[o] = "live" \/ o \in orphaned
      BY <1>0, <2>1, <2>4, <3>3 DEF MemberInv, Emptied, TypeInv, TypeOK
    <3>6. \A p \in Orgs, w \in Users : member[p][w] = Out => member'[p][w] = Out
      BY <2>4, <3>1 DEF TypeInv, TypeOK
    <3>7. Counted'
      BY <2>1, <2>2, <3>6, FewerFact
    <3> QED
      BY <1>0, <2>1, <2>2, <3>1, <3>2, <3>4, <3>5, <3>7, ChangeInv
  <2> QED
    BY <2>3, <2>4
<1>15. CASE UpdateOrg(s)
  <2>1. PICK step \in {"ok", "refused"} : GoTo(s, step)
    BY <1>15 DEF UpdateOrg, Check
  <2>2. /\ \A t \in Slots : t # s => call'[t] = call[t]
        /\ call'[s].step \in {"idle", "ok", "refused", "count", "allow"}
    BY <1>1, <1>2, <1>3, <2>1
  <2>3. ~At(s, "own") /\ UNCHANGED memberVars
    BY <1>15, <1>n DEF UpdateOrg, At
  <2> QED
    BY <2>2, <2>3, QuietInv
<1>16. CASE EraseOrg(s)
  <2>1. o \in Orgs /\ GoTo(s, "ok")
    BY <1>0, <1>16 DEF EraseOrg, At, HandlerSteps
  <2> QED
    BY <1>16, <1>o, <2>1, EraseInv
<1>17. CASE Fault(s)
  <2>1. GoTo(s, "refused") /\ UNCHANGED <<dbVars, raced, orphaned>>
    BY <1>17 DEF Fault
  <2>2. CASE At(s, "own")
    <3>1. botched' = botched \cup {o}
      BY <1>17, <2>2 DEF Fault
    <3>2. /\ \A t \in Slots : t # s => call'[t] = call[t]
          /\ call'[s].step \in {"idle", "refused"}
      BY <1>1, <1>2, <1>3, <2>1
    <3> QED
      BY <2>1, <2>2, <3>1, <3>2, BotchInv DEF dbVars
  <2>3. CASE ~At(s, "own")
    BY <1>4, <1>17, <2>1, <2>3 DEF Fault, dbVars, memberVars
  <2> QED
    BY <2>2, <2>3
<1> QED
  BY <1>5, <1>6, <1>8, <1>9, <1>10, <1>11, <1>12, <1>13, <1>14, <1>15, <1>16, <1>17 DEF Handler

\* The browser's steps ask for changes and never make them.
LEMMA BrowserMember ==
  ASSUME MemberInv, UNCHANGED memberVars,
         \/ UNCHANGED call
         \/ \E s \in Slots : /\ \A t \in Slots : t # s => call'[t] = call[t]
                             /\ call'[s].step \in {"idle", "count", "allow"} /\ ~At(s, "own")
  PROVE  MemberInv'
<1>1. CASE UNCHANGED call
  <2>1. /\ \A o \in Orgs : UNCHANGED <<Ownerless(o), Closed(o)>>
        /\ \A u \in Users : UNCHANGED <<OrgsOf(u), Adding(u)>>
        /\ \A s \in Slots : UNCHANGED At(s, "own") /\ UNCHANGED At(s, "write")
    BY <1>1 DEF Ownerless, Closed, OrgsOf, Adding, Of, At, memberVars
  <2> QED
    BY <1>1, <2>1 DEF MemberInv, Unmade, Making, Makers, Owned, Emptied, Counted, Of, memberVars
<1> QED
  BY <1>1, QuietInv

\* Every step keeps the invariant.
LEMMA MemberNext == TypeInv /\ MemberInv /\ [Next]_vars => MemberInv'
<1> SUFFICES ASSUME TypeInv, MemberInv, [Next]_vars PROVE MemberInv'
  OBVIOUS
<1>1. CASE \E s \in Slots : Handler(s) \/ Fault(s)
  BY <1>1, HandlerMember
<1>2. ASSUME NEW f \in Forms, Clear(f), call[f].step \in {"ok", "refused"}, BrowserOnly PROVE MemberInv'
  <2>1. f \in Slots /\ ~At(f, "own") /\ UNCHANGED memberVars
    BY <1>2 DEF Slots, At, BrowserOnly, memberVars, dbVars
  <2>2. call'[f] = Idle /\ \A t \in Slots : t # f => call'[t] = call[t]
    BY <1>2, ClearFact DEF HandlerSteps
  <2>3. call'[f].step = "idle"
    BY <2>2, IdleFact, Zenon
  <2> QED
    BY <2>1, <2>2, <2>3, BrowserMember
<1>3. CASE Finish
  <2>1. PICK f \in Forms : Clear(f) /\ call[f].step \in {"ok", "refused"} /\ BrowserOnly
    BY <1>3 DEF Finish, FinishCreate, FinishUpdate, FinishDelete, FinishPeople, FinishRefused, At, Forms
  <2> QED
    BY <1>2, <2>1
<1>4. CASE Ask
  <2>0. PICK s, step, c : Asked(s, step, c)
    BY <1>4, AskFact
  <2> DEFINE r == [c EXCEPT !.step = step]
  <2>1. call' = [call EXCEPT ![s] = r] /\ UNCHANGED memberVars /\ ~At(s, "own")
    BY <2>0 DEF Asked, Submit, BrowserOnly, memberVars, dbVars, At
  <2>2. r.step = step
    BY <2>0 DEF Call, Asked
  <2> HIDE DEF r
  <2>3. call'[s] = r /\ \A t \in Slots : t # s => call'[t] = call[t]
    BY <2>0, <2>1 DEF TypeInv, TypeOK, Asked
  <2>4. call'[s].step \in {"idle", "count", "allow"}
    BY <2>0, <2>2, <2>3 DEF Asked
  <2> QED
    BY <2>0, <2>1, <2>3, <2>4, BrowserMember DEF Asked
<1>5. CASE \/ SendList \/ AnswerList \/ \E o \in Orgs : SendPeople(o) \/ AnswerPeople(o) \/ SelectOrg(o)
           \/ \E u \in Users : Load(u)
  BY <1>5, BrowserMember DEF SendList, AnswerList, SendPeople, AnswerPeople, SelectOrg, Load, BrowserOnly, dbVars, memberVars
<1>6. CASE UNCHANGED vars
  BY <1>6, BrowserMember DEF vars, dbVars, historyVars, memberVars
<1> QED
  BY <1>1, <1>3, <1>4, <1>5, <1>6 DEF Next, Ask, Open

\* Init establishes the invariant.
LEMMA MemberInit == Init => MemberInv
<1> SUFFICES ASSUME Init PROVE MemberInv
  OBVIOUS
<1>1. /\ 1 \in Orgs /\ First \in Users /\ org[1] = "live" /\ \A o \in Orgs : o # 1 => org[o] = "none"
      /\ \A o \in Orgs, u \in Users : member[o][u] = IF o = 1 /\ u = First THEN "owner" ELSE Out
      /\ creator[1] = First /\ botched = {} /\ raced = {}
  BY WorkspaceAssumption DEF Init, Orgs
<1>2. \A s \in Slots : call[s].step = "idle"
  <2>1. \A s \in Slots : call[s] = Idle
    BY DEF Init
  <2> QED
    BY <2>1, IdleFact, Zenon
<1>3. \A o \in Orgs : ~Ownerless(o) /\ (o # 1 => Closed(o))
  BY <1>1, <1>2 DEF Ownerless, Closed, Of, At, Allowed
<1>4. Unmade /\ Making /\ Makers /\ Emptied
  BY <1>1, <1>2, <1>3 DEF Unmade, Making, Makers, Emptied, At
<1>5. Owned
  BY <1>1, <1>2 DEF Owned, Of, At, Out
<1>6. Counted
  <2> SUFFICES ASSUME NEW u \in Users
               PROVE  Cardinality(OrgsOf(u)) <= MaxOrgsPerUser /\ Adding(u) = {}
    BY DEF Counted
  <2>1. Adding(u) = {}
    BY <1>2 DEF Adding, At
  <2>2. OrgsOf(u) \subseteq {1} /\ {1} \subseteq Orgs
    BY <1>1 DEF OrgsOf
  <2>3. Cardinality(OrgsOf(u)) <= Cardinality({1}) /\ Cardinality(OrgsOf(u)) \in Nat
    BY <2>2, OrgsFinite
  <2>4. Cardinality({1}) = 1
    BY FS_Singleton
  <2> QED
    BY <2>1, <2>3, <2>4, WorkspaceAssumption
<1> QED
  BY <1>4, <1>5, <1>6 DEF MemberInv

\* The invariant implies what the run checks.
LEMMA MemberSound == TypeInv /\ MemberInv => MembershipSound
<1> SUFFICES ASSUME TypeInv, MemberInv PROVE MembershipSound
  OBVIOUS
<1>1. OwnerHolds
  <2> SUFFICES ASSUME NEW o \in Orgs, org[o] = "live"
               PROVE  {u \in Users : member[o][u] = "owner"} =
                        IF o \in botched \/ \E s \in Slots : At(s, "own") /\ call[s].org = o
                        THEN {} ELSE {creator[o]}
    BY DEF OwnerHolds
  <2>1. CASE Ownerless(o)
    <3>1. \A u \in Users : member[o][u] # "owner"
      BY <2>1 DEF MemberInv, Making, Closed, Out
    <3>2. o \in botched \/ \E s \in Slots : At(s, "own") /\ call[s].org = o
      BY <2>1 DEF Ownerless, Of
    <3> QED
      BY <3>1, <3>2
  <2>2. CASE ~Ownerless(o)
    <3>1. creator[o] \in Users /\ \A u \in Users : member[o][u] = "owner" <=> u = creator[o]
      BY <2>2 DEF MemberInv, Owned, TypeInv, TypeOK
    <3>2. ~(o \in botched \/ \E s \in Slots : At(s, "own") /\ call[s].org = o)
      BY <2>2 DEF Ownerless, Of
    <3> QED
      BY <3>1, <3>2
  <2> QED
    BY <2>1, <2>2
<1>2. QuotaRaceOnly
  <2>1. \A u \in Users : Cardinality(OrgsOf(u)) \in Nat
    BY OrgsFinite
  <2> QED
    BY <2>1, WorkspaceAssumption DEF MemberInv, Counted, QuotaRaceOnly
<1>3. OrphanRaceOnly
  BY DEF MemberInv, Emptied, Unmade, Closed, OrphanRaceOnly, MembersOf, TypeInv, TypeOK
<1> QED
  BY <1>1, <1>2, <1>3 DEF MembershipSound, TypeInv

\* The tables of organizations and members are sound in every state.
THEOREM MembersAreSound == Spec => []MembershipSound
<1>1. Init => TypeInv /\ MemberInv
  BY TypeInit, MemberInit
<1>2. TypeInv /\ MemberInv /\ [Next]_vars => (TypeInv /\ MemberInv)'
  BY TypeNext, MemberNext
<1> QED
  BY <1>1, <1>2, MemberSound, PTL DEF Spec

\* A member list in the cache, or on its way to it, has what the user has changed
\* as long as he has stayed with the organization or has come back to it himself.
ShownInv ==
    /\ \A o \in Orgs : wrote[o] <= version[o]
    /\ active # 0 /\ ~bounced => /\ peopled[active].step = "fresh" => people[active] >= wrote[active]
                                 /\ peopled[active].step = "read" => peopled[active].data >= wrote[active]

ShownFor(o) == /\ peopled[o].step = "fresh" => people[o] >= wrote[o]
               /\ peopled[o].step = "read" => peopled[o].data >= wrote[o]

\* Versions are numbers.
LEMMA NumbersFact ==
  TypeInv => /\ \A o \in Orgs : wrote[o] \in Nat /\ version[o] \in Nat /\ people[o] \in Nat /\ peopled[o].data \in Nat
             /\ active # 0 => active \in Orgs
<1> SUFFICES ASSUME TypeInv
             PROVE  /\ \A o \in Orgs : /\ wrote[o] \in Nat /\ version[o] \in Nat /\ people[o] \in Nat
                                       /\ peopled[o].data \in Nat
                    /\ active # 0 => active \in Orgs
  OBVIOUS
<1>1. Versions \subseteq Nat /\ Unread \in Nat
  BY WorkspaceAssumption DEF Versions, Unread
<1>2. \A o \in Orgs : peopled[o] \in [step : {"stale", "read", "fresh", "failed"}, data : Versions]
  BY DEF TypeInv, TypeOK
<1>3. \A o \in Orgs : peopled[o].data \in Versions
  BY <1>2
<1>4. active # 0 => active \in Orgs
  BY WorkspaceAssumption DEF TypeInv, TypeOK, Orgs
<1>5. \A o \in Orgs : wrote[o] \in Versions /\ version[o] \in Versions /\ people[o] \in Versions \cup {Unread}
  BY DEF TypeInv, TypeOK
<1> QED
  BY <1>1, <1>3, <1>4, <1>5

\* Versions only grow.
LEMMA HandlerShown == ASSUME TypeInv, ShownInv, NEW s \in Slots, Handler(s) \/ Fault(s) PROVE ShownInv'
<1>1. version' = version \/ version' = Changed(s)
  BY DEF Handler, Allow, CountOrgs, InsertOrg, AddMember, CountMembers, CheckTarget, WriteMember, UpdateOrg,
         EraseOrg, Fault, NoWrite, dbVars
<1>2. \A o \in Orgs : version[o] \in Nat /\ version'[o] \in Nat /\ version[o] <= version'[o]
  BY <1>1, NumbersFact DEF Changed, TypeInv, TypeOK
<1>3. UNCHANGED <<peopled, people, active, bounced, wrote>>
  BY DEF Handler, Allow, CountOrgs, InsertOrg, AddMember, CountMembers, CheckTarget, WriteMember, UpdateOrg,
         EraseOrg, Fault, HandlerOnly, cacheVars, storeVars
<1> QED
  BY <1>2, <1>3, NumbersFact DEF ShownInv

\* The effect that changes the active organization is seen to have changed it.
LEMMA BounceFact ==
  ASSUME NEW l, NEW o, NEW r, SetActiveOrg(l, o, r)
  PROVE  bounced' \/ (active' = active /\ ~bounced)
  BY DEF SetActiveOrg

\* Every step keeps the relation between member lists and changes.
LEMMA ShownNext == TypeInv /\ ShownInv /\ [Next]_vars => ShownInv'
<1> SUFFICES ASSUME TypeInv, ShownInv, [Next]_vars PROVE ShownInv'
  OBVIOUS
<1>1. CASE \E s \in Slots : Handler(s) \/ Fault(s)
  BY <1>1, HandlerShown
<1>2. ASSUME UNCHANGED <<version, people, peopled, wrote>>,
             bounced' \/ (active' = active /\ ~bounced)
      PROVE  ShownInv'
  BY <1>2 DEF ShownInv
<1>3. ASSUME UNCHANGED <<version, people, peopled, wrote, active, bounced>> PROVE ShownInv'
  BY <1>3 DEF ShownInv
<1>4. CASE Ask
  <2>1. PICK s, step, c : Submit(s, step, c)
    BY <1>4, AskFact DEF Asked
  <2> QED
    BY <1>3, <2>1 DEF Submit, BrowserOnly, dbVars, cacheVars, storeVars
<1>5. CASE SendList
  BY <1>3, <1>5 DEF SendList, BrowserOnly, dbVars, storeVars
<1>6. CASE AnswerList
  <2>1. bounced' \/ (active' = active /\ ~bounced)
    BY <1>6, BounceFact DEF AnswerList
  <2> QED
    BY <1>2, <1>6, <2>1 DEF AnswerList, BrowserOnly, dbVars
<1>7. ASSUME NEW o \in Orgs, SendPeople(o) PROVE ShownInv'
  <2>1. /\ UNCHANGED <<version, people, active, bounced, wrote>> /\ o = active
        /\ peopled' = [peopled EXCEPT ![o] = IF member[o][me] = Out THEN [step |-> "failed", data |-> 0]
                                             ELSE [step |-> "read", data |-> version[o]]]
    BY <1>7 DEF SendPeople, BrowserOnly, dbVars, storeVars
  <2>2. peopled'[o].step = "failed" \/ (peopled'[o].step = "read" /\ peopled'[o].data = version[o])
    BY <2>1 DEF TypeInv, TypeOK
  <2> QED
    BY <1>7, <2>1, <2>2, NumbersFact DEF ShownInv
<1>8. ASSUME NEW o \in Orgs, AnswerPeople(o) PROVE ShownInv'
  <2>1. /\ UNCHANGED <<version, active, bounced, wrote>> /\ peopled[o].step = "read"
        /\ people' = [people EXCEPT ![o] = peopled[o].data]
        /\ peopled' = [peopled EXCEPT ![o] = [step |-> "fresh", data |-> 0]]
    BY <1>8 DEF AnswerPeople, BrowserOnly, dbVars, storeVars
  <2>2. /\ people'[o] = peopled[o].data /\ peopled'[o].step = "fresh"
        /\ \A p \in Orgs : p # o => people'[p] = people[p] /\ peopled'[p] = peopled[p]
    BY <2>1 DEF TypeInv, TypeOK
  <2> QED
    BY <2>1, <2>2, NumbersFact DEF ShownInv
<1>9. ASSUME NEW o \in Orgs, SelectOrg(o) PROVE ShownInv'
  <2>1. /\ UNCHANGED <<version, people, wrote>> /\ active' = o
        /\ peopled' = [peopled EXCEPT ![o] = StalePeople]
    BY <1>9 DEF SelectOrg, BrowserOnly, dbVars
  <2>2. peopled'[o].step = "stale"
    BY <2>1 DEF TypeInv, TypeOK, StalePeople
  <2> QED
    BY <2>1, <2>2 DEF ShownInv
<1>10. CASE FinishCreate \/ FinishUpdate \/ FinishDelete
  <2>1. (bounced' \/ (active' = active /\ ~bounced)) \/ UNCHANGED <<active, bounced>>
    BY <1>10, BounceFact DEF FinishCreate, FinishUpdate, FinishDelete, storeVars
  <2> QED
    BY <1>2, <1>3, <1>10, <2>1 DEF FinishCreate, FinishUpdate, FinishDelete, BrowserOnly, dbVars
<1>11. CASE \E f \in Forms : FinishRefused(f)
  BY <1>3, <1>11 DEF FinishRefused, BrowserOnly, dbVars, cacheVars, storeVars
<1>12. CASE FinishPeople
  <2> DEFINE c == call["people"]
             q == IF c.kind = "remove" THEN active ELSE c.org
  <2>1. /\ UNCHANGED <<version, people, active, bounced>>
        /\ peopled' = IF q = 0 THEN peopled ELSE [peopled EXCEPT ![q] = StalePeople]
        /\ wrote' = [wrote EXCEPT ![c.org] = version[c.org]]
    BY <1>12 DEF FinishPeople, BrowserOnly, dbVars, storeVars
  <2>2. \A o \in Orgs : /\ wrote'[o] = IF o = c.org THEN version[o] ELSE wrote[o]
                        /\ peopled'[o] = peopled[o] \/ peopled'[o] = StalePeople
                        /\ o = q /\ q # 0 => peopled'[o] = StalePeople
    BY <2>1 DEF TypeInv, TypeOK
  <2>3. StalePeople.step = "stale"
    BY DEF StalePeople
  <2>4. \A o \in Orgs : wrote'[o] <= version'[o]
    BY <2>1, <2>2, NumbersFact DEF ShownInv
  <2>5. CASE active = 0
    BY <2>1, <2>4, <2>5 DEF ShownInv
  <2>6. CASE active # 0 /\ (q = active \/ peopled'[active] = StalePeople)
    <3>1. active \in Orgs /\ peopled'[active].step = "stale"
      BY <2>2, <2>3, <2>6, NumbersFact, Zenon
    <3> QED
      BY <2>1, <2>4, <3>1 DEF ShownInv
  <2>7. CASE active # 0 /\ q # active /\ peopled'[active] # StalePeople
    <3>1. active \in Orgs /\ c.org # active
      BY <2>7, NumbersFact
    <3>2. wrote'[active] = wrote[active] /\ peopled'[active] = peopled[active]
      BY <2>2, <2>7, <3>1
    <3> QED
      BY <2>1, <2>4, <3>2 DEF ShownInv
  <2> QED
    BY <2>5, <2>6, <2>7
<1>13. ASSUME NEW u \in Users, Load(u) PROVE ShownInv'
  <2>1. /\ UNCHANGED <<version, active>> /\ wrote' = [o \in Orgs |-> 0]
        /\ peopled' = [o \in Orgs |-> StalePeople]
    BY <1>13 DEF Load, BrowserOnly, dbVars, storeVars
  <2>2. \A o \in Orgs : peopled'[o].step = "stale"
    BY <2>1 DEF StalePeople
  <2> QED
    BY <2>1, <2>2, NumbersFact DEF ShownInv
<1>14. CASE UNCHANGED vars
  BY <1>3, <1>14 DEF vars, dbVars, cacheVars, storeVars, historyVars
<1> QED
  BY <1>1, <1>4, <1>5, <1>6, <1>7, <1>8, <1>9, <1>10, <1>11, <1>12, <1>13, <1>14 DEF Next, Finish, Ask, Open

\* The members page has what the user has changed.
THEOREM ChangesAreShown == Spec => []OwnChangesShown
<1>1. Init => TypeInv /\ ShownInv
  BY TypeInit DEF Init, ShownInv
<1>2. TypeInv /\ ShownInv /\ [Next]_vars => (TypeInv /\ ShownInv)'
  BY TypeNext, ShownNext
<1>3. TypeInv /\ ShownInv => OwnChangesShown
  BY DEF ShownInv, OwnChangesShown
<1> QED
  BY <1>1, <1>2, <1>3, PTL DEF Spec
===============================================================================
