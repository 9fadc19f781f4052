---------------------------- MODULE SessionProofs -----------------------------
(***************************************************************************)
(* Proofs about Session, for any number of tabs, requests, token pairs and  *)
(* faults.                                                                  *)
(*                                                                          *)
(* SessionSound is not inductive.  Inv adds what the steps of RefreshToken  *)
(* and of the interceptor leave behind for each other: what a request can   *)
(* be in each of its steps (Shaped), that every pair named was made (Made), *)
(* that an access token is revoked with its session only (RevokedEnded),    *)
(* that a refresh token is revoked after its rotation was stored            *)
(* (DenyRotated, RotatedDenied) and the rotation kept while a request       *)
(* needs it (Kept), and that cookies that were revoked are about to be      *)
(* replaced (Awaited).  Single says whose the refresh call of a tab is.     *)
(*                                                                          *)
(* SignedOutForCause needs in addition that the pair of a second attempt    *)
(* is recent (Fresh): since the requests in flight were sent no clock has   *)
(* moved, so the access token they are given cannot have run out, and a     *)
(* second attempt is not refused.                                           *)
(***************************************************************************)
EXTENDS Session, FiniteSetTheorems, TLAPS

\* What a request can be in each of its steps.
Shaped(q) ==
    LET r == req[q] IN
    /\ r.step = "idle" => r = Idle
    /\ r.step \in {"auth", "cache", "validate", "wait"} => r.fresh = Keep
    /\ r.step \in {"cache", "validate", "store", "deny", "recheck", "revoke"} => r.pair # None /\ r.kind # "login"
    /\ r.step \in {"store", "deny", "recheck"} => r.fresh > None
    /\ r.step = "revoke" => r.kind = "logout"
    /\ r.kind = "login" => r.via = "middleware" /\ r.step \in {"auth", "ok", "failed"}
    /\ r.kind = "login" /\ r.step = "ok" => r.fresh > None
    /\ r.kind = "logout" => r.via = "middleware" /\ ~r.again /\ r.step # "wait"
    /\ r.via = "endpoint" => r.again /\ r.step \notin {"auth", "wait", "recheck", "revoke"}
    /\ r.via = "endpoint" /\ r.step = "ok" => r.fresh > None
    /\ r.fresh > None /\ r.kind # "login" => r.fresh > r.pair

\* Nothing names a pair that has not been made.
Made ==
    /\ jar <= issued
    /\ \A i \in Pairs : i \in accessExpired \cup deniedAccess \cup deniedRefresh \/ rotation[i] # None => i <= issued
    /\ \A i \in Pairs : rotation[i] # None => i < rotation[i] /\ rotation[i] <= issued
    /\ \A i \in Pairs : i <= issued => login[i] # 0 /\ login[i] <= logins
    /\ \A q \in Reqs : req[q].pair <= issued /\ req[q].fresh <= issued

Asking == {q \in Reqs : req[q].kind = "login" /\ req[q].step = "auth"}

\* Every sign-in that is asked for has room.
Budget == logins + Cardinality(Asking) <= MaxLogins

\* A tab's refresh call is the one its refreshPromise stands for.
Single == \A q \in Reqs : req[q].step # "idle" /\ req[q].tab # NoTab /\ req[q].via = "endpoint"
                          => refresher[req[q].tab] = q

Live(i) == i # None /\ login[i] \notin ended

\* An access token is revoked with its session only.
RevokedEnded == \A i \in deniedAccess : login[i] \in ended

\* Rotation and revocation of a refresh token go together, up to one step.
DenyRotated == \A q \in Reqs : req[q].step = "deny" /\ Live(req[q].pair) => rotation[req[q].pair] # None
RotatedDenied == \A i \in Pairs : rotation[i] # None
                    => i \in deniedRefresh \/ \E q \in Reqs : req[q].step = "deny" /\ req[q].pair = i

\* Requests that bring the successor of the pair they were sent with.
Brings(q) == req[q].fresh > None /\ req[q].kind # "login"
Replaced(i) == \E q \in Reqs : Brings(q) /\ req[q].pair = i

\* The rotation of a pair is kept as long as a request needs it.
Kept == \A q \in Reqs : /\ Brings(q) \/ (req[q].via = "endpoint" /\ ~lost /\ ~stale)
                        /\ Live(req[q].pair) /\ req[q].pair \in deniedRefresh
                        => rotation[req[q].pair] # None

\* Cookies that were revoked are about to be replaced.
Awaited == ~lost /\ ~stale /\ Live(jar) /\ jar \in deniedRefresh => Replaced(jar)

\* The pairs made since requests were last all answered have not expired, and
\* what is in use leads to no others.
Young(m, i) == i = None \/ i > m \/ rotation[i] = None \/ rotation[i] > m
Recent(m) == /\ \A i \in accessExpired : i <= m
             /\ m <= issued
             /\ Young(m, jar)
             /\ \A q \in Reqs : Young(m, req[q].pair) /\ (req[q].fresh > None => req[q].fresh > m)
             /\ \A q \in Reqs : req[q].again /\ req[q].via = "middleware" /\ req[q].step # "wait"
                    => req[q].pair > m /\ req[q].step \in {"auth", "ok", "failed"}
Fresh == ended = {} /\ ~lost /\ ~stale => \E m \in 0..MaxPairs : Recent(m)

CoreType ==
    /\ issued \in 0..MaxPairs /\ logins \in 0..MaxLogins
    /\ login \in [Pairs -> 0..MaxLogins]
    /\ accessExpired \subseteq Pairs /\ deniedAccess \subseteq Pairs /\ deniedRefresh \subseteq Pairs
    /\ rotation \in [Pairs -> 0..MaxPairs]
    /\ jar \in 0..MaxPairs
    /\ req \in [Reqs -> Request]
    /\ ended \subseteq 1..MaxLogins
    /\ lost \in BOOLEAN /\ stale \in BOOLEAN

TabType ==
    /\ page \in [Tabs -> {"public", "protected"}]
    /\ signedIn \in [Tabs -> BOOLEAN] /\ ready \in [Tabs -> BOOLEAN] /\ boot \in [Tabs -> Boots]
    /\ refresher \in [Tabs -> Reqs \cup {NoTab}]
    /\ stored \in BOOLEAN
    /\ faults \in 0..MaxFaults

\* What holds of the server, the cookies and the requests.
Core == /\ CoreType
        /\ \A q \in Reqs : Shaped(q)
        /\ Made /\ RevokedEnded /\ DenyRotated /\ RotatedDenied /\ Kept /\ Awaited /\ Fresh

Inv == TabType /\ Core /\ Budget /\ Single

-----------------------------------------------------------------------------
\* The constants as the assumption gives them.
LEMMA BoundsFact == /\ MaxPairs \in Nat /\ MaxExpired \in Nat /\ MaxLogins \in Nat /\ MaxFaults \in Nat
                    /\ NoTab \notin Tabs /\ NoTab \notin Reqs /\ IsFiniteSet(Reqs)
  BY SessionAssumption

\* One request becomes r, and every other stays.
Put(q, r) == /\ req' \in [Reqs -> Request]
             /\ req'[q] = r
             /\ \A p \in Reqs : p # q => req'[p] = req[p]

\* One request is in another step, with fresh for its cookies.
Turn(q, s, f) ==
    /\ req' \in [Reqs -> Request]
    /\ req'[q].step = s /\ req'[q].fresh = f
    /\ req'[q].kind = req[q].kind /\ req'[q].via = req[q].via /\ req'[q].tab = req[q].tab
    /\ req'[q].pair = req[q].pair /\ req'[q].again = req[q].again
    /\ \A p \in Reqs : p # q => req'[p] = req[p]

\* The fields of a request.
LEMMA FieldFact ==
  ASSUME NEW r \in Request
  PROVE  /\ r.step \in Steps /\ r.kind \in Kinds /\ r.via \in {"middleware", "endpoint"}
         /\ r.tab \in Tabs \cup {NoTab} /\ r.pair \in 0..MaxPairs /\ r.fresh \in -1..MaxPairs /\ r.again \in BOOLEAN
  BY DEF Request

\* A request that is sent, and none.
LEMMA SentFields ==
  \A kind, t, c : /\ Sent(kind, t, c).step = "auth" /\ Sent(kind, t, c).kind = kind /\ Sent(kind, t, c).via = "middleware"
                  /\ Sent(kind, t, c).tab = t /\ Sent(kind, t, c).pair = c /\ Sent(kind, t, c).fresh = Keep
  BY DEF Sent, Idle

LEMMA SentFirst == \A kind, t, c : Sent(kind, t, c).again = FALSE
  BY DEF Sent, Idle

LEMMA SentType == ASSUME NEW kind \in Kinds, NEW t \in Tabs \cup {NoTab}, NEW c \in 0..MaxPairs
                  PROVE  Sent(kind, t, c) \in Request
<1>1. /\ Idle \in Request /\ Idle.via = "middleware" /\ Idle.fresh = Keep /\ Idle.again = FALSE
  BY BoundsFact DEF Request, Idle, Steps, ServerSteps, AnswerSteps, Kinds, None, Keep
<1>2. "auth" \in Steps
  BY DEF Steps, ServerSteps
<1> HIDE DEF Idle
<1> QED
  BY <1>1, <1>2 DEF Sent, Request

LEMMA IdleFact == /\ Idle \in Request
                  /\ Idle.step = "idle" /\ Idle.kind = "api" /\ Idle.via = "middleware" /\ Idle.tab = NoTab
                  /\ Idle.pair = None /\ Idle.fresh = Keep /\ Idle.again = FALSE
  BY BoundsFact DEF Request, Idle, Steps, ServerSteps, AnswerSteps, Kinds, None, Keep

LEMMA PutFact == ASSUME CoreType, NEW q \in Reqs, NEW r \in Request, req' = [req EXCEPT ![q] = r]
                 PROVE  Put(q, r)
  BY DEF CoreType, Put

LEMMA TurnFact == ASSUME CoreType, NEW q \in Reqs, NEW s \in Steps, NEW f \in -1..MaxPairs,
                         req' = [req EXCEPT ![q].step = s, ![q].fresh = f]
                  PROVE  Turn(q, s, f)
<1>1. req[q] \in Request
  BY DEF CoreType
<1> DEFINE r == [req[q] EXCEPT !.step = s, !.fresh = f]
<1>2. r \in Request /\ r.step = s /\ r.fresh = f /\ r.kind = req[q].kind /\ r.via = req[q].via /\ r.tab = req[q].tab
      /\ r.pair = req[q].pair /\ r.again = req[q].again
  BY <1>1 DEF Request
<1>3. req' = [req EXCEPT ![q] = r]
  BY <1>1 DEF CoreType, Request
<1> HIDE DEF r
<1> QED
  BY <1>2, <1>3 DEF CoreType, Turn

LEMMA StepFact == ASSUME CoreType, NEW q \in Reqs, NEW s \in Steps, req' = [req EXCEPT ![q].step = s]
                  PROVE  Turn(q, s, req[q].fresh)
<1>1. req[q] \in Request
  BY DEF CoreType
<1> DEFINE r == [req[q] EXCEPT !.step = s]
<1>2. r \in Request /\ r.step = s /\ r.fresh = req[q].fresh /\ r.kind = req[q].kind /\ r.via = req[q].via
      /\ r.tab = req[q].tab /\ r.pair = req[q].pair /\ r.again = req[q].again
  BY <1>1 DEF Request
<1>3. req' = [req EXCEPT ![q] = r]
  BY <1>1 DEF CoreType, Request
<1> HIDE DEF r
<1> QED
  BY <1>2, <1>3 DEF CoreType, Turn

-----------------------------------------------------------------------------
(***************************************************************************)
(* Steps of the browser                                                     *)
(***************************************************************************)
\* The server does nothing.
Rest == UNCHANGED <<issued, login, logins, accessExpired, deniedAccess, deniedRefresh, rotation, ended>>

\* What becomes of the cookies when request q is over.
Taken(q) ==
    /\ jar' \in 0..MaxPairs /\ jar' <= issued
    /\ lost' \in BOOLEAN /\ stale' \in BOOLEAN
    /\ ~lost' /\ ~stale' => ~lost /\ ~stale
    /\ ~lost' /\ ~stale' =>
          \/ jar' = jar /\ req[q].fresh <= None
          \/ jar' = None
          \/ jar' = req[q].fresh /\ req[q].fresh > None /\ (Live(jar') => jar' \notin deniedRefresh)

\* A request that is idle or waits has brought nothing.
LEMMA IdleTaken == ASSUME Core, NEW q \in Reqs, req[q].step \in {"idle", "wait"}, UNCHANGED <<jar, lost, stale>>
                   PROVE  Taken(q) /\ req[q].fresh = Keep
<1>1. req[q].fresh = Keep
  BY IdleFact DEF Core, Shaped
<1> QED
  BY <1>1 DEF Core, CoreType, Made, Taken, Keep, None

LEMMA CookiesTaken == ASSUME Core, NEW q \in Reqs, TakeCookies(q) PROVE Taken(q)
<1>1. req[q] \in Request /\ req[q].fresh <= issued /\ jar <= issued /\ issued \in 0..MaxPairs /\ jar \in 0..MaxPairs
      /\ lost \in BOOLEAN /\ stale \in BOOLEAN
  BY DEF Core, CoreType, Made
<1>2. req[q].fresh \in -1..MaxPairs
  BY <1>1, FieldFact
<1> USE DEF Keep, None
<1>3. jar' = IF req[q].step = "failed" \/ req[q].fresh = -1 THEN jar ELSE req[q].fresh
  BY DEF TakeCookies, JarAfter
<1>4. jar' \in 0..MaxPairs /\ jar' <= issued
  BY <1>1, <1>2, <1>3, BoundsFact
<1>5. lost' \in BOOLEAN /\ stale' \in BOOLEAN
  BY DEF TakeCookies
<1>6. ~lost' /\ ~stale' => ~lost /\ ~stale
  BY DEF TakeCookies
<1>7. ~lost' /\ ~stale' =>
          \/ jar' = jar /\ req[q].fresh <= None
          \/ jar' = None
          \/ jar' = req[q].fresh /\ req[q].fresh > None /\ (Live(jar') => jar' \notin deniedRefresh)
  <2> SUFFICES ASSUME ~lost', ~stale' PROVE
          \/ jar' = jar /\ req[q].fresh <= None
          \/ jar' = None
          \/ jar' = req[q].fresh /\ req[q].fresh > None /\ (Live(jar') => jar' \notin deniedRefresh)
    OBVIOUS
  <2>1. CASE req[q].step = "failed"
    <3>1. ~CarriesCookies(q)
      BY <2>1 DEF TakeCookies
    <3>2. jar' = jar /\ req[q].fresh <= None
      BY <2>1, <3>1, <1>2, <1>3 DEF CarriesCookies
    <3> QED
      BY <3>2
  <2>2. CASE req[q].step # "failed" /\ req[q].fresh = -1
    BY <2>2, <1>3
  <2>3. CASE req[q].step # "failed" /\ req[q].fresh = 0
    BY <2>3, <1>3
  <2>4. CASE req[q].step # "failed" /\ req[q].fresh > 0
    <3>1. jar' = req[q].fresh
      BY <2>4, <1>2, <1>3
    <3>2. ~Outdated(q)
      BY <2>4 DEF TakeCookies
    <3> QED
      BY <3>1, <3>2, <2>4 DEF Outdated, Live
  <2> QED
    BY <2>1, <2>2, <2>3, <2>4, <1>2
<1> QED
  BY <1>4, <1>5, <1>6, <1>7 DEF Taken

\* What is in the cookies leads to pairs that have not expired.
LEMMA TakenYoung == ASSUME Core, NEW q \in Reqs, Taken(q), ~lost', ~stale', NEW m \in 0..MaxPairs, Recent(m)
                    PROVE  Young(m, jar')
  BY DEF Taken, Recent, Young

\* The cookies of a session can be used.
LEMMA JarHolds == Core => JarUsable
  BY DEF Core, Awaited, Replaced, Kept, JarUsable, Live, None

\* A request is as it was, but that its page may be gone, or the query it was for.
Like(r, s) == /\ s.step = r.step /\ s.via = r.via /\ s.pair = r.pair /\ s.fresh = r.fresh /\ s.again = r.again
              /\ s.kind = r.kind \/ (r.kind = "boot" /\ s.kind = "dropped")
              /\ s.tab = r.tab \/ s.tab = NoTab
              /\ r.step = "idle" => s = r
Alike(p) == Like(req[p], req'[p])

\* A request has been made with the cookies of the moment or with none: it
\* repeats an earlier one only with the pair that q has brought.
Anew(q, p) == /\ req'[p].fresh = Keep /\ (req'[p].pair = None \/ req'[p].pair = jar')
              /\ Shaped(p)' /\ req'[p].step # "deny"
              /\ req'[p].again /\ req'[p].via = "middleware" /\ req'[p].step # "wait" /\ ended = {} /\ ~lost' /\ ~stale'
                    => req'[p].step = "auth" /\ req'[p].pair = req[q].fresh /\ req[q].fresh > None

\* The answer of q is taken; what others bring or are about to revoke stays.
Browser(q) == /\ req' \in [Reqs -> Request]
              /\ Taken(q) /\ Rest
              /\ Anew(q, q) /\ req[q].step # "deny"
              /\ \A p \in Reqs : p # q => Alike(p) \/ (Anew(q, p) /\ req[p].fresh = Keep /\ req[p].step # "deny")

LEMMA BrowserCore == ASSUME Core, NEW q \in Reqs, Browser(q) PROVE Core'
<1>1. \A p \in Reqs : Alike(p) \/ Anew(q, p)
  BY DEF Browser
<1>2. \A p \in Reqs : Alike(p) \/ p = q \/ (req[p].fresh = Keep /\ req[p].step # "deny")
  BY DEF Browser
<1>3. Taken(q) /\ Rest
  BY DEF Browser
<1> USE DEF Keep, None
<1>4. CoreType'
  BY <1>3 DEF Browser, Core, CoreType, Rest, Taken
<1>5. \A p \in Reqs : Shaped(p)'
  <2> TAKE p \in Reqs
  <2>1. CASE Alike(p)
    BY <2>1 DEF Alike, Like, Core, Shaped
  <2>2. CASE Anew(q, p)
    BY <2>2 DEF Anew
  <2> QED
    BY <1>1, <2>1, <2>2
<1>6. Made'
  <2>1. \A p \in Reqs : req'[p].pair <= issued /\ req'[p].fresh <= issued
    BY <1>1, <1>3, BoundsFact DEF Core, CoreType, Made, Alike, Like, Anew, Taken
  <2> QED
    BY <2>1, <1>3 DEF Core, Made, Rest, Taken
<1>7. RevokedEnded' /\ DenyRotated'
  BY <1>1, <1>3 DEF Core, RevokedEnded, DenyRotated, Rest, Live, Alike, Like, Anew
<1>8. RotatedDenied'
  <2>1. \A p \in Reqs : req[p].step = "deny" => req'[p].step = "deny" /\ req'[p].pair = req[p].pair
    BY <1>2 DEF Browser, Alike, Like
  <2> QED
    BY <2>1, <1>3 DEF Core, RotatedDenied, Rest
<1>9. Kept'
  <2> SUFFICES ASSUME NEW p \in Reqs, Brings(p)' \/ (req'[p].via = "endpoint" /\ ~lost' /\ ~stale'),
                      Live(req[p].pair)', req'[p].pair \in deniedRefresh
               PROVE  rotation[req'[p].pair] # None
    BY <1>3 DEF Kept, Rest, Live, Brings
  <2>1. CASE Alike(p)
    BY <2>1, <1>3 DEF Alike, Like, Core, Kept, Brings, Live, Rest, Taken
  <2>2. CASE Anew(q, p)
    <3>1. ~lost' /\ ~stale' /\ req'[p].pair = jar' /\ Live(jar')
      BY <2>2, <1>3 DEF Anew, Brings, Live, Rest
    <3>2. CASE jar' = jar
      BY <3>1, <3>2, <1>3, JarHolds DEF Taken, JarUsable, Live
    <3>3. CASE jar' = req[q].fresh /\ jar' \notin deniedRefresh
      BY <3>1, <3>3
    <3> QED
      BY <3>1, <3>2, <3>3, <1>3 DEF Taken, Live
  <2> QED
    BY <1>1, <2>1, <2>2
<1>10. Awaited'
  <2> SUFFICES ASSUME ~lost', ~stale', Live(jar'), jar' \in deniedRefresh PROVE Replaced(jar)'
    BY <1>3 DEF Awaited, Rest, Live
  <2>1. jar' = jar /\ req[q].fresh <= None /\ ~lost /\ ~stale
    BY <1>3 DEF Taken, Live
  <2>2. PICK p \in Reqs : Brings(p) /\ req[p].pair = jar
    BY <2>1 DEF Core, Awaited, Replaced
  <2>3. p # q /\ Alike(p)
    BY <2>1, <2>2, <1>2, FieldFact DEF Brings, Core, CoreType, Browser
  <2> QED
    BY <2>1, <2>2, <2>3 DEF Replaced, Brings, Alike, Like
<1>11. Fresh'
  <2> SUFFICES ASSUME ended = {}, ~lost', ~stale' PROVE \E m \in 0..MaxPairs : Recent(m)'
    BY <1>3 DEF Fresh, Rest
  <2>1. PICK m \in 0..MaxPairs : Recent(m)
    BY <1>3 DEF Core, Fresh, Taken
  <2>2. Young(m, jar')
    BY <2>1, <1>3, TakenYoung
  <2>3. \A p \in Reqs : Young(m, req'[p].pair) /\ (req'[p].fresh > None => req'[p].fresh > m)
    BY <1>1, <2>1, <2>2 DEF Alike, Like, Anew, Recent, Young
  <2>4. \A p \in Reqs : req'[p].again /\ req'[p].via = "middleware" /\ req'[p].step # "wait"
                    => req'[p].pair > m /\ req'[p].step \in {"auth", "ok", "failed"}
    <3> TAKE p \in Reqs
    <3>1. CASE Alike(p)
      BY <3>1, <2>1 DEF Alike, Like, Recent
    <3>2. CASE Anew(q, p)
      BY <3>2, <2>1 DEF Anew, Recent
    <3> QED
      BY <1>1, <3>1, <3>2
  <2>5. Recent(m)'
    BY <2>1, <2>2, <2>3, <2>4, <1>3 DEF Recent, Young, Rest
  <2> QED
    BY <2>5
<1> QED
  BY <1>4, <1>5, <1>6, <1>7, <1>8, <1>9, <1>10, <1>11 DEF Core

\* Nothing but the pages of requests changes.
LEMMA AlikeCore == ASSUME Core, UNCHANGED <<jar, lost, stale>>, Rest,
                          req' \in [Reqs -> Request], \A p \in Reqs : Alike(p)
                   PROVE  Core'
<1> USE DEF Alike, Like
<1>1. CoreType' /\ \A p \in Reqs : Shaped(p)'
  BY DEF Core, CoreType, Shaped, Rest
<1>2. Made' /\ RevokedEnded' /\ DenyRotated' /\ RotatedDenied'
  BY DEF Core, Made, RevokedEnded, DenyRotated, RotatedDenied, Live, Rest
<1>3. Kept' /\ Awaited'
  BY DEF Core, Kept, Awaited, Replaced, Brings, Live, Rest
<1>4. Fresh'
  BY DEF Core, Fresh, Recent, Young, Rest
<1> QED
  BY <1>1, <1>2, <1>3, <1>4 DEF Core

LEMMA SendBrowser ==
  ASSUME Core, NEW q \in Reqs, NEW kind \in Kinds, NEW t \in Tabs, Taken(q), Rest, req[q].step # "deny",
         req' = [req EXCEPT ![q] = Sent(kind, t, jar')]
  PROVE  Browser(q)
<1>1. jar' \in 0..MaxPairs
  BY DEF Taken
<1>2. Put(q, Sent(kind, t, jar'))
  BY <1>1, SentType, PutFact DEF Core
<1>3. Anew(q, q)
  BY <1>2, SentFields, SentFirst DEF Put, Anew, Shaped, Keep, None
<1>4. \A p \in Reqs : p # q => Alike(p)
  BY <1>2 DEF Put, Alike, Like
<1> QED
  BY <1>2, <1>3, <1>4 DEF Browser, Put

LEMMA IdleAnew == ASSUME NEW q, NEW p, req'[p] = Idle PROVE Anew(q, p)
  BY IdleFact DEF Anew, Shaped, Keep, None

LEMMA CloseBrowser ==
  ASSUME Core, NEW q \in Reqs, Taken(q), Rest, req[q].step # "deny", req' = [req EXCEPT ![q] = Idle]
  PROVE  Browser(q)
<1>2. Put(q, Idle)
  BY IdleFact, PutFact DEF Core
<1>3. Anew(q, q)
  BY <1>2, IdleAnew DEF Put
<1>4. \A p \in Reqs : p # q => Alike(p)
  BY <1>2 DEF Put, Alike, Like
<1> QED
  BY <1>2, <1>3, <1>4 DEF Browser, Put

\* The requests of a page that goes away.
LEMMA AbortFact ==
  ASSUME CoreType, NEW t \in Tabs
  PROVE  /\ Abort(t, req) \in [Reqs -> Request]
         /\ \A p \in Reqs : \/ req[p].step = "wait" /\ Abort(t, req)[p] = Idle
                            \/ /\ req[p].step = "idle" => Abort(t, req)[p] = req[p]
                               /\ Abort(t, req)[p].step = req[p].step /\ Abort(t, req)[p].kind = req[p].kind
                               /\ Abort(t, req)[p].via = req[p].via /\ Abort(t, req)[p].pair = req[p].pair
                               /\ Abort(t, req)[p].fresh = req[p].fresh /\ Abort(t, req)[p].again = req[p].again
                               /\ Abort(t, req)[p].tab = req[p].tab \/ Abort(t, req)[p].tab = NoTab
<1>1. \A p \in Reqs : req[p] \in Request /\ [req[p] EXCEPT !.tab = NoTab] \in Request
  BY DEF CoreType, Request
<1>2. Abort(t, req) \in [Reqs -> Request]
  BY <1>1, IdleFact DEF Abort
<1>3. ASSUME NEW p \in Reqs
      PROVE  \/ req[p].step = "wait" /\ Abort(t, req)[p] = Idle
             \/ Abort(t, req)[p] = req[p]
             \/ req[p].step # "idle" /\ Abort(t, req)[p] = [req[p] EXCEPT !.tab = NoTab]
  BY DEF Abort
<1>5. ASSUME NEW p \in Reqs, req[p].step # "idle", Abort(t, req)[p] = [req[p] EXCEPT !.tab = NoTab]
      PROVE  /\ Abort(t, req)[p].step = req[p].step /\ Abort(t, req)[p].kind = req[p].kind
             /\ Abort(t, req)[p].via = req[p].via /\ Abort(t, req)[p].pair = req[p].pair
             /\ Abort(t, req)[p].fresh = req[p].fresh /\ Abort(t, req)[p].again = req[p].again
             /\ Abort(t, req)[p].tab = NoTab
  <2> DEFINE r == req[p]
  <2>1. r \in Request
    BY <1>1
  <2>2. Abort(t, req)[p] = [r EXCEPT !.tab = NoTab]
    BY <1>5
  <2> HIDE DEF r
  <2>3. /\ Abort(t, req)[p].step = r.step /\ Abort(t, req)[p].kind = r.kind
        /\ Abort(t, req)[p].via = r.via /\ Abort(t, req)[p].pair = r.pair
        /\ Abort(t, req)[p].fresh = r.fresh /\ Abort(t, req)[p].again = r.again
        /\ Abort(t, req)[p].tab = NoTab
    BY <2>1, <2>2 DEF Request
  <2> QED
    BY <2>3 DEF r
<1> QED
  BY <1>2, <1>3, <1>5

\* The fetches of useAuth's query whose answers nobody takes.
LEMMA DropFact ==
  ASSUME NEW t \in Tabs, NEW reqs \in [Reqs -> Request]
  PROVE  /\ Drop(t, reqs) \in [Reqs -> Request]
         /\ \A p \in Reqs : /\ Drop(t, reqs)[p].tab = reqs[p].tab
                            /\ (reqs[p].step = "idle" => reqs[p] = Idle) => Like(reqs[p], Drop(t, reqs)[p])
<1> DEFINE drop(r) == [r EXCEPT !.kind = "dropped"]
<1>1. \A r \in Request : /\ drop(r) \in Request /\ drop(r).kind = "dropped" /\ drop(r).step = r.step /\ drop(r).via = r.via
                         /\ drop(r).tab = r.tab /\ drop(r).pair = r.pair /\ drop(r).fresh = r.fresh
                         /\ drop(r).again = r.again
  BY DEF Request, Kinds
<1>2. Drop(t, reqs) = [p \in Reqs |-> IF reqs[p].tab = t /\ reqs[p].kind = "boot" THEN drop(reqs[p]) ELSE reqs[p]]
  BY DEF Drop
<1> HIDE DEF drop
<1>3. Drop(t, reqs) \in [Reqs -> Request]
  BY <1>1, <1>2
<1>4. ASSUME NEW p \in Reqs
      PROVE  /\ Drop(t, reqs)[p].tab = reqs[p].tab
             /\ (reqs[p].step = "idle" => reqs[p] = Idle) => Like(reqs[p], Drop(t, reqs)[p])
  <2>1. CASE reqs[p].tab = t /\ reqs[p].kind = "boot"
    <3>1. Drop(t, reqs)[p] = drop(reqs[p]) /\ reqs[p] # Idle
      BY <1>2, <2>1, IdleFact
    <3> QED
      BY <1>1, <2>1, <3>1 DEF Like
  <2>2. CASE ~(reqs[p].tab = t /\ reqs[p].kind = "boot")
    BY <1>2, <2>2 DEF Like
  <2> QED
    BY <2>1, <2>2
<1> QED
  BY <1>3, <1>4

\* The answer of q is taken by useAuth's query, by a form or by the page: q is
\* over, or the query is fetched in its place.
Taker(q) == ReceiveApi(q) \/ ReceiveSaved(q) \/ ReceiveBoot(q) \/ ReceiveProfile(q) \/ ReceiveLogout(q)

LEMMA TakerFact ==
  ASSUME Core, NEW q \in Reqs, Taker(q)
  PROVE  /\ Taken(q) /\ Rest /\ UNCHANGED <<logins, refresher>> /\ Answered(q) /\ req[q].tab \in Tabs
         /\ req' \in [Reqs -> Request]
         /\ req'[q] = Idle \/ req'[q] = Sent("boot", req[q].tab, jar')
         /\ \A p \in Reqs : p # q => Alike(p) /\ (req'[p].tab = req[p].tab)
<1> DEFINE t == req[q].tab
           s == Sent("boot", t, jar')
<1>1. Final(q) /\ TakeCookies(q) /\ UNCHANGED <<serverVars, refresher, ended>>
  BY DEF Taker, ReceiveApi, ReceiveSaved, ReceiveBoot, ReceiveProfile, ReceiveLogout, Close, CloseAndClear
<1>2. t \in Tabs /\ Answered(q)
  BY <1>1 DEF Final, Answered, AnswerSteps
<1>3. Taken(q) /\ Rest /\ jar' \in 0..MaxPairs
  BY <1>1, CookiesTaken DEF Rest, serverVars, Taken
<1>4. s \in Request
  BY <1>2, <1>3, SentType DEF Kinds
<1>5. \/ req' = [req EXCEPT ![q] = Idle]
      \/ req' = [Drop(t, req) EXCEPT ![q] = Idle]
      \/ req' = [Drop(t, req) EXCEPT ![q] = s]
  BY DEF Taker, ReceiveApi, ReceiveSaved, ReceiveBoot, ReceiveProfile, ReceiveLogout, Close, CloseAndClear, Cleared, Fetch
<1> HIDE DEF s, t
<1>6. req \in [Reqs -> Request] /\ \A p \in Reqs : req[p].step = "idle" => req[p] = Idle
  BY DEF Core, CoreType, Shaped
<1>7. /\ Drop(t, req) \in [Reqs -> Request]
      /\ \A p \in Reqs : Like(req[p], Drop(t, req)[p]) /\ (Drop(t, req)[p].tab = req[p].tab)
  BY <1>2, <1>6, DropFact
<1>8. \A p \in Reqs : Like(req[p], req[p])
  BY DEF Like
<1>9. /\ req' \in [Reqs -> Request] /\ (req'[q] = Idle \/ req'[q] = s)
      /\ \A p \in Reqs : p # q => Like(req[p], req'[p]) /\ (req'[p].tab = req[p].tab)
  BY <1>4, <1>5, <1>6, <1>7, <1>8, IdleFact
<1> QED
  BY <1>1, <1>2, <1>3, <1>9 DEF Alike, s, t, serverVars

LEMMA TakerCore == ASSUME Core, NEW q \in Reqs, Taker(q) PROVE Core'
<1>1. /\ Taken(q) /\ Rest /\ Answered(q) /\ req' \in [Reqs -> Request]
      /\ req'[q] = Idle \/ req'[q] = Sent("boot", req[q].tab, jar')
      /\ \A p \in Reqs : p # q => Alike(p)
  BY TakerFact
<1>2. Anew(q, q)
  BY <1>1, IdleAnew, SentFields, SentFirst DEF Anew, Shaped, Keep, None
<1> QED
  BY <1>1, <1>2, BrowserCore DEF Browser, Answered, AnswerSteps

\* A step that frees a request, or that sends one, is a step of the browser.
LEMMA SendStep == ASSUME Core, NEW q \in Reqs, NEW kind \in Kinds, NEW t \in Tabs, req[q].step = "idle",
                         UNCHANGED <<jar, lost, stale>>, Rest, req' = [req EXCEPT ![q] = Sent(kind, t, jar)]
                  PROVE  Core'
  BY IdleTaken, SendBrowser, BrowserCore

LEMMA CloseStep == ASSUME Core, NEW q \in Reqs, Answered(q), Taken(q), Rest, req' = [req EXCEPT ![q] = Idle]
                   PROVE  Core'
  BY CloseBrowser, BrowserCore DEF Answered, AnswerSteps

LEMMA AbortStep == ASSUME Core, NEW t \in Tabs, UNCHANGED <<jar, lost, stale>>, Rest, req' = Abort(t, req)
                   PROVE  Core'
<1>1. /\ req' \in [Reqs -> Request]
      /\ \A p \in Reqs : Alike(p) \/ (req[p].step = "wait" /\ req'[p] = Idle)
  BY AbortFact DEF Core, Alike, Like
<1>2. CASE \A p \in Reqs : Alike(p)
  BY <1>1, <1>2, AlikeCore
<1>3. CASE \E p \in Reqs : ~Alike(p)
  <2>1. PICK q \in Reqs : req[q].step = "wait" /\ req'[q] = Idle
    BY <1>1, <1>3
  <2>2. \A p \in Reqs : req[p].step = "wait" => req[p].fresh = Keep
    BY DEF Core, Shaped
  <2>3. Taken(q)
    BY <2>1, IdleTaken
  <2>4. \A p \in Reqs : Alike(p) \/ (Anew(q, p) /\ req[p].fresh = Keep /\ req[p].step # "deny")
    BY <1>1, <2>2, IdleAnew
  <2>5. Anew(q, q)
    BY <2>1, IdleAnew
  <2>6. Browser(q)
    BY <1>1, <2>1, <2>3, <2>4, <2>5 DEF Browser
  <2> QED
    BY <2>6, BrowserCore
<1> QED
  BY <1>2, <1>3

\* A page is loaded with request q for its first fetch.
LEMMA LoadFact ==
  ASSUME Core, NEW t \in Tabs, NEW q \in Reqs, Abort(t, req)[q].step = "idle", jar' \in 0..MaxPairs,
         req' = [Abort(t, req) EXCEPT ![q] = Sent("boot", t, jar')]
  PROVE  /\ req[q].step \in {"idle", "wait"} /\ req[q].fresh = Keep
         /\ req' \in [Reqs -> Request] /\ req'[q] = Sent("boot", t, jar')
         /\ \A p \in Reqs : p # q => /\ req'[p] = Abort(t, req)[p]
                                     /\ Alike(p) \/ (req[p].step = "wait" /\ req'[p] = Idle /\ req[p].fresh = Keep)
<1>1. req[q].step \in {"idle", "wait"}
  BY AbortFact DEF Core
<1>2. \A p \in Reqs : req[p].step \in {"idle", "wait"} => req[p].fresh = Keep
  BY IdleFact DEF Core, Shaped
<1>3. Sent("boot", t, jar') \in Request
  BY SentType DEF Kinds
<1>4. Abort(t, req) \in [Reqs -> Request]
  BY AbortFact DEF Core
<1>5. /\ req' \in [Reqs -> Request] /\ req'[q] = Sent("boot", t, jar')
      /\ \A p \in Reqs : p # q => req'[p] = Abort(t, req)[p]
  BY <1>3, <1>4
<1>6. \A p \in Reqs : p # q => Alike(p) \/ (req[p].step = "wait" /\ req'[p] = Idle)
  BY <1>5, AbortFact DEF Core, Alike, Like
<1> QED
  BY <1>1, <1>2, <1>5, <1>6

LEMMA LoadStep == ASSUME Core, NEW t \in Tabs, NEW q \in Reqs, Abort(t, req)[q].step = "idle",
                         UNCHANGED <<jar, lost, stale>>, Rest, req' = [Abort(t, req) EXCEPT ![q] = Sent("boot", t, jar')]
                  PROVE  Core'
<1>1. jar' \in 0..MaxPairs
  BY DEF Core, CoreType
<1>2. /\ req[q].step \in {"idle", "wait"} /\ req' \in [Reqs -> Request] /\ req'[q] = Sent("boot", t, jar')
      /\ \A p \in Reqs : p # q => Alike(p) \/ (req[p].step = "wait" /\ req'[p] = Idle /\ req[p].fresh = Keep)
  BY <1>1, LoadFact
<1>3. Anew(q, q)
  BY <1>2, SentFields, SentFirst DEF Anew, Shaped, Keep, None
<1>4. \A p \in Reqs : p # q => Alike(p) \/ (Anew(q, p) /\ req[p].fresh = Keep /\ req[p].step # "deny")
  BY <1>2, IdleAnew
<1>5. Taken(q)
  BY <1>2, IdleTaken
<1>6. Browser(q)
  BY <1>2, <1>3, <1>4, <1>5 DEF Browser
<1> QED
  BY <1>6, BrowserCore

\* A first 401: the request becomes the tab's refresh call, or waits for it.
LEMMA Fact401 ==
  ASSUME Core, NEW q \in Reqs, Receive401(q)
  PROVE  /\ Taken(q) /\ Rest /\ req[q].step = "refused" /\ req[q].kind \notin {"login", "logout"}
         /\ req' \in [Reqs -> Request] /\ \A p \in Reqs : p # q => req'[p] = req[p]
         /\ req'[q].kind = req[q].kind /\ req'[q].tab = req[q].tab /\ req'[q].fresh = Keep
         /\ \/ /\ refresher[req[q].tab] = NoTab /\ refresher' = [refresher EXCEPT ![req[q].tab] = q]
               /\ req'[q].via = "endpoint" /\ req'[q].pair = jar' /\ req'[q].again
               /\ req'[q].step = IF jar' = None THEN "refused" ELSE "cache"
            \/ /\ UNCHANGED refresher
               /\ req'[q].via = "middleware" /\ req'[q].pair = None /\ req'[q].step = "wait"
<1>1. Taken(q) /\ Rest
  BY CookiesTaken DEF Receive401, serverVars, Rest
<1>2. JarAfter(q) = jar' /\ jar' \in 0..MaxPairs
  BY <1>1 DEF Receive401, TakeCookies, Taken
<1> DEFINE r == req[q]
           a == [r EXCEPT !.via = "endpoint", !.again = TRUE, !.fresh = Keep, !.pair = JarAfter(q),
                          !.step = IF JarAfter(q) = None THEN "refused" ELSE "cache"]
           b == [r EXCEPT !.again = TRUE, !.fresh = Keep, !.pair = None, !.step = "wait"]
<1>3. r \in Request /\ r.step = "refused" /\ r.via = "middleware"
  BY DEF Receive401, Core, CoreType
<1>4. r.kind \notin {"login", "logout"}
  BY <1>3 DEF Core, Shaped, Receive401
<1>5. \/ req' = [req EXCEPT ![q] = a] /\ refresher[r.tab] = NoTab /\ refresher' = [refresher EXCEPT ![r.tab] = q]
      \/ req' = [req EXCEPT ![q] = b] /\ UNCHANGED refresher
  BY DEF Receive401, RunsRefresh
<1>6. {"refused", "cache", "wait"} \subseteq Steps /\ Keep \in -1..MaxPairs /\ None \in 0..MaxPairs
  BY BoundsFact DEF Steps, ServerSteps, AnswerSteps, Keep, None
<1> HIDE DEF r
<1>7. /\ a \in Request /\ a.kind = r.kind /\ a.tab = r.tab /\ a.via = "endpoint" /\ a.again = TRUE /\ a.fresh = Keep
      /\ a.pair = JarAfter(q) /\ a.step = IF JarAfter(q) = None THEN "refused" ELSE "cache"
  BY <1>2, <1>3, <1>6 DEF Request
<1>8. /\ b \in Request /\ b.kind = r.kind /\ b.tab = r.tab /\ b.via = "middleware" /\ b.again = TRUE /\ b.fresh = Keep
      /\ b.pair = None /\ b.step = "wait"
  BY <1>2, <1>3, <1>6 DEF Request
<1> HIDE DEF a, b
<1>9. CASE req' = [req EXCEPT ![q] = a] /\ refresher[r.tab] = NoTab /\ refresher' = [refresher EXCEPT ![r.tab] = q]
  <2>1. Put(q, a)
    BY <1>9, <1>7, PutFact DEF Core
  <2> QED
    BY <2>1, <1>1, <1>2, <1>3, <1>4, <1>7, <1>9 DEF Put, r
<1>10. CASE req' = [req EXCEPT ![q] = b] /\ UNCHANGED refresher
  <2>1. Put(q, b)
    BY <1>10, <1>8, PutFact DEF Core
  <2> QED
    BY <2>1, <1>1, <1>2, <1>3, <1>4, <1>8, <1>10 DEF Put, r
<1> QED
  BY <1>5, <1>9, <1>10

LEMMA Receive401Core == ASSUME Core, NEW q \in Reqs, Receive401(q) PROVE Core'
<1>1. /\ Taken(q) /\ Rest /\ req[q].step = "refused" /\ req[q].kind \notin {"login", "logout"}
      /\ req' \in [Reqs -> Request] /\ \A p \in Reqs : p # q => req'[p] = req[p]
  BY Fact401
<1>2. Anew(q, q)
  BY Fact401 DEF Anew, Shaped, Keep, None
<1>3. \A p \in Reqs : p # q => Alike(p)
  BY <1>1 DEF Alike, Like
<1> QED
  BY <1>1, <1>2, <1>3, BrowserCore DEF Browser

\* The refresh call under way is that of the tab's refreshPromise.
LEMMA AwaitingFact == ASSUME Single, NEW q \in Reqs, req[q].step # "idle", req[q].tab \in Tabs, req[q].via = "endpoint"
                      PROVE  \A p \in Awaiting(req[q].tab) : p = q \/ req[p].step = "wait"
  BY BoundsFact DEF Single, Awaiting

\* Requests that awaited a refresh call are over or sent again with it.
LEMMA SettleStep ==
  ASSUME Core, Single, NEW q \in Reqs, req[q].via = "endpoint", req[q].step \in AnswerSteps, req[q].tab \in Tabs,
         Taken(q), Rest, req' \in [Reqs -> Request],
         \A p \in Reqs : IF p = q \/ p \in Awaiting(req[q].tab) THEN Anew(q, p) ELSE Alike(p)
  PROVE  Core'
<1>1. req[q].step \notin {"idle", "deny"}
  BY DEF AnswerSteps
<1>2. \A p \in Reqs : req[p].step = "wait" => req[p].fresh = Keep
  BY DEF Core, Shaped
<1>3. \A p \in Reqs : p # q => Alike(p) \/ (Anew(q, p) /\ req[p].fresh = Keep /\ req[p].step # "deny")
  <2> TAKE p \in Reqs
  <2>1. CASE p \in Awaiting(req[q].tab)
    BY <1>1, <1>2, <2>1, AwaitingFact
  <2>2. CASE p \notin Awaiting(req[q].tab)
    BY <2>2
  <2> QED
    BY <2>1, <2>2
<1> QED
  BY <1>1, <1>3, BrowserCore DEF Browser

LEMMA ResumeCore == ASSUME Core, Single, NEW q \in Reqs, Resume(q) PROVE Core'
<1>1. Taken(q) /\ Rest
  BY CookiesTaken DEF Resume, serverVars, Rest
<1>2. req[q].via = "endpoint" /\ req[q].step = "ok" /\ req[q].tab \in Tabs
  BY DEF Resume
<1>3. req[q].fresh > None /\ JarAfter(q) = req[q].fresh /\ jar' = JarAfter(q) /\ jar' \in 0..MaxPairs
  <2>1. req[q].fresh > None /\ req[q].fresh \in -1..MaxPairs
    BY <1>2, FieldFact DEF Core, CoreType, Shaped
  <2> QED
    <3>1. JarAfter(q) = req[q].fresh
      BY <1>2, <2>1 DEF JarAfter, Keep, None
    <3>2. jar' = JarAfter(q) /\ jar' \in 0..MaxPairs
      BY <1>1 DEF Resume, TakeCookies, Taken
    <3> QED
      BY <2>1, <3>1, <3>2
<1> DEFINE again(r) == [r EXCEPT !.step = "auth", !.via = "middleware", !.pair = JarAfter(q), !.fresh = Keep]
<1>4. \A p \in Reqs : req'[p] = IF p = q \/ p \in Awaiting(req[q].tab) THEN again(req[p]) ELSE req[p]
  BY DEF Resume
<1>5. "auth" \in Steps /\ Keep \in -1..MaxPairs
  BY BoundsFact DEF Steps, ServerSteps, Keep
<1>6. \A r \in Request : /\ again(r) \in Request /\ again(r).step = "auth" /\ again(r).via = "middleware"
                         /\ again(r).pair = jar' /\ again(r).fresh = Keep /\ again(r).kind = r.kind
  BY <1>3, <1>5 DEF Request
<1> HIDE DEF again
<1>7. \A p \in Reqs : req[p] \in Request
  BY DEF Core, CoreType
<1>8. req' \in [Reqs -> Request]
  <2>1. req' = [p \in Reqs |-> IF p = q \/ p \in Awaiting(req[q].tab) THEN again(req[p]) ELSE req[p]]
    BY DEF Resume, again
  <2> QED
    BY <2>1, <1>6, <1>7
<1>9. \A p \in Reqs : IF p = q \/ p \in Awaiting(req[q].tab) THEN Anew(q, p) ELSE Alike(p)
  <2> SUFFICES ASSUME NEW p \in Reqs, req'[p] = again(req[p]), p = q \/ p \in Awaiting(req[q].tab) PROVE Anew(q, p)
    BY <1>4 DEF Alike, Like
  <2>1. /\ req'[p].step = "auth" /\ req'[p].via = "middleware" /\ req'[p].pair = jar' /\ req'[p].fresh = Keep
        /\ req'[p].kind # "logout"
    <3>1. p = q \/ req[p].step = "wait"
      BY <1>2, AwaitingFact
    <3>2. req[p].kind # "logout"
      BY <1>2, <3>1 DEF Core, Shaped
    <3> QED
      BY <1>6, <1>7, <3>2
  <2> QED
    BY <2>1, <1>3 DEF Anew, Shaped, Keep, None
<1> QED
  BY <1>1, <1>2, <1>8, <1>9, SettleStep DEF AnswerSteps

\* The tab's refresh call is over: who awaited it is rejected, the store cleared
\* and useAuth's query fetched again on a protected page.
LEMMA GiveUpFact ==
  ASSUME Core, NEW q \in Reqs, GiveUp(q)
  PROVE  /\ Taken(q) /\ Rest /\ req[q].via = "endpoint" /\ req[q].step \in {"refused", "failed"} /\ req[q].tab \in Tabs
         /\ req' \in [Reqs -> Request]
         /\ req'[q] = Idle \/ req'[q] = Sent("boot", req[q].tab, jar')
         /\ \A p \in Reqs : p # q => IF p \in Awaiting(req[q].tab) THEN req'[p] = Idle
                                     ELSE Alike(p) /\ (req'[p].tab = req[p].tab)
<1> DEFINE t == req[q].tab
           s == Sent("boot", t, jar')
           reqs == [p \in Reqs |-> IF p \in Awaiting(t) THEN Idle ELSE req[p]]
<1>1. Taken(q) /\ Rest /\ jar' \in 0..MaxPairs
  BY CookiesTaken DEF GiveUp, serverVars, Rest, Taken
<1>2. req[q].via = "endpoint" /\ req[q].step \in {"refused", "failed"} /\ t \in Tabs
  BY DEF GiveUp
<1>3. s \in Request
  BY <1>1, <1>2, SentType DEF Kinds
<1>4. req' = [Drop(t, reqs) EXCEPT ![q] = Idle] \/ req' = [Drop(t, reqs) EXCEPT ![q] = s]
  BY DEF GiveUp, Cleared, Fetch
<1>5. req \in [Reqs -> Request] /\ \A p \in Reqs : req[p].step = "idle" => req[p] = Idle
  BY DEF Core, CoreType, Shaped
<1>6. reqs \in [Reqs -> Request] /\ \A p \in Reqs : reqs[p] = IF p \in Awaiting(t) THEN Idle ELSE req[p]
  BY <1>5, IdleFact
<1> HIDE DEF s, t, reqs
<1>7. /\ Drop(t, reqs) \in [Reqs -> Request]
      /\ \A p \in Reqs : Like(reqs[p], Drop(t, reqs)[p]) /\ (Drop(t, reqs)[p].tab = reqs[p].tab)
  BY <1>2, <1>5, <1>6, DropFact
<1>8. \A p \in Reqs : p \in Awaiting(t) => Drop(t, reqs)[p] = Idle
  BY <1>6, <1>7, IdleFact DEF Like
<1>9. /\ req' \in [Reqs -> Request] /\ (req'[q] = Idle \/ req'[q] = s)
      /\ \A p \in Reqs : p # q => req'[p] = Drop(t, reqs)[p]
  BY <1>3, <1>4, <1>7, IdleFact
<1>10. \A p \in Reqs : p # q => IF p \in Awaiting(t) THEN req'[p] = Idle
                                ELSE Like(req[p], req'[p]) /\ (req'[p].tab = req[p].tab)
  BY <1>6, <1>7, <1>8, <1>9
<1> QED
  BY <1>1, <1>2, <1>9, <1>10 DEF Alike, s, t

LEMMA GiveUpCore == ASSUME Core, Single, NEW q \in Reqs, GiveUp(q) PROVE Core'
<1>1. /\ Taken(q) /\ Rest /\ req[q].via = "endpoint" /\ req[q].step \in {"refused", "failed"} /\ req[q].tab \in Tabs
      /\ req' \in [Reqs -> Request]
      /\ req'[q] = Idle \/ req'[q] = Sent("boot", req[q].tab, jar')
      /\ \A p \in Reqs : p # q => IF p \in Awaiting(req[q].tab) THEN req'[p] = Idle ELSE Alike(p)
  BY GiveUpFact
<1>2. Anew(q, q)
  BY <1>1, IdleAnew, SentFields, SentFirst DEF Anew, Shaped, Keep, None
<1>3. \A p \in Reqs : IF p = q \/ p \in Awaiting(req[q].tab) THEN Anew(q, p) ELSE Alike(p)
  BY <1>1, <1>2, IdleAnew
<1> QED
  BY <1>1, <1>3, SettleStep DEF AnswerSteps

LEMMA ReceiveLoginCore == ASSUME Core, NEW q \in Reqs, ReceiveLogin(q) PROVE Core'
<1>1. Taken(q) /\ Rest
  BY CookiesTaken DEF ReceiveLogin, serverVars, Rest
<1>2. req[q].tab \in Tabs /\ Answered(q) /\ req[q].step # "deny"
  BY DEF ReceiveLogin, Final, Answered, AnswerSteps
<1>3. CASE req[q].step = "ok"
  <2>1. req' = [req EXCEPT ![q] = Sent("profile", req[q].tab, jar')]
    BY <1>3 DEF ReceiveLogin, TakeCookies, Core, CoreType
  <2>2. Browser(q)
    BY <1>1, <1>2, <2>1, SendBrowser DEF Kinds
  <2> QED
    BY <2>2, BrowserCore
<1>4. CASE req[q].step # "ok"
  <2>1. req' = [req EXCEPT ![q] = Idle]
    BY <1>4 DEF ReceiveLogin, Core, CoreType
  <2> QED
    BY <1>1, <1>2, <2>1, CloseStep
<1> QED
  BY <1>3, <1>4

LEMMA OrphanCore == ASSUME Core, NEW q \in Reqs, ReceiveOrphan(q) PROVE Core'
<1>1. Rest /\ Answered(q) /\ req' = [req EXCEPT ![q] = Idle]
  BY DEF ReceiveOrphan, serverVars, Rest
<1>2. CASE TakeCookies(q)
  BY <1>1, <1>2, CookiesTaken, CloseStep
<1>3. CASE lost' = (lost \/ CarriesCookies(q)) /\ UNCHANGED <<jar, stale>>
  <2>1. ~lost' => ~lost /\ ~CarriesCookies(q)
    BY <1>3
  <2>2. req[q].fresh \in -1..MaxPairs /\ jar \in 0..MaxPairs /\ jar <= issued /\ lost \in BOOLEAN /\ stale \in BOOLEAN
    BY FieldFact DEF Core, CoreType, Made
  <2>3. ~CarriesCookies(q) => req[q].fresh <= None
    BY <2>2 DEF CarriesCookies, None
  <2>4. Taken(q)
    BY <1>3, <2>1, <2>2, <2>3 DEF Taken
  <2> QED
    BY <1>1, <2>4, CloseStep
<1> QED
  BY <1>2, <1>3 DEF ReceiveOrphan

LEMMA ReceiveCore == ASSUME Core, Single, NEW q \in Reqs, Receive(q) PROVE Core'
  BY TakerCore, OrphanCore, Receive401Core, ResumeCore, GiveUpCore, ReceiveLoginCore DEF Receive, Taker

-----------------------------------------------------------------------------
(***************************************************************************)
(* Steps of the server                                                      *)
(***************************************************************************)
ServerRest == UNCHANGED <<serverVars, jar, ended, lost, stale>>

\* A request goes on to step s with f for its cookies, which are those it had
\* or the rotation of its pair.
Goes(q, s, f) ==
    /\ Turn(q, s, f) /\ ServerRest
    /\ req[q].step # "deny" /\ s # "deny" /\ Shaped(q)'
    /\ \/ f = req[q].fresh
       \/ req[q].fresh = Keep /\ f = None
       \/ req[q].fresh = Keep /\ f = rotation[req[q].pair] /\ f # None /\ req[q].pair # None
    /\ req[q].again /\ req[q].via = "middleware" /\ ended = {} /\ ~lost /\ ~stale
          => req[q].step # "wait" /\ s \in {"ok", "failed"}

LEMMA GoesCore == ASSUME Core, NEW q \in Reqs, NEW s \in Steps, NEW f \in -1..MaxPairs, Goes(q, s, f) PROVE Core'
<1> USE DEF Keep, None
<1>1. /\ req'[q].step = s /\ req'[q].fresh = f /\ req'[q].kind = req[q].kind /\ req'[q].via = req[q].via
      /\ req'[q].pair = req[q].pair /\ req'[q].again = req[q].again
      /\ \A p \in Reqs : p # q => req'[p] = req[p]
  BY DEF Goes, Turn
<1>2. UNCHANGED <<issued, login, logins, accessExpired, deniedAccess, deniedRefresh, rotation, jar, ended, lost, stale>>
  BY DEF Goes, ServerRest, serverVars
<1>3. /\ \A p \in Reqs : req[p].pair \in 0..MaxPairs /\ req[p].fresh \in -1..MaxPairs
      /\ req[q].pair # None => req[q].pair \in Pairs
  BY FieldFact, BoundsFact DEF Core, CoreType, Pairs
<1>4. CoreType' /\ \A p \in Reqs : Shaped(p)'
  BY <1>1, <1>2 DEF Goes, Turn, Core, CoreType, Shaped
<1>5. Made'
  <2>1. f <= issued
    <3>1. rotation[req[q].pair] # None /\ req[q].pair # None => rotation[req[q].pair] <= issued
      BY <1>3 DEF Core, Made
    <3>2. req[q].fresh <= issued /\ issued \in Nat
      BY DEF Core, CoreType, Made
    <3> QED
      BY <3>1, <3>2 DEF Goes
  <2>2. \A p \in Reqs : req'[p].pair <= issued /\ req'[p].fresh <= issued
    BY <1>1, <2>1 DEF Core, Made
  <2> QED
    BY <1>2, <2>2 DEF Core, Made
<1>6. RevokedEnded' /\ DenyRotated' /\ RotatedDenied'
  BY <1>1, <1>2 DEF Goes, Core, RevokedEnded, DenyRotated, RotatedDenied, Live
<1>7. \A p \in Reqs : Brings(p) => Brings(p)' /\ req'[p].pair = req[p].pair
  BY <1>1, <1>3 DEF Goes, Brings
<1>8. Kept'
  <2> SUFFICES ASSUME NEW p \in Reqs, Brings(p)' \/ (req'[p].via = "endpoint" /\ ~lost /\ ~stale),
                      Live(req[p].pair), req[p].pair \in deniedRefresh
               PROVE  rotation[req[p].pair] # None
    BY <1>1, <1>2 DEF Kept, Brings, Live
  <2>1. CASE p # q \/ f = req[q].fresh \/ f = None
    BY <1>1, <2>1 DEF Core, Kept, Brings
  <2>2. CASE p = q /\ f = rotation[req[q].pair] /\ f # None
    BY <2>2
  <2> QED
    BY <2>1, <2>2 DEF Goes
<1>9. Awaited'
  BY <1>2, <1>7 DEF Core, Awaited, Replaced, Live
<1>10. Fresh'
  <2> SUFFICES ASSUME ended = {}, ~lost, ~stale PROVE \E m \in 0..MaxPairs : Recent(m)'
    BY <1>2 DEF Fresh
  <2>1. PICK m \in 0..MaxPairs : Recent(m)
    BY DEF Core, Fresh
  <2>2. \A p \in Reqs : Young(m, req'[p].pair)
    BY <1>1, <2>1 DEF Recent
  <2>3. \A p \in Reqs : req'[p].fresh > None => req'[p].fresh > m
    <3>1. f > None => f > m
      <4>1. CASE f = req[q].fresh
        BY <4>1, <2>1 DEF Recent
      <4>2. CASE f = None
        BY <4>2
      <4>3. CASE f = rotation[req[q].pair] /\ f # None /\ req[q].pair # None
        <5>1. req[q].pair \in Pairs /\ req[q].pair < f /\ Young(m, req[q].pair)
          BY <4>3, <1>3, <2>1 DEF Core, Made, Recent
        <5> QED
          BY <5>1, <4>3, <1>3 DEF Young
      <4> QED
        BY <4>1, <4>2, <4>3 DEF Goes
    <3> QED
      BY <1>1, <2>1, <3>1 DEF Recent
  <2>4. \A p \in Reqs : req'[p].again /\ req'[p].via = "middleware" /\ req'[p].step # "wait"
                    => req'[p].pair > m /\ req'[p].step \in {"auth", "ok", "failed"}
    BY <1>1, <2>1 DEF Recent, Goes
  <2> QED
    BY <1>2, <2>1, <2>2, <2>3, <2>4 DEF Recent, Young
<1> QED
  BY <1>4, <1>5, <1>6, <1>8, <1>9, <1>10 DEF Core

LEMMA AuthenticateCore == ASSUME Core, NEW q \in Reqs, Authenticate(q) PROVE Core'
<1> USE DEF Keep, None
<1> DEFINE s == IF AccessValid(req[q].pair) THEN Passed(q) ELSE IF req[q].pair = None THEN "refused" ELSE "cache"
<1>1. req[q].step = "auth" /\ req[q].kind # "login" /\ s \in Steps /\ ServerRest
      /\ req' = [req EXCEPT ![q].step = s]
  BY DEF Authenticate, Passed, Steps, ServerSteps, AnswerSteps, ServerOnly, ServerRest, tabVars, historyVars
<1>2. req[q] \in Request /\ req[q].fresh = Keep /\ req[q].fresh \in -1..MaxPairs /\ req[q].via = "middleware"
  BY <1>1, FieldFact DEF Core, CoreType, Shaped
<1>3. Turn(q, s, req[q].fresh)
  BY <1>1, StepFact DEF Core
<1>4. Shaped(q)'
  BY <1>1, <1>2, <1>3 DEF Core, Shaped, Turn, AccessValid, Passed
<1>5. req[q].again /\ ended = {} /\ ~lost /\ ~stale => s = "ok"
  <2> SUFFICES ASSUME req[q].again, ended = {}, ~lost, ~stale PROVE AccessValid(req[q].pair)
    BY DEF Core, Shaped, Passed
  <2>1. PICK m \in 0..MaxPairs : Recent(m)
    BY DEF Core, Fresh
  <2>2. req[q].pair > m /\ req[q].pair \notin accessExpired
    <3>1. req[q].pair > m
      BY <1>1, <1>2, <2>1 DEF Recent
    <3>2. \A i \in accessExpired : i <= m
      BY <2>1 DEF Recent
    <3>3. req[q].pair \in 0..MaxPairs
      BY <1>2, FieldFact
    <3> QED
      BY <3>1, <3>2, <3>3, BoundsFact
  <2>3. req[q].pair \notin deniedAccess
    BY DEF Core, RevokedEnded
  <2> QED
    BY <2>2, <2>3 DEF AccessValid
<1>6. Goes(q, s, req[q].fresh)
  BY <1>1, <1>3, <1>4, <1>5 DEF Goes, Passed
<1> HIDE DEF s
<1> QED
  BY <1>1, <1>2, <1>6, GoesCore

\* Past the middleware's first check a second attempt does not come.
LEMMA OnceFact == ASSUME Core, NEW q \in Reqs, req[q].again, req[q].via = "middleware",
                         ended = {}, ~lost, ~stale
                  PROVE  req[q].step \in {"wait", "auth", "ok", "failed"}
  BY DEF Core, Fresh, Recent

LEMMA LookupCore == ASSUME Core, NEW q \in Reqs, LookupRotation(q) PROVE Core'
<1> USE DEF Keep, None
<1>1. req[q].step = "cache" /\ ServerRest
  BY DEF LookupRotation, ServerOnly, ServerRest, tabVars, historyVars
<1>2. req[q] \in Request /\ req[q].fresh = Keep /\ req[q].pair # None /\ req[q].kind # "login"
  BY <1>1 DEF Core, CoreType, Shaped
<1>3. req[q].pair \in Pairs /\ req[q].fresh \in -1..MaxPairs /\ req[q].via \in {"middleware", "endpoint"}
  BY <1>2, FieldFact, BoundsFact DEF Pairs
<1>4. ~(req[q].again /\ req[q].via = "middleware" /\ ended = {} /\ ~lost /\ ~stale)
  BY <1>1, OnceFact
<1>5. CASE rotation[req[q].pair] = None
  <2>1. "validate" \in Steps /\ req' = [req EXCEPT ![q].step = "validate"]
    BY <1>5 DEF LookupRotation, Steps, ServerSteps
  <2>2. Turn(q, "validate", req[q].fresh)
    BY <2>1, StepFact DEF Core
  <2>3. Shaped(q)'
    BY <1>1, <1>2, <2>2 DEF Core, Shaped, Turn
  <2>4. Goes(q, "validate", req[q].fresh)
    BY <1>1, <1>4, <2>2, <2>3 DEF Goes
  <2> QED
    BY <1>3, <2>1, <2>4, GoesCore
<1>6. CASE rotation[req[q].pair] # None
  <2> DEFINE s == AfterRotation(q)
             f == rotation[req[q].pair]
  <2>1. s \in Steps /\ s \in {"ok", "recheck"} /\ (s = "recheck" <=> req[q].via = "middleware")
        /\ req' = [req EXCEPT ![q].step = s, ![q].fresh = f]
    BY <1>6 DEF LookupRotation, Steps, ServerSteps, AnswerSteps, AfterRotation
  <2>2. f \in 0..MaxPairs /\ f \in -1..MaxPairs /\ f > req[q].pair /\ f > 0
    <3>1. rotation[req[q].pair] \in 0..MaxPairs
      BY <1>3 DEF Core, CoreType
    <3>2. req[q].pair < rotation[req[q].pair]
      BY <1>3, <1>6 DEF Core, Made
    <3> QED
      BY <1>3, <3>1, <3>2, BoundsFact DEF Pairs
  <2> HIDE DEF s, f
  <2>3. Turn(q, s, f)
    BY <2>1, <2>2, TurnFact DEF Core
  <2>4. Shaped(q)'
    BY <1>1, <1>2, <1>3, <2>1, <2>2, <2>3 DEF Core, Shaped, Turn
  <2>5. Goes(q, s, f)
    BY <1>1, <1>2, <1>4, <1>6, <2>1, <2>3, <2>4 DEF Goes, f
  <2> QED
    BY <2>1, <2>2, <2>5, GoesCore
<1> QED
  BY <1>5, <1>6

LEMMA RecheckCore == ASSUME Core, NEW q \in Reqs, Recheck(q) PROVE Core'
<1> USE DEF Keep, None
<1> DEFINE s == IF AccessValid(req[q].fresh) THEN Passed(q) ELSE "refused"
<1>1. req[q].step = "recheck" /\ s \in Steps /\ ServerRest /\ req' = [req EXCEPT ![q].step = s]
  BY DEF Recheck, Passed, Steps, ServerSteps, AnswerSteps, ServerOnly, ServerRest, tabVars, historyVars
<1>2. req[q] \in Request /\ req[q].fresh \in -1..MaxPairs
  BY FieldFact DEF Core, CoreType
<1>3. Turn(q, s, req[q].fresh)
  BY <1>1, StepFact DEF Core
<1>4. Shaped(q)'
  BY <1>1, <1>2, <1>3 DEF Core, Shaped, Turn, Passed
<1>5. ~(req[q].again /\ req[q].via = "middleware" /\ ended = {} /\ ~lost /\ ~stale)
  BY <1>1, OnceFact
<1>6. s \in {"ok", "revoke", "refused"}
  BY DEF Passed
<1> HIDE DEF s
<1>7. Goes(q, s, req[q].fresh)
  BY <1>1, <1>3, <1>4, <1>5, <1>6 DEF Goes
<1> QED
  BY <1>1, <1>2, <1>7, GoesCore

\* The answer of a request is lost, or the connection to a server that stops.
LEMMA LoseCore == ASSUME Core, NEW q \in Reqs, LoseAnswer(q) PROVE Core'
<1> USE DEF Keep, None
<1>1. req[q].step \in {"ok", "refused"} /\ "failed" \in Steps /\ ServerRest /\ req' = [req EXCEPT ![q].step = "failed"]
  BY DEF LoseAnswer, Steps, AnswerSteps, ServerRest
<1>2. req[q] \in Request /\ req[q].fresh \in -1..MaxPairs
  BY FieldFact DEF Core, CoreType
<1>3. Turn(q, "failed", req[q].fresh)
  BY <1>1, StepFact DEF Core
<1>4. Shaped(q)'
  BY <1>1, <1>2, <1>3 DEF Core, Shaped, Turn
<1>5. Goes(q, "failed", req[q].fresh)
  BY <1>1, <1>3, <1>4 DEF Goes
<1> QED
  BY <1>1, <1>2, <1>5, GoesCore

\* A pair is made and login' names its sign-in: q waits for it, or the browser
\* has it at once.
Grows(q, l) ==
    /\ issued < MaxPairs /\ issued' = issued + 1
    /\ logins' \in logins..MaxLogins /\ l \in 1..logins' /\ login' = [login EXCEPT ![issued + 1] = l]
    /\ UNCHANGED <<accessExpired, deniedAccess, deniedRefresh, rotation, ended, lost, stale>>
    /\ jar' = jar \/ jar' = issued + 1
    /\ req' \in [Reqs -> Request]
    /\ \A p \in Reqs : p # q => Alike(p) \/ (req[p].step = "wait" /\ req'[p] = Idle)
    /\ req[q].step # "deny" /\ req[q].fresh = Keep
    /\ req'[q].step # "deny" /\ Shaped(q)'
    /\ req'[q].fresh = Keep \/ req'[q].fresh = issued + 1
    /\ req'[q].pair = req[q].pair \/ req'[q].pair = issued + 1
    /\ Brings(q)' \/ req'[q].via = "endpoint" => req'[q].pair \notin deniedRefresh
    /\ req'[q].again /\ req'[q].via = "middleware" /\ req'[q].step # "wait" /\ ended = {} /\ ~lost /\ ~stale
          => req[q].again /\ req[q].via = "middleware" /\ req[q].step # "wait"
             /\ req'[q].pair = req[q].pair /\ req'[q].step = "ok"

LEMMA GrowsCore == ASSUME Core, NEW q \in Reqs, NEW l, Grows(q, l) PROVE Core'
<1> USE DEF Keep, None
<1>1. /\ issued \in 0..MaxPairs /\ issued < MaxPairs /\ issued' = issued + 1 /\ logins \in 0..MaxLogins
      /\ logins' \in logins..MaxLogins /\ l \in 1..logins' /\ jar \in 0..MaxPairs /\ jar <= issued
      /\ jar' = jar \/ jar' = issued + 1
      /\ login \in [Pairs -> 0..MaxLogins] /\ login' = [login EXCEPT ![issued + 1] = l]
  BY DEF Core, CoreType, Made, Grows
<1>2. UNCHANGED <<accessExpired, deniedAccess, deniedRefresh, rotation, ended, lost, stale>>
  BY DEF Grows
<1>3. /\ login' \in [Pairs -> 0..MaxLogins] /\ login'[issued + 1] = l
      /\ \A i \in Pairs : i <= issued => login'[i] = login[i]
  BY <1>1, BoundsFact DEF Pairs
<1>4. \A p \in Reqs : \/ p = q
                      \/ Alike(p)
                      \/ req[p].step = "wait" /\ req'[p] = Idle
  BY DEF Grows
<1>5. \A p \in Reqs : req[p].pair \in 0..MaxPairs /\ req[p].fresh \in -1..MaxPairs
                      /\ req[p].pair <= issued /\ req[p].fresh <= issued
  BY FieldFact DEF Core, CoreType, Made
<1>6. \A p \in Reqs : req[p].step = "wait" => req[p].fresh = Keep
  BY DEF Core, Shaped
<1>7. CoreType'
  <2>1. issued' \in 0..MaxPairs /\ logins' \in 0..MaxLogins /\ jar' \in 0..MaxPairs
    BY <1>1, BoundsFact
  <2>2. req' \in [Reqs -> Request]
    BY DEF Grows
  <2> QED
    BY <1>2, <1>3, <2>1, <2>2 DEF Core, CoreType
<1>8. \A p \in Reqs : Shaped(p)'
  BY <1>4, IdleFact DEF Grows, Core, Shaped, Alike, Like
<1>9. Made'
  <2>1. \A p \in Reqs : req'[p].pair <= issued' /\ req'[p].fresh <= issued'
    BY <1>1, <1>4, <1>5, IdleFact DEF Grows, Alike, Like
  <2>2. \A i \in Pairs : i <= issued' => login'[i] # 0 /\ login'[i] <= logins'
    BY <1>1, <1>3, BoundsFact DEF Core, Made, Pairs
  <2>3. jar' <= issued'
    BY <1>1
  <2>4. /\ \A i \in Pairs : i \in accessExpired \cup deniedAccess \cup deniedRefresh \/ rotation[i] # None => i <= issued'
        /\ \A i \in Pairs : rotation[i] # None => i < rotation[i] /\ rotation[i] <= issued'
    BY <1>1, BoundsFact DEF Core, Made, CoreType, Pairs
  <2> QED
    BY <1>2, <2>1, <2>2, <2>3, <2>4 DEF Made
<1>10. \A i \in Pairs : i <= issued /\ login'[i] \notin ended => login[i] \notin ended
  BY <1>3
<1>11. \A p \in Reqs : p # q => req'[p].pair = req[p].pair \/ req'[p].pair = None
  BY <1>4, IdleFact DEF Alike, Like
<1>12. RevokedEnded'
  BY <1>2, <1>3 DEF Core, RevokedEnded, Made, CoreType
<1>13. DenyRotated' /\ RotatedDenied'
  <2>1. \A p \in Reqs : req'[p].step = "deny" => req[p].step = "deny" /\ req'[p].pair = req[p].pair /\ p # q
    BY <1>4, IdleFact DEF Grows, Alike, Like
  <2>2. \A p \in Reqs : req[p].step = "deny" => req'[p].step = "deny" /\ req'[p].pair = req[p].pair
    BY <1>4 DEF Grows, Alike, Like
  <2>3. \A p \in Reqs : req[p].pair # None => req[p].pair \in Pairs
    BY <1>5, BoundsFact DEF Pairs
  <2> QED
    BY <1>2, <1>5, <1>10, <2>1, <2>2, <2>3 DEF Core, DenyRotated, RotatedDenied, Live
<1>14. Kept'
  <2> SUFFICES ASSUME NEW p \in Reqs, Brings(p)' \/ (req'[p].via = "endpoint" /\ ~lost /\ ~stale),
                      req'[p].pair # None, login'[req'[p].pair] \notin ended, req'[p].pair \in deniedRefresh
               PROVE  rotation[req'[p].pair] # None
    BY <1>2 DEF Kept, Live
  <2>1. p # q
    BY DEF Grows
  <2>2. Alike(p)
    BY <1>4, <2>1, IdleFact
  <2>3. req[p].pair \in Pairs /\ req'[p].pair = req[p].pair
    BY <1>5, <2>2, BoundsFact DEF Pairs, Alike, Like
  <2> QED
    BY <1>5, <1>10, <2>2, <2>3 DEF Core, Kept, Live, Brings, Alike, Like
<1>15. Awaited'
  <2> SUFFICES ASSUME ~lost, ~stale, jar' # None, login'[jar'] \notin ended, jar' \in deniedRefresh PROVE Replaced(jar)'
    BY <1>2 DEF Awaited, Live
  <2>1. jar' = jar /\ jar \in Pairs
    BY <1>1, BoundsFact DEF Core, Made, CoreType, Pairs
  <2>2. PICK p \in Reqs : Brings(p) /\ req[p].pair = jar
    BY <1>1, <1>10, <2>1 DEF Core, Awaited, Replaced, Live
  <2>3. Alike(p)
    BY <1>4, <1>6, <2>2 DEF Brings, Grows
  <2> QED
    BY <2>1, <2>2, <2>3 DEF Replaced, Brings, Alike, Like
<1>16. Fresh'
  <2> SUFFICES ASSUME ended = {}, ~lost, ~stale PROVE \E m \in 0..MaxPairs : Recent(m)'
    BY <1>2 DEF Fresh
  <2>1. PICK m \in 0..MaxPairs : Recent(m)
    BY DEF Core, Fresh
  <2>2. m <= issued /\ Young(m, 0) /\ Young(m, issued + 1)
    BY <1>1, <2>1 DEF Recent, Young
  <2>3. Young(m, jar')
    BY <1>1, <2>1, <2>2 DEF Recent
  <2>4. \A p \in Reqs : Young(m, req'[p].pair) /\ (req'[p].fresh > None => req'[p].fresh > m)
    BY <1>1, <1>4, <2>1, <2>2, IdleFact DEF Recent, Grows, Alike, Like
  <2>5. \A p \in Reqs : req'[p].again /\ req'[p].via = "middleware" /\ req'[p].step # "wait"
                    => req'[p].pair > m /\ req'[p].step \in {"auth", "ok", "failed"}
    <3> TAKE p \in Reqs
    <3>1. CASE p = q
      BY <3>1, <2>1 DEF Recent, Grows
    <3>2. CASE Alike(p)
      BY <3>2, <2>1 DEF Recent, Alike, Like
    <3>3. CASE req'[p] = Idle
      BY <3>3, IdleFact
    <3> QED
      BY <1>4, <3>1, <3>2, <3>3
  <2> QED
    BY <1>1, <1>2, <2>1, <2>2, <2>3, <2>4, <2>5 DEF Recent, Young
<1> QED
  BY <1>7, <1>8, <1>9, <1>12, <1>13, <1>14, <1>15, <1>16 DEF Core

LEMMA ValidateCore == ASSUME Core, NEW q \in Reqs, ValidateRefresh(q) PROVE Core'
<1> USE DEF Keep, None
<1>1. req[q].step = "validate" /\ UNCHANGED <<jar, ended, lost, stale>>
  BY DEF ValidateRefresh, ServerOnly, historyVars
<1>2. req[q] \in Request /\ req[q].fresh = Keep /\ req[q].pair # None /\ req[q].kind # "login"
  BY <1>1 DEF Core, CoreType, Shaped
<1>3. req[q].pair \in Pairs /\ req[q].pair <= issued /\ req[q].via \in {"middleware", "endpoint"}
  BY <1>2, FieldFact, BoundsFact DEF Core, Made, Pairs
<1>4. ~(req[q].again /\ req[q].via = "middleware" /\ ended = {} /\ ~lost /\ ~stale)
  BY <1>1, OnceFact
<1>5. CASE issued' = issued
  <2> DEFINE f == IF req[q].via = "endpoint" THEN None ELSE Keep
  <2>1. UNCHANGED serverVars /\ req' = [req EXCEPT ![q].step = "refused", ![q].fresh = f] /\ "refused" \in Steps
        /\ f \in -1..MaxPairs
    BY <1>5, BoundsFact DEF ValidateRefresh, Steps, AnswerSteps, Core, CoreType
  <2>2. f = Keep \/ f = None
    OBVIOUS
  <2> HIDE DEF f
  <2>3. Turn(q, "refused", f)
    BY <2>1, TurnFact DEF Core
  <2>4. Shaped(q)'
    BY <1>1, <1>2, <2>2, <2>3 DEF Core, Shaped, Turn
  <2>5. Goes(q, "refused", f)
    BY <1>1, <1>2, <1>4, <2>1, <2>2, <2>3, <2>4 DEF Goes, ServerRest
  <2> QED
    BY <2>1, <2>5, GoesCore
<1>6. CASE issued' # issued
  <2> DEFINE l == login[req[q].pair]
  <2>1. /\ req[q].pair \notin deniedRefresh /\ issued < MaxPairs /\ issued' = issued + 1 /\ login' = [login EXCEPT ![issued + 1] = l]
        /\ req' = [req EXCEPT ![q].step = "store", ![q].fresh = issued + 1]
        /\ UNCHANGED <<logins, accessExpired, deniedAccess, deniedRefresh, rotation>>
    BY <1>6 DEF ValidateRefresh, serverVars
  <2>2. l \in 1..logins /\ logins \in logins..MaxLogins
    <3>1. l \in 0..MaxLogins /\ l # 0 /\ l <= logins /\ logins \in 0..MaxLogins
      BY <1>3 DEF Core, CoreType, Made
    <3> QED
      BY <3>1, BoundsFact
  <2>3. issued + 1 \in -1..MaxPairs /\ "store" \in Steps /\ issued + 1 > req[q].pair /\ issued + 1 > 0
    BY <1>3, <2>1, BoundsFact DEF Core, CoreType, Steps, ServerSteps, Pairs
  <2>4. Turn(q, "store", issued + 1)
    BY <2>1, <2>3, TurnFact DEF Core
  <2>5. Shaped(q)'
    BY <1>1, <1>2, <2>3, <2>4 DEF Core, Shaped, Turn
  <2>6. \A p \in Reqs : p # q => Alike(p)
    BY <2>4 DEF Turn, Alike, Like
  <2> HIDE DEF l
  <2>7. Grows(q, l)
    BY <1>1, <1>2, <1>4, <2>1, <2>2, <2>4, <2>5, <2>6 DEF Grows, Turn
  <2> QED
    BY <2>7, GrowsCore
<1> QED
  BY <1>5, <1>6

LEMMA ServeLoginCore == ASSUME Core, logins < MaxLogins, NEW q \in Reqs, ServeLogin(q) PROVE Core'
<1> USE DEF Keep, None
<1>1. req[q].step = "auth" /\ req[q].kind = "login" /\ UNCHANGED <<jar, ended, lost, stale>>
  BY DEF ServeLogin, ServerOnly, historyVars
<1>2. req[q].fresh = Keep /\ req[q].via = "middleware"
  BY <1>1 DEF Core, Shaped
<1>3. /\ issued < MaxPairs /\ issued' = issued + 1 /\ login' = [login EXCEPT ![issued + 1] = logins + 1]
      /\ logins' = logins + 1 /\ req' = [req EXCEPT ![q].step = "ok", ![q].fresh = issued + 1]
      /\ UNCHANGED <<accessExpired, deniedAccess, deniedRefresh, rotation>>
  BY DEF ServeLogin, NewSession
<1>4. issued + 1 \in -1..MaxPairs /\ issued + 1 > 0 /\ "ok" \in Steps
  BY <1>3, BoundsFact DEF Core, CoreType, Steps, AnswerSteps
<1>5. Turn(q, "ok", issued + 1)
  BY <1>3, <1>4, TurnFact DEF Core
<1>6. logins' \in logins..MaxLogins /\ logins + 1 \in 1..logins'
  BY <1>3, BoundsFact DEF Core, CoreType
<1>7. Shaped(q)'
  BY <1>1, <1>2, <1>4, <1>5 DEF Shaped, Turn
<1>8. \A p \in Reqs : p # q => Alike(p)
  BY <1>5 DEF Turn, Alike, Like
<1>9. Grows(q, logins + 1)
  BY <1>1, <1>2, <1>3, <1>5, <1>6, <1>7, <1>8 DEF Grows, Turn, Brings
<1> QED
  BY <1>9, GrowsCore

LEMMA OAuthCore == ASSUME Core, logins < MaxLogins, NEW q \in Reqs, NEW t \in Tabs, OAuthReturn(q, t) PROVE Core'
<1> USE DEF Keep, None
<1>1. jar' = issued + 1 /\ Abort(t, req)[q].step = "idle" /\ UNCHANGED <<ended, lost, stale>>
  BY DEF OAuthReturn, Load, FreeIn, historyVars
<1>2. /\ issued < MaxPairs /\ issued' = issued + 1 /\ login' = [login EXCEPT ![issued + 1] = logins + 1]
      /\ logins' = logins + 1 /\ req' = [Abort(t, req) EXCEPT ![q] = Sent("boot", t, jar')]
      /\ UNCHANGED <<accessExpired, deniedAccess, deniedRefresh, rotation>>
  BY DEF OAuthReturn, NewSession, Load
<1>3. jar' \in 0..MaxPairs
  BY <1>1, <1>2, BoundsFact DEF Core, CoreType
<1>4. /\ req[q].step \in {"idle", "wait"} /\ req[q].fresh = Keep
      /\ req' \in [Reqs -> Request] /\ req'[q] = Sent("boot", t, jar')
      /\ \A p \in Reqs : p # q => Alike(p) \/ (req[p].step = "wait" /\ req'[p] = Idle)
  BY <1>1, <1>2, <1>3, LoadFact
<1>5. logins' \in logins..MaxLogins /\ logins + 1 \in 1..logins'
  BY <1>2, BoundsFact DEF Core, CoreType
<1>6. /\ req'[q].step = "auth" /\ req'[q].kind = "boot" /\ req'[q].via = "middleware" /\ req'[q].pair = issued + 1
      /\ req'[q].fresh = Keep
  BY <1>1, <1>4, SentFields
<1>7. ~req'[q].again
  BY <1>4, SentFirst
<1>8. Shaped(q)'
  BY <1>6 DEF Shaped
<1>9. Grows(q, logins + 1)
  BY <1>1, <1>2, <1>4, <1>5, <1>6, <1>7, <1>8 DEF Grows, Brings
<1> QED
  BY <1>9, GrowsCore

\* A request in one of RefreshToken's last steps.
LEMMA RotatingFact == ASSUME Core, NEW q \in Reqs, req[q].step \in {"store", "deny"}
                      PROVE  /\ req[q].pair \in Pairs /\ req[q].fresh > req[q].pair /\ req[q].fresh <= issued
                             /\ req[q].fresh \in 0..MaxPairs /\ req[q].fresh > None /\ Brings(q)
                             /\ req[q].kind # "login" /\ req[q].via \in {"middleware", "endpoint"}
                             /\ ~(req[q].again /\ req[q].via = "middleware" /\ ended = {} /\ ~lost /\ ~stale)
<1>1. /\ req[q].pair \in 0..MaxPairs /\ req[q].fresh \in -1..MaxPairs /\ req[q].via \in {"middleware", "endpoint"}
      /\ req[q].fresh <= issued
  BY FieldFact DEF Core, CoreType, Made
<1>2. req[q].pair # None /\ req[q].fresh > None /\ req[q].kind # "login"
  BY DEF Core, Shaped
<1>3. req[q].fresh > req[q].pair
  BY <1>2 DEF Core, Shaped
<1>4. ~(req[q].again /\ req[q].via = "middleware" /\ ended = {} /\ ~lost /\ ~stale)
  BY OnceFact
<1> QED
  BY <1>1, <1>2, <1>3, <1>4, BoundsFact DEF Brings, None, Pairs

LEMMA StoreCore == ASSUME Core, NEW q \in Reqs, StoreRotation(q) PROVE Core'
<1> USE DEF Keep, None
<1>1. /\ req[q].step = "store" /\ rotation' = [rotation EXCEPT ![req[q].pair] = req[q].fresh]
      /\ req' = [req EXCEPT ![q].step = "deny"] /\ "deny" \in Steps
      /\ UNCHANGED <<issued, login, logins, accessExpired, deniedAccess, deniedRefresh, jar, ended, lost, stale>>
  BY DEF StoreRotation, ServerOnly, historyVars, Steps, ServerSteps
<1>2. /\ req[q].pair \in Pairs /\ req[q].fresh > req[q].pair /\ req[q].fresh <= issued /\ Brings(q)
      /\ req[q].fresh \in 0..MaxPairs /\ req[q].fresh > 0 /\ req[q].kind # "login"
      /\ ~(req[q].again /\ req[q].via = "middleware" /\ ended = {} /\ ~lost /\ ~stale)
  BY <1>1, RotatingFact
<1>3. Turn(q, "deny", req[q].fresh)
  BY <1>1, StepFact DEF Core
<1>4. /\ req'[q].step = "deny" /\ \A p \in Reqs : p # q => req'[p] = req[p]
      /\ \A p \in Reqs : req'[p].pair = req[p].pair /\ req'[p].fresh = req[p].fresh /\ req'[p].via = req[p].via
                         /\ req'[p].kind = req[p].kind /\ req'[p].again = req[p].again
  BY <1>3 DEF Turn
<1>5. /\ rotation \in [Pairs -> 0..MaxPairs] /\ rotation' \in [Pairs -> 0..MaxPairs]
      /\ rotation'[req[q].pair] = req[q].fresh
      /\ \A i \in Pairs : i # req[q].pair => rotation'[i] = rotation[i]
  BY <1>1, <1>2 DEF Core, CoreType
<1>6. CoreType' /\ \A p \in Reqs : Shaped(p)'
  BY <1>1, <1>3, <1>4, <1>5, <1>2 DEF Core, CoreType, Turn, Shaped
<1>7. Made'
  BY <1>1, <1>2, <1>4, <1>5 DEF Core, Made
<1>8. RevokedEnded' /\ DenyRotated'
  BY <1>1, <1>2, <1>4, <1>5, FieldFact DEF Core, CoreType, RevokedEnded, DenyRotated, Live, Pairs
<1>9. RotatedDenied'
  BY <1>1, <1>4, <1>5 DEF Core, RotatedDenied
<1>10. \A p \in Reqs : Brings(p)' = Brings(p)
  BY <1>4 DEF Brings
<1>11. Kept'
  <2> SUFFICES ASSUME NEW p \in Reqs, Brings(p) \/ (req[p].via = "endpoint" /\ ~lost /\ ~stale),
                      Live(req[p].pair), req[p].pair \in deniedRefresh
               PROVE  rotation'[req[p].pair] # None
    BY <1>1, <1>4, <1>10 DEF Kept, Live
  <2>1. req[p].pair \in Pairs
    BY FieldFact, BoundsFact DEF Core, CoreType, Live, Pairs
  <2> QED
    BY <1>2, <1>5, <2>1 DEF Core, Kept
<1>12. Awaited'
  BY <1>1, <1>4, <1>10 DEF Core, Awaited, Replaced, Live
<1>13. Fresh'
  <2> SUFFICES ASSUME ended = {}, ~lost, ~stale PROVE \E m \in 0..MaxPairs : Recent(m)'
    BY <1>1 DEF Fresh
  <2>1. PICK m \in 0..MaxPairs : Recent(m)
    BY DEF Core, Fresh
  <2>2. \A i \in 0..MaxPairs : Young(m, i) => Young(m, i)'
    <3>1. req[q].fresh > m
      BY <1>2, <2>1 DEF Recent
    <3>2. \A i \in 0..MaxPairs : i # 0 => i \in Pairs
      BY BoundsFact DEF Pairs
    <3> QED
      BY <3>1, <3>2, <1>5 DEF Young
  <2>3. \A p \in Reqs : req[p].pair \in 0..MaxPairs
    BY FieldFact DEF Core, CoreType
  <2>4. jar \in 0..MaxPairs
    BY DEF Core, CoreType
  <2>5. Young(m, jar)' /\ \A p \in Reqs : Young(m, req[p].pair)'
    BY <1>1, <1>4, <2>1, <2>2, <2>3, <2>4 DEF Recent, Young
  <2> QED
    BY <1>1, <1>2, <1>4, <2>1, <2>5 DEF Recent
<1> QED
  BY <1>6, <1>7, <1>8, <1>9, <1>11, <1>12, <1>13 DEF Core

LEMMA DenyCore == ASSUME Core, NEW q \in Reqs, DenyOld(q) PROVE Core'
<1> USE DEF Keep, None
<1> DEFINE s == AfterRotation(q)
<1>1. /\ req[q].step = "deny" /\ deniedRefresh' = deniedRefresh \cup {req[q].pair}
      /\ req' = [req EXCEPT ![q].step = s] /\ s \in Steps /\ s \in {"ok", "recheck"}
      /\ (s = "recheck" <=> req[q].via = "middleware")
      /\ UNCHANGED <<issued, login, logins, accessExpired, deniedAccess, rotation, jar, ended, lost, stale>>
  BY DEF DenyOld, ServerOnly, historyVars, Steps, ServerSteps, AnswerSteps, AfterRotation
<1> HIDE DEF s
<1>2. /\ req[q].pair \in Pairs /\ req[q].fresh > req[q].pair /\ req[q].fresh <= issued /\ Brings(q)
      /\ req[q].fresh > 0 /\ req[q].kind # "login" /\ req[q].via \in {"middleware", "endpoint"}
      /\ ~(req[q].again /\ req[q].via = "middleware" /\ ended = {} /\ ~lost /\ ~stale)
  BY <1>1, RotatingFact
<1>3. Turn(q, s, req[q].fresh)
  BY <1>1, StepFact DEF Core
<1>4. /\ req'[q].step = s /\ \A p \in Reqs : p # q => req'[p] = req[p]
      /\ \A p \in Reqs : req'[p].pair = req[p].pair /\ req'[p].fresh = req[p].fresh /\ req'[p].via = req[p].via
                         /\ req'[p].kind = req[p].kind /\ req'[p].again = req[p].again
  BY <1>3 DEF Turn
<1>5. CoreType' /\ \A p \in Reqs : Shaped(p)'
  BY <1>1, <1>2, <1>3, <1>4 DEF Core, CoreType, Turn, Shaped
<1>6. Made'
  <2>1. req[q].pair <= issued
    BY DEF Core, Made
  <2>2. \A p \in Reqs : req'[p].pair <= issued /\ req'[p].fresh <= issued
    BY <1>4 DEF Core, Made
  <2> QED
    BY <1>1, <2>1, <2>2 DEF Core, Made
<1>7. RevokedEnded' /\ DenyRotated'
  BY <1>1, <1>4 DEF Core, RevokedEnded, DenyRotated, Live
<1>8. RotatedDenied'
  BY <1>1, <1>4 DEF Core, RotatedDenied
<1>9. \A p \in Reqs : Brings(p)' = Brings(p)
  BY <1>4 DEF Brings
<1>10. Kept'
  <2> SUFFICES ASSUME NEW p \in Reqs, Brings(p) \/ (req[p].via = "endpoint" /\ ~lost /\ ~stale),
                      Live(req[p].pair), req[p].pair \in deniedRefresh \/ req[p].pair = req[q].pair
               PROVE  rotation[req[p].pair] # None
    BY <1>1, <1>4, <1>9 DEF Kept, Live
  <2> QED
    BY <1>1 DEF Core, Kept, DenyRotated
<1>11. Awaited'
  <2> SUFFICES ASSUME ~lost, ~stale, Live(jar), jar \in deniedRefresh \/ jar = req[q].pair PROVE Replaced(jar)'
    BY <1>1 DEF Awaited, Live
  <2>1. Replaced(jar)
    BY <1>2 DEF Core, Awaited, Replaced
  <2> QED
    BY <1>1, <1>4, <1>9, <2>1 DEF Replaced
<1>12. Fresh'
  <2> SUFFICES ASSUME ended = {}, ~lost, ~stale PROVE \E m \in 0..MaxPairs : Recent(m)'
    BY <1>1 DEF Fresh
  <2>1. PICK m \in 0..MaxPairs : Recent(m)
    BY DEF Core, Fresh
  <2>2. \A p \in Reqs : req'[p].again /\ req'[p].via = "middleware" /\ req'[p].step # "wait"
                    => req'[p].pair > m /\ req'[p].step \in {"auth", "ok", "failed"}
    BY <1>2, <1>4, <2>1 DEF Recent
  <2> QED
    BY <1>1, <1>4, <2>1, <2>2 DEF Recent, Young
<1> QED
  BY <1>5, <1>6, <1>7, <1>8, <1>10, <1>11, <1>12 DEF Core

LEMMA ServeLogoutCore == ASSUME Core, NEW q \in Reqs, ServeLogout(q) PROVE Core'
<1> USE DEF Keep, None
<1> DEFINE k == req[q].pair
<1>1. /\ req[q].step = "revoke" /\ req' = [req EXCEPT ![q].step = "ok", ![q].fresh = None]
      /\ deniedAccess' = deniedAccess \cup {k} /\ deniedRefresh' = deniedRefresh \cup {k}
      /\ rotation' = [rotation EXCEPT ![k] = None] /\ ended' = ended \cup {login[k]}
      /\ UNCHANGED <<issued, login, logins, accessExpired, jar, lost, stale>>
  BY DEF ServeLogout
<1>2. req[q].kind = "logout" /\ req[q].via = "middleware" /\ k # None
  BY <1>1 DEF Core, Shaped
<1>3. Turn(q, "ok", None)
  <2>1. "ok" \in Steps /\ None \in -1..MaxPairs
    BY BoundsFact DEF Steps, AnswerSteps
  <2> QED
    BY <1>1, <2>1, TurnFact DEF Core
<1>4. Shaped(q)'
  BY <1>1, <1>2, <1>3 DEF Core, Shaped, Turn
<1>5. k \in Pairs /\ k <= issued
  BY <1>2, FieldFact, BoundsFact DEF Core, CoreType, Made, Pairs
<1> HIDE DEF k
<1>6. /\ req'[q].step = "ok" /\ req'[q].fresh = 0 /\ \A p \in Reqs : p # q => req'[p] = req[p]
      /\ \A p \in Reqs : req'[p].pair = req[p].pair /\ req'[p].via = req[p].via
                         /\ req'[p].kind = req[p].kind /\ req'[p].again = req[p].again
  BY <1>3 DEF Turn
<1>7. login[k] \in 1..MaxLogins
  <2>1. login[k] \in 0..MaxLogins /\ login[k] # 0
    BY <1>5 DEF Core, CoreType, Made
  <2> QED
    BY <2>1, BoundsFact
<1>8. /\ rotation' \in [Pairs -> 0..MaxPairs]
      /\ \A i \in Pairs : rotation'[i] = IF i = k THEN 0 ELSE rotation[i]
  BY <1>1, <1>5, BoundsFact DEF Core, CoreType
<1>9. CoreType'
  BY <1>1, <1>3, <1>5, <1>7, <1>8 DEF Turn, Core, CoreType
<1>10. \A p \in Reqs : Shaped(p)'
  BY <1>4, <1>6 DEF Core, Shaped
<1>11. Made'
  <2>1. issued \in Nat
    BY DEF Core, CoreType
  <2>2. \A p \in Reqs : req'[p].pair <= issued /\ req'[p].fresh <= issued
    BY <1>6, <2>1 DEF Core, Made
  <2> QED
    BY <1>1, <1>5, <1>8, <2>2 DEF Core, Made
<1>12. RevokedEnded'
  BY <1>1 DEF Core, RevokedEnded
<1>13. \A i : Live(i)' => Live(i) /\ i # k
  BY <1>1 DEF Live
<1>14. \A p \in Reqs : req[p].pair # None => req[p].pair \in Pairs
  BY FieldFact, BoundsFact DEF Core, CoreType, Pairs
<1>15. DenyRotated'
  <2> SUFFICES ASSUME NEW p \in Reqs, req'[p].step = "deny", Live(req[p].pair)' PROVE rotation'[req[p].pair] # None
    BY <1>6 DEF DenyRotated, Live
  <2>1. req[p].step = "deny" /\ Live(req[p].pair) /\ req[p].pair # k
    BY <1>6, <1>13
  <2>2. req[p].pair \in Pairs
    BY <1>14, <2>1 DEF Live
  <2> QED
    BY <1>8, <2>1, <2>2 DEF Core, DenyRotated
<1>16. RotatedDenied'
  <2> SUFFICES ASSUME NEW i \in Pairs, rotation'[i] # None, i \notin deniedRefresh'
               PROVE  \E p \in Reqs : req'[p].step = "deny" /\ req'[p].pair = i
    BY DEF RotatedDenied
  <2>1. PICK p \in Reqs : req[p].step = "deny" /\ req[p].pair = i
    BY <1>1, <1>8 DEF Core, RotatedDenied
  <2> QED
    BY <1>1, <1>6, <2>1
<1>17. \A p \in Reqs : Brings(p)' <=> Brings(p) /\ p # q
  <2>1. ~Brings(q)'
    BY <1>6 DEF Brings
  <2> QED
    BY <1>6, <2>1 DEF Brings
<1>18. Kept'
  <2>1. ASSUME NEW p \in Reqs, Brings(p) \/ (req[p].via = "endpoint" /\ ~lost /\ ~stale),
               Live(req[p].pair)', req[p].pair \in deniedRefresh \/ req[p].pair = k
        PROVE  rotation'[req[p].pair] # None
    <3>1. Live(req[p].pair) /\ req[p].pair # k
      BY <1>6, <1>13, <2>1 DEF Live
    <3>2. req[p].pair \in Pairs
      BY <1>14, <3>1 DEF Live
    <3> QED
      BY <1>8, <2>1, <3>1, <3>2 DEF Core, Kept
  <2>2. SUFFICES ASSUME NEW p \in Reqs, Brings(p)' \/ (req'[p].via = "endpoint" /\ ~lost' /\ ~stale'),
                        Live(req[p].pair)', req'[p].pair \in deniedRefresh'
                 PROVE  rotation'[req'[p].pair] # None
    BY DEF Kept
  <2>3. Brings(p) \/ (req[p].via = "endpoint" /\ ~lost /\ ~stale)
    BY <1>1, <1>6, <1>17, <2>2
  <2>4. req[p].pair \in deniedRefresh \/ req[p].pair = k
    BY <1>1, <1>6, <2>2
  <2> QED
    BY <1>6, <2>1, <2>2, <2>3, <2>4
<1>19. Awaited'
  <2> SUFFICES ASSUME ~lost, ~stale, Live(jar)', jar \in deniedRefresh \/ jar = k PROVE Replaced(jar)'
    BY <1>1 DEF Awaited, Live
  <2>1. Live(jar) /\ jar # k
    BY <1>1 DEF Live
  <2>2. PICK p \in Reqs : Brings(p) /\ req[p].pair = jar
    BY <2>1 DEF Core, Awaited, Replaced
  <2>3. p # q
    BY <2>1, <2>2 DEF k
  <2> QED
    BY <1>1, <1>6, <1>17, <2>2, <2>3 DEF Replaced
<1>20. Fresh'
  BY <1>1 DEF Fresh
<1> QED
  BY <1>9, <1>10, <1>11, <1>12, <1>15, <1>16, <1>18, <1>19, <1>20 DEF Core

\* While nothing is in flight the cookies of a session lead nowhere.
LEMMA QuietFact == ASSUME Core, Quiet
                   PROVE  /\ \A q \in Reqs : req[q].pair = None /\ req[q].fresh = Keep /\ ~req[q].again
                                             /\ req[q].via = "middleware" /\ req[q].step = "idle"
                          /\ ended = {} /\ ~lost /\ ~stale /\ jar # None => rotation[jar] = None
<1>1. \A q \in Reqs : req[q] = Idle
  BY DEF Core, Shaped, Quiet
<1>2. \A q \in Reqs : /\ req[q].pair = None /\ req[q].fresh = Keep /\ req[q].via = "middleware" /\ req[q].step = "idle"
  BY <1>1, IdleFact
<1>3. \A q \in Reqs : ~req[q].again
  BY <1>1, IdleFact
<1>4. \A i : ~Replaced(i)
  BY <1>2 DEF Replaced, Brings, Keep, None
<1>5. ASSUME ended = {}, ~lost, ~stale, jar # None, rotation[jar] # None PROVE FALSE
  <2>1. jar \in Pairs
    BY <1>5, BoundsFact DEF Core, CoreType, Pairs, None
  <2>2. jar \in deniedRefresh
    BY <1>2, <1>5, <2>1 DEF Core, RotatedDenied
  <2> QED
    BY <1>4, <1>5, <2>2 DEF Core, Awaited, Live
<1> QED
  BY <1>2, <1>3, <1>5

LEMMA ExpireCore == ASSUME Core, NEW i \in Pairs, ExpireAccess(i) PROVE Core'
<1>1. /\ Quiet /\ i \in 1..issued /\ accessExpired' = accessExpired \cup {i}
      /\ UNCHANGED <<issued, login, logins, deniedAccess, deniedRefresh, rotation, jar, req, ended, lost, stale>>
  BY DEF ExpireAccess, historyVars
<1>2. CoreType' /\ (\A q \in Reqs : Shaped(q)') /\ Made'
  BY <1>1, BoundsFact DEF Core, CoreType, Shaped, Made
<1>3. RevokedEnded' /\ DenyRotated' /\ RotatedDenied' /\ Kept' /\ Awaited'
  BY <1>1 DEF Core, RevokedEnded, DenyRotated, RotatedDenied, Kept, Awaited, Replaced, Brings, Live
<1>4. Fresh'
  <2> SUFFICES ASSUME ended = {}, ~lost, ~stale PROVE \E m \in 0..MaxPairs : Recent(m)'
    BY <1>1 DEF Fresh
  <2>1. issued \in 0..MaxPairs /\ \A k \in accessExpired' : k <= issued
    BY <1>1, <1>2 DEF CoreType, Made
  <2>2. Young(issued, jar)' /\ Young(issued, None)'
    BY <1>1, QuietFact DEF Young
  <2>3. Recent(issued)'
    BY <1>1, <2>1, <2>2, QuietFact, BoundsFact DEF Recent, Keep, None
  <2> QED
    BY <1>1, <2>1, <2>3 DEF Recent, Young
<1> QED
  BY <1>2, <1>3, <1>4 DEF Core

LEMMA GraceCore == ASSUME Core, NEW i \in Pairs, GraceEnds(i) PROVE Core'
<1>1. /\ Quiet /\ rotation' = [rotation EXCEPT ![i] = None]
      /\ UNCHANGED <<issued, login, logins, accessExpired, deniedAccess, deniedRefresh, jar, req, ended, lost, stale>>
  BY DEF GraceEnds, historyVars
<1>2. /\ rotation' \in [Pairs -> 0..MaxPairs]
      /\ \A k \in Pairs : rotation'[k] = IF k = i THEN None ELSE rotation[k]
  BY <1>1, BoundsFact DEF Core, CoreType, None
<1>3. CoreType' /\ (\A q \in Reqs : Shaped(q)') /\ Made'
  BY <1>1, <1>2 DEF Core, CoreType, Shaped, Made
<1>4. RevokedEnded' /\ DenyRotated' /\ RotatedDenied' /\ Kept' /\ Awaited'
  BY <1>1, <1>2, QuietFact DEF Core, RevokedEnded, DenyRotated, RotatedDenied, Kept, Awaited, Replaced, Brings, Live
<1>5. Fresh'
  <2> SUFFICES ASSUME ended = {}, ~lost, ~stale PROVE \E m \in 0..MaxPairs : Recent(m)'
    BY <1>1 DEF Fresh
  <2>1. PICK m \in 0..MaxPairs : Recent(m)
    BY DEF Core, Fresh
  <2>2. jar = None \/ jar \in Pairs
    BY BoundsFact DEF Core, CoreType, Pairs, None
  <2>3. Young(m, jar)' /\ Young(m, None)'
    BY <1>1, <1>2, <2>1, <2>2 DEF Recent, Young
  <2>4. \A q \in Reqs : Young(m, req[q].pair)'
    BY <1>1, <2>3, QuietFact DEF Young
  <2> QED
    BY <1>1, <2>1, <2>3, <2>4 DEF Recent
<1> QED
  BY <1>3, <1>4, <1>5 DEF Core

LEMMA RestartCore == ASSUME Core, Restart PROVE Core'
<1> USE DEF Keep, None
<1>1. /\ deniedAccess' = {} /\ deniedRefresh' = {} /\ rotation' = [i \in Pairs |-> None]
      /\ UNCHANGED <<issued, login, logins, accessExpired, jar, ended, lost, stale>>
  BY DEF Restart
<1>2. \A r \in Request : /\ [r EXCEPT !.step = "failed"] \in Request
                         /\ [r EXCEPT !.step = "failed"].kind = r.kind /\ [r EXCEPT !.step = "failed"].via = r.via
                         /\ [r EXCEPT !.step = "failed"].pair = r.pair /\ [r EXCEPT !.step = "failed"].fresh = r.fresh
                         /\ [r EXCEPT !.step = "failed"].again = r.again
                         /\ [r EXCEPT !.step = "failed"].step = "failed"
  BY DEF Request, Steps, AnswerSteps
<1>3. /\ req' \in [Reqs -> Request]
      /\ \A q \in Reqs : IF req[q].step \in ServerSteps
                         THEN /\ req'[q].step = "failed" /\ req'[q].kind = req[q].kind /\ req'[q].via = req[q].via
                              /\ req'[q].pair = req[q].pair /\ req'[q].fresh = req[q].fresh
                              /\ req'[q].again = req[q].again
                         ELSE req'[q] = req[q]
  <2> DEFINE fail(r) == [r EXCEPT !.step = "failed"]
  <2>1. req' = [q \in Reqs |-> IF req[q].step \in ServerSteps THEN fail(req[q]) ELSE req[q]]
    BY DEF Restart
  <2>2. \A r \in Request : /\ fail(r) \in Request /\ fail(r).kind = r.kind /\ fail(r).via = r.via
                           /\ fail(r).pair = r.pair /\ fail(r).fresh = r.fresh /\ fail(r).again = r.again
                           /\ fail(r).step = "failed"
    BY <1>2
  <2> HIDE DEF fail
  <2>3. \A q \in Reqs : req[q] \in Request
    BY DEF Core, CoreType
  <2> QED
    BY <2>1, <2>2, <2>3
<1>4. CoreType'
  BY <1>1, <1>3, BoundsFact DEF Core, CoreType
<1>5. \A q \in Reqs : Shaped(q)'
  BY <1>3 DEF Core, Shaped, ServerSteps
<1>6. Made'
  BY <1>1, <1>3 DEF Core, Made
<1>7. RevokedEnded' /\ DenyRotated' /\ RotatedDenied' /\ Kept' /\ Awaited'
  BY <1>1, <1>3 DEF RevokedEnded, DenyRotated, RotatedDenied, Kept, Awaited, ServerSteps
<1>8. Fresh'
  <2> SUFFICES ASSUME ended = {}, ~lost, ~stale PROVE \E m \in 0..MaxPairs : Recent(m)'
    BY <1>1 DEF Fresh
  <2>1. PICK m \in 0..MaxPairs : Recent(m)
    BY DEF Core, Fresh
  <2>2. \A i \in 0..MaxPairs : Young(m, i)'
    BY <1>1, BoundsFact DEF Young, Pairs
  <2>3. \A q \in Reqs : req'[q].pair \in 0..MaxPairs
    BY <1>3, FieldFact
  <2>4. \A q \in Reqs : req'[q].again /\ req'[q].via = "middleware" /\ req'[q].step # "wait"
                    => req'[q].pair > m /\ req'[q].step \in {"auth", "ok", "failed"}
    BY <1>3, <2>1 DEF Recent, ServerSteps
  <2>5. \A q \in Reqs : req'[q].fresh > None => req'[q].fresh > m
    BY <1>3, <2>1 DEF Recent
  <2>6. Young(m, jar)' /\ \A q \in Reqs : Young(m, req[q].pair)'
    BY <1>4, <2>2, <2>3 DEF CoreType, Young
  <2> QED
    BY <1>1, <2>1, <2>4, <2>5, <2>6 DEF Recent
<1> QED
  BY <1>4, <1>5, <1>6, <1>7, <1>8 DEF Core

-----------------------------------------------------------------------------
(***************************************************************************)
(* The tabs, their refresh calls and the sign-ins                           *)
(***************************************************************************)
\* A request that becomes neither a login nor a refresh call.
Modest(p) == /\ req'[p].kind = "login" /\ req'[p].step = "auth" => req[p].kind = "login" /\ req[p].step = "auth"
             /\ req'[p].step # "idle" /\ req'[p].tab # NoTab /\ req'[p].via = "endpoint"
                   => req[p].step # "idle" /\ req[p].via = "endpoint" /\ req[p].tab = req'[p].tab

LEMMA AskingFact == /\ IsFiniteSet(Asking) /\ Cardinality(Asking) \in Nat
                    /\ \A A \in SUBSET Reqs : IsFiniteSet(A) /\ Cardinality(A) \in Nat
  BY BoundsFact, FS_Subset, FS_CardinalityType DEF Asking

\* The calls of tabs that do nothing themselves.
LEMMA ModestSingle == ASSUME Single, UNCHANGED refresher, \A p \in Reqs : Modest(p) PROVE Single'
  BY DEF Single, Modest

LEMMA ModestAsking == ASSUME \A p \in Reqs : Modest(p) PROVE Asking' \subseteq Asking
  BY DEF Asking, Modest

LEMMA FewerBudget == ASSUME Budget, CoreType, UNCHANGED logins, Asking' \subseteq Asking PROVE Budget'
<1>2. Cardinality(Asking') <= Cardinality(Asking) /\ Cardinality(Asking') \in Nat
  BY AskingFact, FS_Subset, FS_CardinalityType
<1> QED
  BY <1>2, AskingFact, BoundsFact DEF Budget, CoreType

\* A request that goes on, or is over, is no new call.
LEMMA PutModest == ASSUME CoreType, NEW q \in Reqs, NEW r \in Request, req' = [req EXCEPT ![q] = r],
                          r.step # "auth" \/ r.kind # "login", r.step = "idle" \/ r.via = "middleware"
                   PROVE  \A p \in Reqs : Modest(p)
  BY DEF CoreType, Modest

LEMMA TurnModest == ASSUME NEW q \in Reqs, NEW s, NEW f, Turn(q, s, f), s # "auth", req[q].step # "idle"
                    PROVE  \A p \in Reqs : Modest(p)
  BY DEF Modest, Turn

LEMMA ServerModest == ASSUME Core, NEW q \in Reqs, Server(q)
                      PROVE  UNCHANGED <<tabVars, faults>> /\ \A p \in Reqs : Modest(p)
<1>1. req[q] \in Request /\ req[q].fresh \in -1..MaxPairs /\ req[q].pair \in 0..MaxPairs
      /\ {"idle", "auth", "cache", "validate", "store", "deny", "recheck", "revoke", "ok", "refused"} \subseteq Steps
  BY FieldFact DEF Core, CoreType, Steps, ServerSteps, AnswerSteps
<1>2. UNCHANGED <<tabVars, faults>> /\ req[q].step # "idle"
  BY DEF Server, Authenticate, LookupRotation, ValidateRefresh, StoreRotation, DenyOld, Recheck, ServeLogin, ServeLogout,
         ServerOnly, tabVars, historyVars
<1>5. CASE Authenticate(q)
  <2>1. PICK s \in {"ok", "revoke", "refused", "cache"} : req' = [req EXCEPT ![q].step = s]
    BY <1>5 DEF Authenticate, Passed
  <2>2. Turn(q, s, req[q].fresh)
    BY <1>1, <2>1, StepFact DEF Core
  <2> QED
    BY <1>2, <2>2, TurnModest
<1>6. CASE LookupRotation(q)
  <2>1. req[q].pair \in Pairs
    BY <1>1, <1>6, BoundsFact DEF LookupRotation, Core, Shaped, Pairs, None
  <2>2. rotation[req[q].pair] \in -1..MaxPairs
    BY <2>1, BoundsFact DEF Core, CoreType
  <2>3. CASE req' = [req EXCEPT ![q].step = "validate"]
    <3>1. Turn(q, "validate", req[q].fresh)
      BY <1>1, <2>3, StepFact DEF Core
    <3> QED
      BY <1>2, <3>1, TurnModest
  <2>4. CASE \E s \in {"recheck", "ok"} : req' = [req EXCEPT ![q].step = s, ![q].fresh = rotation[req[q].pair]]
    <3>1. PICK s \in {"recheck", "ok"} : req' = [req EXCEPT ![q].step = s, ![q].fresh = rotation[req[q].pair]]
      BY <2>4
    <3>2. Turn(q, s, rotation[req[q].pair])
      BY <1>1, <2>2, <3>1, TurnFact DEF Core
    <3> QED
      BY <1>2, <3>2, TurnModest
  <2> QED
    BY <1>6, <2>3, <2>4 DEF LookupRotation, AfterRotation
<1>7. CASE ValidateRefresh(q)
  <2>1. -1 \in -1..MaxPairs /\ 0 \in -1..MaxPairs /\ (issued < MaxPairs => issued + 1 \in -1..MaxPairs)
    BY BoundsFact DEF Core, CoreType
  <2>2. \/ issued < MaxPairs /\ req' = [req EXCEPT ![q].step = "store", ![q].fresh = issued + 1]
        \/ \E f \in {-1, 0} : req' = [req EXCEPT ![q].step = "refused", ![q].fresh = f]
    BY <1>7 DEF ValidateRefresh, None, Keep
  <2>3. CASE issued < MaxPairs /\ req' = [req EXCEPT ![q].step = "store", ![q].fresh = issued + 1]
    <3>1. Turn(q, "store", issued + 1)
      BY <1>1, <2>1, <2>3, TurnFact DEF Core
    <3> QED
      BY <1>2, <3>1, TurnModest
  <2>4. CASE \E f \in {-1, 0} : req' = [req EXCEPT ![q].step = "refused", ![q].fresh = f]
    <3>1. PICK f \in {-1, 0} : req' = [req EXCEPT ![q].step = "refused", ![q].fresh = f]
      BY <2>4
    <3>2. Turn(q, "refused", f)
      BY <1>1, <2>1, <3>1, TurnFact DEF Core
    <3> QED
      BY <1>2, <3>2, TurnModest
  <2> QED
    BY <2>2, <2>3, <2>4
<1>8. CASE StoreRotation(q) \/ DenyOld(q) \/ Recheck(q)
  <2>1. PICK s \in {"deny", "recheck", "revoke", "ok", "refused"} : req' = [req EXCEPT ![q].step = s]
    BY <1>8 DEF StoreRotation, DenyOld, Recheck, AfterRotation, Passed
  <2>2. Turn(q, s, req[q].fresh)
    BY <1>1, <2>1, StepFact DEF Core
  <2> QED
    BY <1>2, <2>2, TurnModest
<1>9. CASE ServeLogin(q)
  <2>1. issued + 1 \in -1..MaxPairs /\ req' = [req EXCEPT ![q].step = "ok", ![q].fresh = issued + 1]
    BY <1>9, BoundsFact DEF ServeLogin, NewSession, Core, CoreType
  <2>2. Turn(q, "ok", issued + 1)
    BY <1>1, <2>1, TurnFact DEF Core
  <2> QED
    BY <1>2, <2>2, TurnModest
<1>10. CASE ServeLogout(q)
  <2>1. 0 \in -1..MaxPairs /\ req' = [req EXCEPT ![q].step = "ok", ![q].fresh = 0]
    BY <1>10, BoundsFact DEF ServeLogout, None
  <2>2. Turn(q, "ok", 0)
    BY <1>1, <2>1, TurnFact DEF Core
  <2> QED
    BY <1>2, <2>2, TurnModest
<1> QED
  BY <1>5, <1>6, <1>7, <1>8, <1>9, <1>10 DEF Server

\* The store of a tab after an answer.
LEMMA StoreFact == ASSUME TabType, NEW t \in Tabs, SetAuth(t) \/ ClearAuth(t), page' \in [Tabs -> {"public", "protected"}]
                   PROVE  signedIn' \in [Tabs -> BOOLEAN] /\ ready' \in [Tabs -> BOOLEAN] /\ stored' \in BOOLEAN
  BY DEF TabType, SetAuth, ClearAuth

\* What follows when request q is answered: the tabs stay well typed, a refresh
\* call is still the one its tab knows of, and no login is added.
Settled == TabType' /\ Single' /\ Asking' \subseteq Asking

LEMMA OverSettled == ASSUME CoreType, TabType', Single, UNCHANGED refresher, NEW q \in Reqs,
                            NEW r \in Request, req' = [req EXCEPT ![q] = r],
                            r.step # "auth" \/ r.kind # "login", r.step = "idle" \/ r.via = "middleware"
                     PROVE  Settled
  BY PutModest, ModestSingle, ModestAsking DEF Settled

LEMMA TakerSettled == ASSUME Core, TabType, Single, NEW q \in Reqs, Taker(q) PROVE Settled
<1> DEFINE t == req[q].tab
<1>1. /\ UNCHANGED refresher /\ t \in Tabs /\ Answered(q)
      /\ req'[q] = Idle \/ req'[q] = Sent("boot", t, jar')
      /\ \A p \in Reqs : p # q => Like(req[p], req'[p]) /\ (req'[p].tab = req[p].tab)
  BY TakerFact DEF Alike
<1>2. /\ UNCHANGED faults \/ (faults < MaxFaults /\ faults' = faults + 1)
      /\ UNCHANGED page \/ page' = [page EXCEPT ![t] = "protected"] \/ page' = [page EXCEPT ![t] = "public"]
      /\ \/ UNCHANGED boot
         \/ boot' = [boot EXCEPT ![t] = "loaded"]
         \/ boot' = [boot EXCEPT ![t] = IF @ = "off" THEN "first" ELSE @]
         \/ boot' = [boot EXCEPT ![t] = IF page[t] = "protected" THEN "first" ELSE "off"]
  BY DEF Taker, ReceiveApi, ReceiveSaved, ReceiveBoot, ReceiveProfile, ReceiveLogout, Close, CloseAndClear, ClearAuth,
         Fetched
<1>3. \/ SetAuth(t) \/ ClearAuth(t)
      \/ UNCHANGED <<stored, signedIn, ready>>
      \/ /\ UNCHANGED <<stored, signedIn>>
         /\ ready' = [ready EXCEPT ![t] = @ \/ (~stored /\ page[t] = "public")]
  BY DEF Taker, ReceiveApi, ReceiveSaved, ReceiveBoot, ReceiveProfile, ReceiveLogout, CloseAndClear
<1> HIDE DEF t
<1>4. page' \in [Tabs -> {"public", "protected"}] /\ boot' \in [Tabs -> Boots] /\ faults' \in 0..MaxFaults
  BY <1>1, <1>2, BoundsFact DEF TabType, Boots
<1>5. signedIn' \in [Tabs -> BOOLEAN] /\ ready' \in [Tabs -> BOOLEAN] /\ stored' \in BOOLEAN
  <2>1. CASE SetAuth(t) \/ ClearAuth(t)
    BY <1>1, <1>4, <2>1, StoreFact
  <2>2. CASE UNCHANGED <<stored, signedIn, ready>>
    BY <2>2 DEF TabType
  <2>3. CASE /\ UNCHANGED <<stored, signedIn>>
             /\ ready' = [ready EXCEPT ![t] = @ \/ (~stored /\ page[t] = "public")]
    BY <2>3, Zenon DEF TabType
  <2> QED
    BY <1>3, <2>1, <2>2, <2>3
<1>6. TabType'
  BY <1>1, <1>4, <1>5 DEF TabType
<1>7. \A p \in Reqs : Modest(p)
  <2> TAKE p \in Reqs
  <2>1. CASE p = q
    BY <1>1, <2>1, IdleFact, SentFields DEF Modest
  <2>2. CASE p # q
    BY <1>1, <2>2, IdleFact DEF Modest, Like
  <2> QED
    BY <2>1, <2>2
<1> QED
  BY <1>1, <1>6, <1>7, ModestSingle, ModestAsking DEF Settled

LEMMA OrphanSettled == ASSUME Core, TabType, Single, NEW q \in Reqs, ReceiveOrphan(q) PROVE Settled
<1>1. req' = [req EXCEPT ![q] = Idle] /\ UNCHANGED <<tabVars, faults>>
  BY DEF ReceiveOrphan
<1>2. TabType'
  BY <1>1 DEF TabType, tabVars
<1> QED
  BY <1>1, <1>2, IdleFact, OverSettled DEF Core, tabVars

LEMMA LoginSettled == ASSUME Core, TabType, Single, NEW q \in Reqs, ReceiveLogin(q) PROVE Settled
<1>1. UNCHANGED <<tabVars, faults>> /\ req[q].tab \in Tabs /\ JarAfter(q) = jar' /\ jar' \in 0..MaxPairs
  BY CookiesTaken DEF ReceiveLogin, Final, TakeCookies, Taken
<1>2. TabType'
  BY <1>1 DEF TabType, tabVars
<1> DEFINE s == Sent("profile", req[q].tab, JarAfter(q))
<1>3. s \in Request /\ s.kind = "profile" /\ s.via = "middleware"
  BY <1>1, SentType, SentFields DEF Kinds
<1>4. req' = [req EXCEPT ![q] = s] \/ req' = [req EXCEPT ![q] = Idle]
  BY DEF ReceiveLogin, Core, CoreType
<1> HIDE DEF s
<1> QED
  BY <1>1, <1>2, <1>3, <1>4, IdleFact, OverSettled DEF Core, tabVars

LEMMA Settled401 == ASSUME Core, TabType, Single, NEW q \in Reqs, Receive401(q) PROVE Settled
<1> DEFINE t == req[q].tab
<1>1. t \in Tabs /\ t # NoTab /\ req[q].step = "refused" /\ req[q].via = "middleware"
      /\ UNCHANGED <<stored, page, signedIn, ready, boot, faults>>
  BY BoundsFact DEF Receive401
<1>2. req[q] \in Request /\ req \in [Reqs -> Request]
  BY DEF Core, CoreType
<1>3. /\ \A p \in Reqs : p # q => req'[p] = req[p]
      /\ req'[q].tab = t /\ req'[q].step # "auth"
      /\ \/ refresher[t] = NoTab /\ refresher' = [refresher EXCEPT ![t] = q]
         \/ UNCHANGED refresher /\ req'[q].via = req[q].via
  BY <1>1, Fact401
<1>4. TabType'
  BY <1>1, <1>3 DEF TabType
<1>5. Asking' \subseteq Asking
  BY <1>3 DEF Asking
<1>6. Single'
  <2> SUFFICES ASSUME NEW p \in Reqs, req'[p].step # "idle", req'[p].tab # NoTab, req'[p].via = "endpoint"
               PROVE  refresher'[req'[p].tab] = p
    BY DEF Single
  <2>1. req'[p].tab \in Tabs
    BY <1>1, <1>2, <1>3, FieldFact
  <2>2. CASE p = q
    BY <1>1, <1>3, <2>2 DEF TabType, Single
  <2>3. CASE p # q
    <3>1. refresher[req[p].tab] = p /\ req[p].tab = req'[p].tab
      BY <1>3, <2>3 DEF Single
    <3>2. p # NoTab
      BY BoundsFact
    <3> QED
      BY <1>1, <1>3, <2>1, <3>1, <3>2 DEF TabType
  <2> QED
    BY <2>2, <2>3
<1> QED
  BY <1>4, <1>5, <1>6 DEF Settled

\* The refresh call of tab t is over, and whatever awaited it goes on or is over.
LEMMA AwaitedSettled ==
  ASSUME Core, TabType', Single, TabType, NEW q \in Reqs, NEW t \in Tabs, t = req[q].tab,
         refresher' = [refresher EXCEPT ![t] = NoTab],
         \A p \in Reqs : IF p = q \/ p \in Awaiting(t)
                         THEN req'[p].via = "middleware" /\ (req'[p].step = "auth" => req'[p].kind # "login")
                         ELSE Like(req[p], req'[p]) /\ (req'[p].tab = req[p].tab)
  PROVE  Settled
<1>1. Asking' \subseteq Asking
  BY DEF Asking, Like
<1>2. Single'
  <2> SUFFICES ASSUME NEW p \in Reqs, req'[p].step # "idle", req'[p].tab # NoTab, req'[p].via = "endpoint"
               PROVE  refresher'[req'[p].tab] = p
    BY DEF Single
  <2>1. /\ req'[p].step = req[p].step /\ req'[p].tab = req[p].tab /\ req'[p].via = req[p].via
        /\ p \notin Awaiting(t)
    BY DEF Like
  <2>2. refresher[req[p].tab] = p /\ req[p].tab \in Tabs
    BY <2>1, FieldFact DEF Single, Core, CoreType
  <2>3. req[p].tab # t
    BY <2>1, <2>2 DEF Awaiting
  <2> QED
    BY <2>1, <2>2, <2>3 DEF TabType
<1> QED
  BY <1>1, <1>2 DEF Settled

LEMMA ResumeSettled == ASSUME Core, TabType, Single, NEW q \in Reqs, Resume(q) PROVE Settled
<1> DEFINE t == req[q].tab
           again(r) == [r EXCEPT !.step = "auth", !.via = "middleware", !.pair = JarAfter(q), !.fresh = Keep]
<1>1. t \in Tabs /\ req[q].step = "ok" /\ req[q].via = "endpoint" /\ refresher' = [refresher EXCEPT ![t] = NoTab]
      /\ UNCHANGED <<stored, page, signedIn, ready, boot, faults>>
  BY DEF Resume
<1>2. \A p \in Reqs : req'[p] = IF p = q \/ p \in Awaiting(t) THEN again(req[p]) ELSE req[p]
  BY DEF Resume
<1>3. \A r \in Request : again(r).via = "middleware" /\ again(r).kind = r.kind
  BY DEF Request
<1>4. \A p \in Reqs : req[p] \in Request
  BY DEF Core, CoreType
<1>5. \A p \in Reqs : p = q \/ p \in Awaiting(t) => req[p].kind # "login"
  <2>1. \A p \in Awaiting(t) : p = q \/ req[p].step = "wait"
    BY <1>1, AwaitingFact
  <2> QED
    BY <1>1, <2>1 DEF Core, Shaped, Awaiting
<1> HIDE DEF again
<1>6. \A p \in Reqs : IF p = q \/ p \in Awaiting(t)
                      THEN req'[p].via = "middleware" /\ (req'[p].step = "auth" => req'[p].kind # "login")
                      ELSE Like(req[p], req'[p]) /\ (req'[p].tab = req[p].tab)
  BY <1>2, <1>3, <1>4, <1>5 DEF Like
<1>7. TabType'
  BY <1>1 DEF TabType
<1> HIDE DEF t
<1> QED
  BY <1>1, <1>6, <1>7, AwaitedSettled DEF t

LEMMA GiveUpSettled == ASSUME Core, TabType, Single, NEW q \in Reqs, GiveUp(q) PROVE Settled
<1> DEFINE t == req[q].tab
<1>1. t \in Tabs /\ refresher' = [refresher EXCEPT ![t] = NoTab] /\ ClearAuth(t) /\ UNCHANGED faults
  BY DEF GiveUp
<1>2. /\ req'[q] = Idle \/ req'[q] = Sent("boot", t, jar')
      /\ \A p \in Reqs : p # q => IF p \in Awaiting(t) THEN req'[p] = Idle
                                  ELSE Like(req[p], req'[p]) /\ (req'[p].tab = req[p].tab)
  BY GiveUpFact DEF Alike
<1>3. req'[q].via = "middleware" /\ (req'[q].step = "auth" => req'[q].kind # "login")
  BY <1>2, IdleFact, SentFields
<1>4. \A p \in Reqs : IF p = q \/ p \in Awaiting(t)
                      THEN req'[p].via = "middleware" /\ (req'[p].step = "auth" => req'[p].kind # "login")
                      ELSE Like(req[p], req'[p]) /\ (req'[p].tab = req[p].tab)
  BY <1>2, <1>3, IdleFact
<1>5. page' \in [Tabs -> {"public", "protected"}] /\ boot' \in [Tabs -> Boots]
  BY <1>1 DEF TabType, ClearAuth, Boots
<1>6. TabType'
  BY <1>1, <1>5, StoreFact DEF TabType
<1> HIDE DEF t
<1> QED
  BY <1>1, <1>4, <1>6, AwaitedSettled DEF t

LEMMA ReceiveSettled == ASSUME Core, TabType, Single, NEW q \in Reqs, Receive(q) PROVE Settled
  BY TakerSettled, OrphanSettled, LoginSettled, Settled401, ResumeSettled, GiveUpSettled DEF Receive, Taker

\* The page of a tab is gone, and so are its calls.
LEMMA AbortSettled ==
  ASSUME Core, TabType, Single, NEW t \in Tabs, NEW q \in Reqs \cup {NoTab},
         refresher' = [refresher EXCEPT ![t] = NoTab],
         q \in Reqs => req'[q].via = "middleware" /\ req'[q].kind # "login",
         \A p \in Reqs : p # q => req'[p] = Abort(t, req)[p]
  PROVE  Single' /\ Asking' \subseteq Asking
<1>1. \A p \in Reqs : p # q => \/ req'[p] = Idle
                               \/ req'[p].step = req[p].step /\ req'[p].kind = req[p].kind /\ req'[p].via = req[p].via
  BY AbortFact DEF Core
<1>2. \A p \in Reqs : p # q /\ req'[p].step # "idle" /\ req'[p].tab # NoTab => req'[p] = req[p] /\ req[p].tab # t
  <2> SUFFICES ASSUME NEW p \in Reqs, p # q, req'[p].step # "idle", req'[p].tab # NoTab
               PROVE  req'[p] = req[p] /\ req[p].tab # t
    OBVIOUS
  <2>1. req[p] \in Request
    BY DEF Core, CoreType
  <2>2. \A r \in Request : [r EXCEPT !.tab = NoTab].tab = NoTab
    BY DEF Request
  <2>3. \/ req'[p] = req[p] /\ (req[p].tab # t \/ req[p].step = "idle")
        \/ req'[p] = Idle
        \/ req'[p] = [req[p] EXCEPT !.tab = NoTab]
    BY DEF Abort
  <2> QED
    BY <2>1, <2>2, <2>3, IdleFact
<1>3. Asking' \subseteq Asking
  BY <1>1, IdleFact DEF Asking
<1>4. Single'
  <2> SUFFICES ASSUME NEW p \in Reqs, req'[p].step # "idle", req'[p].tab # NoTab, req'[p].via = "endpoint"
               PROVE  refresher'[req'[p].tab] = p
    BY DEF Single
  <2>1. req'[p] = req[p] /\ req[p].tab # t
    BY <1>2
  <2>2. refresher[req[p].tab] = p /\ req[p].tab \in Tabs
    BY <2>1, FieldFact DEF Single, Core, CoreType
  <2> QED
    BY <2>1, <2>2 DEF TabType
<1> QED
  BY <1>3, <1>4

-----------------------------------------------------------------------------
(***************************************************************************)
(* Every step                                                               *)
(***************************************************************************)
LEMMA SendSettled ==
  ASSUME Core, TabType', Single, NEW q \in Reqs, NEW kind \in Kinds \ {"login"}, NEW t \in Tabs,
         UNCHANGED refresher, req' = [req EXCEPT ![q] = Sent(kind, t, jar)]
  PROVE  Settled
<1>1. Sent(kind, t, jar) \in Request
  BY SentType DEF Core, CoreType
<1>2. Sent(kind, t, jar).kind # "login" /\ Sent(kind, t, jar).via = "middleware"
  BY SentFields
<1> DEFINE s == Sent(kind, t, jar)
<1>3. CoreType /\ req' = [req EXCEPT ![q] = s]
  BY DEF Core
<1> HIDE DEF s
<1> QED
  BY <1>1, <1>2, <1>3, OverSettled DEF s

\* A sign-in has room: those that are under way are counted.
LEMMA SignInRoom == ASSUME Core, Budget, NEW t \in Tabs, CanSignIn(t)
                    PROVE  /\ logins + Cardinality(Asking) < MaxLogins /\ logins < MaxLogins
                           /\ logins \in Nat /\ Cardinality(Asking) \in Nat
<1> DEFINE L == {p \in Reqs : req[p].kind = "login"}
<1>1. Asking \subseteq L /\ L \in SUBSET Reqs
  BY DEF Asking
<1>2. Cardinality(Asking) <= Cardinality(L) /\ Cardinality(L) \in Nat /\ Cardinality(Asking) \in Nat
  BY <1>1, AskingFact, FS_Subset
<1>3. logins + Cardinality(L) < MaxLogins
  BY DEF CanSignIn
<1> QED
  BY <1>2, <1>3, BoundsFact DEF Core, CoreType

LEMMA SendLoginInv == ASSUME Inv, NEW q \in Reqs, NEW t \in Tabs, SendLogin(q, t) PROVE Inv'
<1>1. /\ CanSignIn(t) /\ req[q].step = "idle" /\ req' = [req EXCEPT ![q] = Sent("login", t, jar)]
      /\ UNCHANGED <<serverVars, jar, tabVars, historyVars>>
  BY DEF SendLogin, Free, FreeIn
<1>2. "login" \in Kinds /\ Core
  BY DEF Kinds, Inv
<1>3. Core'
  BY <1>1, <1>2, SendStep DEF Rest, serverVars, historyVars
<1>4. TabType'
  BY <1>1 DEF Inv, TabType, tabVars, historyVars
<1>5. /\ req'[q].via = "middleware" /\ req'[q].kind = "login" /\ \A p \in Reqs : p # q => req'[p] = req[p]
  BY <1>1, SentFields DEF Core, CoreType, Inv
<1>6. Single'
  BY <1>1, <1>5 DEF Inv, Single, tabVars
<1>7. Budget'
  <2>1. Asking' \subseteq Asking \cup {q}
    BY <1>5 DEF Asking
  <2>2. /\ IsFiniteSet(Asking) /\ IsFiniteSet(Asking \cup {q})
        /\ Cardinality(Asking \cup {q}) = Cardinality(Asking) \/ Cardinality(Asking \cup {q}) = Cardinality(Asking) + 1
    BY AskingFact, FS_AddElement
  <2>3. Cardinality(Asking') <= Cardinality(Asking \cup {q}) /\ Cardinality(Asking') \in Nat
    BY <2>1, <2>2, FS_Subset, FS_CardinalityType
  <2>4. logins + Cardinality(Asking) < MaxLogins /\ logins \in Nat /\ Cardinality(Asking) \in Nat
    BY <1>1, SignInRoom DEF Inv
  <2> QED
    BY <1>1, <2>2, <2>3, <2>4, BoundsFact DEF Budget, serverVars
<1> QED
  BY <1>3, <1>4, <1>6, <1>7 DEF Inv

LEMMA ServeLoginRoom == ASSUME Core, Budget, NEW q \in Reqs, ServeLogin(q)
                        PROVE  logins < MaxLogins /\ Budget'
<1>1. q \in Asking /\ logins' = logins + 1
  BY DEF ServeLogin, NewSession, Asking
<1>2. \A p \in Reqs : p # q => req'[p] = req[p]
  BY DEF ServeLogin, Core, CoreType
<1>3. req'[q].step # "auth"
  <2>1. issued + 1 \in -1..MaxPairs /\ "ok" \in Steps /\ req' = [req EXCEPT ![q].step = "ok", ![q].fresh = issued + 1]
    BY BoundsFact DEF ServeLogin, NewSession, Core, CoreType, Steps, AnswerSteps
  <2>2. Turn(q, "ok", issued + 1)
    BY <2>1, TurnFact DEF Core
  <2> QED
    BY <2>2 DEF Turn
<1>4. Asking' \subseteq Asking \ {q}
  BY <1>2, <1>3 DEF Asking
<1>5. IsFiniteSet(Asking \ {q}) /\ Cardinality(Asking \ {q}) = Cardinality(Asking) - 1
  BY <1>1, AskingFact, FS_RemoveElement
<1>6. Cardinality(Asking') <= Cardinality(Asking) - 1 /\ Cardinality(Asking') \in Nat /\ Cardinality(Asking) \in Nat
  BY <1>4, <1>5, AskingFact, FS_Subset, FS_CardinalityType
<1> QED
  BY <1>1, <1>6, BoundsFact DEF Budget, Core, CoreType

\* The tabs of a page that is loaded.
LEMMA LoadType == ASSUME TabType, NEW q \in Reqs, NEW t \in Tabs, NEW p \in {"public", "protected"}, Load(q, t, p)
                  PROVE  /\ page' \in [Tabs -> {"public", "protected"}]
                         /\ signedIn' \in [Tabs -> BOOLEAN] /\ ready' \in [Tabs -> BOOLEAN]
                         /\ boot' \in [Tabs -> Boots] /\ refresher' \in [Tabs -> Reqs \cup {NoTab}] /\ UNCHANGED stored
  BY DEF TabType, Load, Boots

LEMMA LoadSettled == ASSUME Core, TabType, Single, NEW q \in Reqs, NEW t \in Tabs, NEW p, Load(q, t, p), jar' \in 0..MaxPairs
                     PROVE  Single' /\ Asking' \subseteq Asking
<1>1. refresher' = [refresher EXCEPT ![t] = NoTab] /\ Abort(t, req)[q].step = "idle"
  BY DEF Load, FreeIn
<1>2. CASE req' = Abort(t, req)
  BY <1>1, <1>2, BoundsFact, AbortSettled
<1>3. CASE req' = [Abort(t, req) EXCEPT ![q] = Sent("boot", t, jar')]
  <2>1. req'[q] = Sent("boot", t, jar') /\ \A r \in Reqs : r # q => req'[r] = Abort(t, req)[r]
    BY <1>1, <1>3, LoadFact
  <2>2. req'[q].via = "middleware" /\ req'[q].kind # "login"
    BY <2>1, SentFields
  <2> QED
    BY <1>1, <2>1, <2>2, AbortSettled
<1> QED
  BY <1>2, <1>3 DEF Load

LEMMA OAuthInv == ASSUME Inv, NEW q \in Reqs, NEW t \in Tabs, OAuthReturn(q, t) PROVE Inv'
<1>1. /\ CanSignIn(t) /\ logins' = logins + 1 /\ issued < MaxPairs /\ jar' = issued + 1 /\ UNCHANGED faults
      /\ Load(q, t, "protected")
  BY DEF OAuthReturn, NewSession, historyVars
<1>2. logins + Cardinality(Asking) < MaxLogins /\ logins < MaxLogins /\ logins \in Nat /\ Cardinality(Asking) \in Nat
  BY <1>1, SignInRoom DEF Inv
<1>3. Core'
  BY <1>2, OAuthCore DEF Inv
<1>4. TabType'
  BY <1>1, LoadType DEF Inv, TabType
<1>5. jar' \in 0..MaxPairs
  BY <1>3 DEF Core, CoreType
<1>6. Single' /\ Asking' \subseteq Asking
  BY <1>1, <1>5, LoadSettled DEF Inv
<1>7. Budget'
  <2>1. Cardinality(Asking') <= Cardinality(Asking) /\ Cardinality(Asking') \in Nat
    BY <1>6, AskingFact, FS_Subset, FS_CardinalityType
  <2> QED
    BY <1>1, <1>2, <2>1, BoundsFact DEF Budget
<1> QED
  BY <1>3, <1>4, <1>6, <1>7 DEF Inv

LEMMA ReloadInv == ASSUME Inv, NEW q \in Reqs, NEW t \in Tabs, NEW p \in {"public", "protected"}, Reload(q, t, p)
                   PROVE  Inv'
<1>1. /\ faults < MaxFaults /\ faults' = faults + 1 /\ UNCHANGED <<serverVars, jar, ended, lost, stale>>
      /\ Load(q, t, p)
  BY DEF Reload
<1>2. Core'
  <2>1. Abort(t, req)[q].step = "idle"
    BY <1>1 DEF Load, FreeIn
  <2>2. Rest
    BY <1>1 DEF Rest, serverVars
  <2>3. CASE req' = Abort(t, req)
    BY <1>1, <2>2, <2>3, AbortStep DEF Inv
  <2>4. CASE req' = [Abort(t, req) EXCEPT ![q] = Sent("boot", t, jar')]
    BY <1>1, <2>1, <2>2, <2>4, LoadStep DEF Inv
  <2> QED
    BY <1>1, <2>3, <2>4 DEF Load
<1>3. TabType'
  BY <1>1, LoadType, BoundsFact DEF Inv, TabType
<1>4. jar' \in 0..MaxPairs
  BY <1>2 DEF Core, CoreType
<1>5. Single' /\ Asking' \subseteq Asking
  BY <1>1, <1>4, LoadSettled DEF Inv
<1>6. Budget'
  BY <1>1, <1>5, FewerBudget DEF Inv, Core, serverVars
<1> QED
  BY <1>2, <1>3, <1>5, <1>6 DEF Inv

LEMMA ReceiveInv == ASSUME Inv, NEW q \in Reqs, Receive(q) PROVE Inv'
<1>1. Core' /\ Settled
  BY ReceiveCore, ReceiveSettled DEF Inv
<1>2. UNCHANGED logins
  <2>1. CASE Taker(q)
    BY <2>1, TakerFact DEF Inv
  <2>2. CASE ~Taker(q)
    BY <2>2 DEF Receive, Taker, ReceiveOrphan, Receive401, Resume, GiveUp, ReceiveLogin, serverVars
  <2> QED
    BY <2>1, <2>2
<1> QED
  BY <1>1, <1>2, FewerBudget DEF Inv, Core, Settled

LEMMA ServerInv == ASSUME Inv, NEW q \in Reqs, Server(q) PROVE Inv'
<1>1. UNCHANGED <<tabVars, faults>> /\ \A p \in Reqs : Modest(p)
  BY ServerModest DEF Inv
<1>2. TabType' /\ Single'
  BY <1>1, ModestSingle DEF Inv, TabType, tabVars
<1>3. CASE ServeLogin(q)
  BY <1>2, <1>3, ServeLoginRoom, ServeLoginCore DEF Inv
<1>4. CASE ~ServeLogin(q)
  <2>1. Core'
    BY <1>4, AuthenticateCore, LookupCore, ValidateCore, StoreCore, DenyCore, RecheckCore, ServeLogoutCore
       DEF Inv, Server
  <2>2. UNCHANGED logins
    BY <1>4 DEF Server, Authenticate, LookupRotation, ValidateRefresh, StoreRotation, DenyOld, Recheck, ServeLogout,
                serverVars
  <2> QED
    BY <1>1, <1>2, <2>1, <2>2, ModestAsking, FewerBudget DEF Inv, Core
<1> QED
  BY <1>3, <1>4

LEMMA SendInv == ASSUME Inv, NEW q \in Reqs, NEW t \in Tabs, SendApi(q, t) \/ Reconnect(q, t) \/ SendLogout(q, t)
                 PROVE  Inv'
<1>1. PICK kind \in Kinds \ {"login"} : req' = [req EXCEPT ![q] = Sent(kind, t, jar)]
  BY DEF SendApi, Reconnect, SendLogout, Kinds
<1>2. req[q].step = "idle" /\ UNCHANGED <<serverVars, jar, tabVars, ended, lost, stale>>
  BY DEF SendApi, Reconnect, SendLogout, Free, FreeIn, historyVars
<1>3. UNCHANGED faults \/ (faults < MaxFaults /\ faults' = faults + 1)
  BY DEF SendApi, Reconnect, SendLogout, historyVars
<1>4. Core'
  BY <1>1, <1>2, SendStep DEF Inv, Rest, serverVars
<1>5. TabType'
  BY <1>2, <1>3, BoundsFact DEF Inv, TabType, tabVars
<1>6. Single' /\ Asking' \subseteq Asking
  BY <1>1, <1>2, <1>5, SendSettled DEF Inv, Settled, tabVars
<1>7. Budget'
  BY <1>2, <1>6, FewerBudget DEF Inv, Core, serverVars
<1> QED
  BY <1>4, <1>5, <1>6, <1>7 DEF Inv

\* Whatever leaves the tabs and the requests alone.
LEMMA StillInv == ASSUME Inv, Core', UNCHANGED <<logins, req, refresher>>, TabType' PROVE Inv'
  BY DEF Inv, Single, Budget, Asking

LEMMA PageInv == ASSUME Inv, NEW t \in Tabs, Navigate(t) PROVE Inv'
<1>1. /\ UNCHANGED <<serverVars, jar, stored, signedIn, ready, boot, refresher, req, historyVars>>
      /\ page' = [page EXCEPT ![t] = "protected"]
  BY DEF Navigate
<1>2. Core'
  BY <1>1, AlikeCore DEF Inv, Core, CoreType, Alike, Like, Rest, serverVars, historyVars
<1>3. TabType'
  BY <1>1 DEF Inv, TabType, historyVars
<1> QED
  BY <1>1, <1>2, <1>3, StillInv DEF serverVars

LEMMA ClockInv == ASSUME Inv, NEW i \in Pairs, ExpireAccess(i) \/ GraceEnds(i) PROVE Inv'
<1>1. Core'
  BY ExpireCore, GraceCore DEF Inv
<1>2. UNCHANGED <<logins, req, tabVars, faults>>
  BY DEF ExpireAccess, GraceEnds, historyVars
<1> QED
  BY <1>1, <1>2, StillInv DEF Inv, TabType, tabVars

LEMMA FaultInv == ASSUME Inv, Restart \/ \E q \in Reqs : LoseAnswer(q) PROVE Inv'
<1>1. Core'
  BY RestartCore, LoseCore DEF Inv
<1>2. UNCHANGED <<logins, tabVars>> /\ faults < MaxFaults /\ faults' = faults + 1
  BY DEF Restart, LoseAnswer, serverVars
<1>3. TabType'
  BY <1>2, BoundsFact DEF Inv, TabType, tabVars
<1>4. \A p \in Reqs : /\ req'[p].kind = req[p].kind /\ req'[p].via = req[p].via /\ req'[p].tab = req[p].tab
                      /\ req'[p].step = req[p].step \/ (req'[p].step = "failed" /\ req[p].step # "idle")
  <2> DEFINE fail(r) == [r EXCEPT !.step = "failed"]
  <2>1. \A p \in Reqs : req'[p] = req[p] \/ (req'[p] = fail(req[p]) /\ req[p].step # "idle")
    BY DEF Restart, LoseAnswer, Inv, Core, CoreType, ServerSteps
  <2>2. \A r \in Request : fail(r).kind = r.kind /\ fail(r).via = r.via /\ fail(r).tab = r.tab /\ fail(r).step = "failed"
    BY DEF Request
  <2> HIDE DEF fail
  <2>3. \A p \in Reqs : req[p] \in Request
    BY DEF Inv, Core, CoreType
  <2> QED
    BY <2>1, <2>2, <2>3
<1>5. Single' /\ Asking' \subseteq Asking
  BY <1>2, <1>4 DEF Inv, Single, Asking, tabVars
<1>6. Budget'
  BY <1>2, <1>5, FewerBudget DEF Inv, Core
<1> QED
  BY <1>1, <1>3, <1>5, <1>6 DEF Inv

LEMMA InitInv == Init => Inv
<1> SUFFICES ASSUME Init PROVE Inv
  OBVIOUS
<1> USE DEF Keep, None
<1>1. \A q \in Reqs : req[q] = Idle
  BY DEF Init
<1>2. CoreType /\ TabType
  <2>1. req \in [Reqs -> Request]
    BY IdleFact DEF Init
  <2>2. 0 \in 0..MaxPairs /\ 0 \in 0..MaxLogins /\ 0 \in 0..MaxFaults
    BY BoundsFact
  <2>3. /\ issued = 0 /\ logins = 0 /\ jar = 0 /\ accessExpired = {} /\ deniedAccess = {} /\ deniedRefresh = {}
        /\ ended = {} /\ ~lost /\ ~stale /\ lost \in BOOLEAN /\ stale \in BOOLEAN
        /\ login \in [Pairs -> 0..MaxLogins] /\ rotation \in [Pairs -> 0..MaxPairs]
    BY <2>2 DEF Init
  <2>4. CoreType
    BY <2>1, <2>2, <2>3 DEF CoreType
  <2>5. TabType
    BY <2>2 DEF Init, TabType, Boots
  <2> QED
    BY <2>4, <2>5
<1>3. \A q \in Reqs : Shaped(q)
  BY <1>1, IdleFact DEF Shaped
<1>4. \A q \in Reqs : req[q].step = "idle" /\ req[q].pair = 0 /\ req[q].fresh = -1 /\ req[q].via = "middleware"
                      /\ req[q].kind = "api"
  BY <1>1, IdleFact
<1>5. \A q \in Reqs : ~req[q].again
  BY <1>1, IdleFact
<1>6. Made /\ RevokedEnded /\ DenyRotated /\ RotatedDenied /\ Kept /\ Awaited
  BY <1>4 DEF Init, Made, RevokedEnded, DenyRotated, RotatedDenied, Kept, Awaited, Live, Pairs
<1>7. Recent(0) /\ 0 \in 0..MaxPairs
  BY <1>4, <1>5, BoundsFact DEF Init, Recent, Young
<1>8. Single /\ Asking = {}
  BY <1>4 DEF Single, Asking
<1>9. Budget
  BY <1>8, FS_EmptySet, BoundsFact DEF Budget, Init
<1> QED
  BY <1>2, <1>3, <1>6, <1>7, <1>8, <1>9 DEF Inv, Core, Fresh

LEMMA NextInv == Inv /\ [Next]_vars => Inv'
<1> SUFFICES ASSUME Inv, [Next]_vars PROVE Inv'
  OBVIOUS
<1>1. ASSUME NEW q \in Reqs, Server(q) \/ Receive(q) \/ LoseAnswer(q) PROVE Inv'
  BY <1>1, ServerInv, ReceiveInv, FaultInv
<1>2. ASSUME NEW q \in Reqs, NEW t \in Tabs, User(q, t) PROVE Inv'
  BY <1>2, SendInv, SendLoginInv, OAuthInv, ReloadInv DEF User
<1>3. ASSUME NEW t \in Tabs, Navigate(t) PROVE Inv'
  BY <1>3, PageInv
<1>4. ASSUME NEW i \in Pairs, ExpireAccess(i) \/ GraceEnds(i) PROVE Inv'
  BY <1>4, ClockInv
<1>5. CASE Restart
  BY <1>5, FaultInv
<1>6. CASE UNCHANGED vars
  <2>1. UNCHANGED <<serverVars, jar, tabVars, req, historyVars>>
    BY <1>6 DEF vars
  <2>2. Core'
    BY <2>1, AlikeCore DEF Inv, Core, CoreType, Alike, Like, Rest, serverVars, historyVars
  <2> QED
    BY <2>1, <2>2, StillInv DEF Inv, TabType, tabVars, serverVars, historyVars
<1> QED
  BY <1>1, <1>2, <1>3, <1>4, <1>5, <1>6 DEF Next

-----------------------------------------------------------------------------
(***************************************************************************)
(* The theorems                                                             *)
(***************************************************************************)
\* Types, in every state.
LEMMA TypeFact == Inv => TypeOK
  BY DEF Inv, TabType, Core, CoreType, TypeOK

\* A tab's refresh calls are one: that of its refreshPromise.
LEMMA OneFact == Inv => OneRefreshPerTab
<1> SUFFICES ASSUME Inv, NEW t \in Tabs
             PROVE  Cardinality({q \in Of(t) : req[q].via = "endpoint" /\ req[q].step # "wait"}) <= 1
  BY DEF OneRefreshPerTab
<1> DEFINE C == {q \in Of(t) : req[q].via = "endpoint" /\ req[q].step # "wait"}
<1>1. C \subseteq {refresher[t]}
  BY BoundsFact DEF Inv, Single, Of
<1>2. IsFiniteSet({refresher[t]}) /\ Cardinality({refresher[t]}) = 1
  BY FS_Singleton
<1>3. Cardinality(C) <= 1
  <2>1. Cardinality(C) <= Cardinality({refresher[t]})
    BY <1>1, <1>2, FS_Subset
  <2> QED
    BY <1>2, <2>1
<1> QED
  BY <1>3

\* In every state of every run, however many tabs, requests and faults there
\* are: the refresh token in the cookies of a session that was not logged out
\* can be used, unless an answer was lost or overtaken, and a tab runs one
\* refresh call at a time.
THEOREM SessionIsSound == Spec => []SessionSound
<1>1. Inv => SessionSound
  BY TypeFact, OneFact, JarHolds DEF Inv, SessionSound
<1> QED
  BY <1>1, InitInv, NextInv, PTL DEF Spec

\* Tabs whose sign-in a step does not end.
LEMMA StaysSignedIn ==
  ASSUME Inv, NEW t \in Tabs, signedIn[t], ~signedIn'[t], [Next]_vars
  PROVE  \/ ~stored
         \/ \E q \in Reqs : /\ req[q].tab = t
                            /\ GiveUp(q) \/ ReceiveLogout(q) \/ (ReceiveBoot(q) /\ req[q].step # "ok")
<1>1. signedIn \in [Tabs -> BOOLEAN]
  BY DEF Inv, TabType
<1>2. signedIn' # signedIn
  OBVIOUS
<1>3. CASE \E q \in Reqs : Server(q) \/ LoseAnswer(q)
  BY <1>2, <1>3 DEF Server, Authenticate, LookupRotation, ValidateRefresh, StoreRotation, DenyOld, Recheck, ServeLogin,
                    ServeLogout, ServerOnly, LoseAnswer, tabVars
<1>4. CASE \E q \in Reqs, u \in Tabs : User(q, u)
  <2>1. CASE UNCHANGED tabVars
    BY <1>2, <2>1 DEF tabVars
  <2>2. CASE \E u \in Tabs : signedIn' = [signedIn EXCEPT ![u] = stored]
    BY <1>1, <2>2
  <2> QED
    BY <1>4, <2>1, <2>2 DEF User, SendApi, SendLogout, SendLogin, OAuthReturn, Reconnect, Reload, Load
<1>5. CASE \E u \in Tabs : Navigate(u)
  BY <1>2, <1>5 DEF Navigate
<1>7. CASE Restart \/ UNCHANGED vars \/ \E i \in Pairs : ExpireAccess(i) \/ GraceEnds(i)
  BY <1>2, <1>7 DEF Restart, vars, ExpireAccess, GraceEnds, tabVars
<1>8. ASSUME NEW q \in Reqs, Receive(q) PROVE
         \E p \in Reqs : /\ req[p].tab = t
                         /\ GiveUp(p) \/ ReceiveLogout(p) \/ (ReceiveBoot(p) /\ req[p].step # "ok")
  <2>1. CASE ReceiveOrphan(q) \/ Receive401(q) \/ Resume(q) \/ ReceiveApi(q) \/ ReceiveLogin(q)
    BY <1>2, <2>1 DEF ReceiveOrphan, Receive401, Resume, ReceiveApi, ReceiveLogin, tabVars
  <2>2. CASE ReceiveSaved(q) \/ ReceiveProfile(q) \/ (ReceiveBoot(q) /\ req[q].step = "ok")
    <3>1. signedIn' = [signedIn EXCEPT ![req[q].tab] = TRUE]
      BY <1>2, <2>2 DEF ReceiveSaved, ReceiveProfile, ReceiveBoot, SetAuth
    <3> QED
      BY <1>1, <3>1
  <2>3. CASE GiveUp(q) \/ ReceiveLogout(q) \/ (ReceiveBoot(q) /\ req[q].step # "ok")
    <3>1. signedIn' = [signedIn EXCEPT ![req[q].tab] = FALSE]
      BY <1>2, <2>3 DEF GiveUp, ReceiveLogout, ReceiveBoot, CloseAndClear, ClearAuth
    <3>2. req[q].tab = t
      BY <1>1, <3>1
    <3> QED
      BY <2>3, <3>2
  <2> QED
    BY <1>8, <2>1, <2>2, <2>3 DEF Receive
<1> QED
  BY <1>3, <1>4, <1>5, <1>7, <1>8 DEF Next

LEMMA SignedOutStep ==
  ASSUME Inv, [Next]_vars, NEW t \in Tabs, signedIn[t], ~signedIn'[t]
  PROVE  ended # {} \/ lost \/ stale \/ ~stored \/ Cause(t)
<1> SUFFICES ASSUME ended = {}, ~lost, ~stale, stored PROVE Cause(t)
  OBVIOUS
<1>1. PICK q \in Reqs : /\ req[q].tab = t
                        /\ GiveUp(q) \/ ReceiveLogout(q) \/ (ReceiveBoot(q) /\ req[q].step # "ok")
  BY StaysSignedIn
<1>2. CASE ReceiveLogout(q)
  BY <1>1, <1>2 DEF ReceiveLogout, Final, Cause, Of
<1>3. CASE ReceiveBoot(q) /\ req[q].step # "ok"
  <2>1. req[q].kind = "boot" /\ req[q].via = "middleware" /\ (req[q].step = "failed" \/ (req[q].step = "refused" /\ req[q].again))
    BY <1>3 DEF ReceiveBoot, Final
  <2>2. ~(req[q].step = "refused" /\ req[q].again)
    BY <2>1, OnceFact DEF Inv
  <2> QED
    BY <1>1, <2>1, <2>2 DEF Cause, Of
<1>4. CASE GiveUp(q)
  <2>1. req[q].via = "endpoint" /\ req[q].step \in {"refused", "failed"}
    BY <1>4 DEF GiveUp
  <2>2. CASE req[q].step = "failed" \/ req[q].pair = None
    BY <1>1, <2>1, <2>2 DEF Cause, Of
  <2>3. CASE req[q].step = "refused" /\ req[q].pair # None
    <3>1. req[q].pair \in deniedRefresh => rotation[req[q].pair] # None
      BY <2>1, <2>3 DEF Inv, Core, Kept, Live
    <3> QED
      BY <1>1, <2>1, <2>3, <3>1 DEF Cause, Of, NotForgotten
  <2> QED
    BY <2>1, <2>2, <2>3
<1> QED
  BY <1>1, <1>2, <1>3, <1>4

\* No step signs a tab out for another reason than a logout, an answer that was
\* lost or overtaken, a store that another tab has cleared, or a cause of the
\* tab's own: concurrent requests with an access token that has run out do not.
THEOREM TabsStaySignedIn == Spec => SignedOutForCause
<1>1. Inv /\ [Next]_vars =>
          (\A t \in Tabs : signedIn[t] /\ ~signedIn'[t] => ended # {} \/ lost \/ stale \/ ~stored \/ Cause(t))
  BY SignedOutStep
<1> QED
  BY <1>1, InitInv, NextInv, PTL DEF Spec, SignedOutForCause
=============================================================================
