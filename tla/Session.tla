-------------------------------- MODULE Session --------------------------------
(***************************************************************************)
(* One browser's session: the cookie jar its tabs share, the tabs' auth     *)
(* store and the Axios client with its single refresh call, against the     *)
(* auth middleware and the rotation of refresh tokens in the auth service.  *)
(*                                                                          *)
(* Tokens come in pairs: pair i is the access and the refresh token that    *)
(* generateAuthResponse made i-th, and the jar holds one pair or none.  The *)
(* server works on a request in the steps between which other requests      *)
(* run: sync.Map makes each call atomic and no sequence of them.            *)
(*                                                                          *)
(* A definition whose name ends in "_" and a word is not part of the        *)
(* specification: it is the definition after it with a bug a programmer     *)
(* could have made, and the properties must tell the two apart.             *)
(***************************************************************************)
EXTENDS Naturals, Integers, FiniteSets

CONSTANTS Tabs,        \* tabs of the browser
          Entry,       \* those where the user signs in and out
          Reqs,        \* requests in flight at a time
          NoTab,       \* the tab of a request whose page is gone
          MaxPairs,    \* bound on token pairs
          MaxExpired,  \* bound on access tokens that run out
          MaxLogins,   \* bound on sign-ins
          MaxFaults    \* bound on page loads, reconnections, changes of the profile,
                       \* restarts of the server and lost answers

ASSUME SessionAssumption == /\ NoTab \notin Tabs \cup Reqs /\ Entry \subseteq Tabs /\ IsFiniteSet(Reqs)
                            /\ {MaxPairs, MaxExpired, MaxLogins, MaxFaults} \subseteq Nat

VARIABLES issued,        \* token pairs made so far
          login,         \* the sign-in each pair belongs to
          logins,        \* sign-ins so far
          accessExpired, \* pairs whose access token has run out
          deniedAccess,  \* s.denylist, access tokens
          deniedRefresh, \* s.denylist, refresh tokens
          rotation,      \* s.recentRotations: the pair a refresh token was rotated to, or 0
          jar,           \* the pair in the cookies, or 0
          stored,        \* localStorage has a user
          page,          \* route of each tab: public or protected
          signedIn,      \* isAuthenticated
          ready,         \* isInitialized
          boot,          \* useAuth's query for /users/me
          refresher,     \* refreshPromise of each tab: the request that runs it
          req,           \* the requests
          ended,         \* history: sign-ins the server has logged out
          lost,          \* history: an answer that carried new cookies was lost
          stale,         \* history: an answer brought a pair that had been rotated since
          faults         \* what MaxFaults bounds, so far

serverVars == <<issued, login, logins, accessExpired, deniedAccess, deniedRefresh, rotation>>
tabVars == <<stored, page, signedIn, ready, boot, refresher>>
historyVars == <<ended, lost, stale, faults>>
vars == <<serverVars, jar, tabVars, req, historyVars>>

Pairs == 1..MaxPairs
None == 0
Keep == -1          \* an answer without Set-Cookie

\* dropped is a request of useAuth's query whose answer the query ignores.
Kinds == {"api", "boot", "dropped", "profile", "login", "logout"}
ServerSteps == {"auth", "cache", "validate", "store", "deny", "recheck", "revoke"}
AnswerSteps == {"ok", "refused", "failed"}
Steps == {"idle", "wait"} \cup ServerSteps \cup AnswerSteps

\* Not fetched; fetched for the first time; with data, be it fetched again or not.
Boots == {"off", "first", "loaded"}

\* via is the handler that runs: the middleware in front of the request, or
\* POST /auth/refresh, which the interceptor calls for it.
Request == [step: Steps, kind: Kinds, via: {"middleware", "endpoint"}, tab: Tabs \cup {NoTab},
            pair: 0..MaxPairs, fresh: -1..MaxPairs, again: BOOLEAN]

Idle == [step |-> "idle", kind |-> "api", via |-> "middleware", tab |-> NoTab,
         pair |-> None, fresh |-> Keep, again |-> FALSE]

Init == /\ issued = 0
        /\ login = [i \in Pairs |-> 0]
        /\ logins = 0
        /\ accessExpired = {} /\ deniedAccess = {} /\ deniedRefresh = {}
        /\ rotation = [i \in Pairs |-> None]
        /\ jar = None
        /\ stored = FALSE
        /\ page = [t \in Tabs |-> "public"]
        /\ signedIn = [t \in Tabs |-> FALSE]
        /\ ready = [t \in Tabs |-> TRUE]
        /\ boot = [t \in Tabs |-> "off"]
        /\ refresher = [t \in Tabs |-> NoTab]
        /\ req = [q \in Reqs |-> Idle]
        /\ ended = {} /\ lost = FALSE /\ stale = FALSE /\ faults = 0

-----------------------------------------------------------------------------
(***************************************************************************)
(* The auth store and useAuth's query                                       *)
(***************************************************************************)
Of(t) == {q \in Reqs : req[q].step # "idle" /\ req[q].tab = t}
Booting(t) == \E q \in Of(t) : req[q].kind = "boot"

\* A fetch under way whose query is removed or fetched anew: nobody takes its
\* answer, the interceptor still does its part.
Drop(t, reqs) == [q \in Reqs |-> IF reqs[q].tab = t /\ reqs[q].kind = "boot"
                                  THEN [reqs[q] EXCEPT !.kind = "dropped"] ELSE reqs[q]]

\* setAuth: the store and localStorage.
SetAuth(t) == /\ signedIn' = [signedIn EXCEPT ![t] = TRUE]
              /\ ready' = [ready EXCEPT ![t] = TRUE]
              /\ stored' = TRUE

\* clearAuth, and ProtectedRoute's redirect to /sign-in that its render brings.
ClearAuth(t) == /\ signedIn' = [signedIn EXCEPT ![t] = FALSE]
                /\ ready' = [ready EXCEPT ![t] = TRUE]
                /\ stored' = FALSE
                /\ page' = [page EXCEPT ![t] = "public"]
                /\ boot' = [boot EXCEPT ![t] = IF page[t] = "protected" THEN "first" ELSE "off"]

-----------------------------------------------------------------------------
(***************************************************************************)
(* Requests                                                                 *)
(***************************************************************************)
\* The browser attaches the cookies of the moment it sends.
Sent(kind, t, cookies) ==
    [Idle EXCEPT !.step = "auth", !.kind = kind, !.tab = t, !.pair = cookies]

\* A request takes the first place that is free: which one makes no difference.
FreeIn(reqs, q) == reqs[q].step = "idle" /\ q = CHOOSE p \in Reqs : reqs[p].step = "idle"
Free(q) == FreeIn(req, q)

\* useAuth's query is fetched with the cookies of the moment: what was under
\* way for it is dropped.
Fetch(q, t, reqs) == [Drop(t, reqs) EXCEPT ![q] = Sent("boot", t, jar')]
Fetched(t) == [boot EXCEPT ![t] = IF @ = "off" THEN "first" ELSE @]

\* queryClient.clear() in clearAuth removes useAuth's query too: the render that
\* follows builds it again, and on a protected page it is fetched at once.
Cleared(q, reqs) ==
    LET t == req[q].tab IN
    IF page[t] = "protected" THEN Fetch(q, t, reqs) ELSE [Drop(t, reqs) EXCEPT ![q] = Idle]

\* A component of a protected page calls the API.
SendApi(q, t) ==
    /\ Free(q)
    /\ page[t] = "protected" /\ ready[t] /\ signedIn[t]
    /\ req' = [req EXCEPT ![q] = Sent("api", t, jar)]
    /\ UNCHANGED <<serverVars, jar, tabVars, historyVars>>

\* The browser is online again: an enabled query that is not being fetched is.
Reconnect(q, t) ==
    /\ Free(q)
    /\ boot[t] = "loaded" /\ ~Booting(t)
    /\ stored \/ page[t] = "protected"
    /\ faults < MaxFaults
    /\ faults' = faults + 1
    /\ req' = [req EXCEPT ![q] = Sent("boot", t, jar)]
    /\ UNCHANGED <<serverVars, jar, tabVars, ended, lost, stale>>

\* handleLogout of Header, Sidebar and Navbar: the client awaits the answer.
SendLogout(q, t) ==
    /\ Free(q)
    /\ signedIn[t] /\ ready[t] /\ t \in Entry
    /\ \A p \in Of(t) : req[p].kind # "logout"
    /\ req' = [req EXCEPT ![q] = Sent("logout", t, jar)]
    /\ UNCHANGED <<serverVars, jar, tabVars, historyVars>>

\* The forms and the buttons of the sign-in page: a submit while one is under
\* way is disabled, and the page redirects a user who is signed in.
CanSignIn(t) ==
    /\ t \in Entry
    /\ page[t] = "public" /\ ~signedIn[t]
    /\ \A p \in Of(t) : req[p].kind \notin {"login", "profile"}
    /\ logins + Cardinality({p \in Reqs : req[p].kind = "login"}) < MaxLogins

SendLogin(q, t) ==
    /\ Free(q) /\ CanSignIn(t)
    /\ req' = [req EXCEPT ![q] = Sent("login", t, jar)]
    /\ UNCHANGED <<serverVars, jar, tabVars, historyVars>>

\* generateAuthResponse for a new sign-in.
NewSession == /\ issued < MaxPairs
              /\ issued' = issued + 1
              /\ logins' = logins + 1
              /\ login' = [login EXCEPT ![issued + 1] = logins + 1]

\* The page of a tab goes away: its requests are aborted, the server finishes them.
Abort(t, reqs) == [q \in Reqs |-> IF reqs[q].tab # t \/ reqs[q].step = "idle" THEN reqs[q]
                                  ELSE IF reqs[q].step = "wait" THEN Idle
                                  ELSE [reqs[q] EXCEPT !.tab = NoTab]]

\* A full page load: the store starts from localStorage.  useAuth's query is
\* fetched with a stored user or on a protected page, and its effect ends the
\* initialization of a public page without one.
Load(q, t, p) ==
    /\ FreeIn(Abort(t, req), q)
    /\ page' = [page EXCEPT ![t] = p]
    /\ signedIn' = [signedIn EXCEPT ![t] = stored]
    /\ refresher' = [refresher EXCEPT ![t] = NoTab]
    /\ IF stored \/ p = "protected"
       THEN /\ boot' = [boot EXCEPT ![t] = "first"]
            /\ ready' = [ready EXCEPT ![t] = FALSE]
            /\ req' = [Abort(t, req) EXCEPT ![q] = Sent("boot", t, jar')]
       ELSE /\ boot' = [boot EXCEPT ![t] = "off"]
            /\ ready' = [ready EXCEPT ![t] = TRUE]
            /\ req' = Abort(t, req)
    /\ UNCHANGED stored

Reload(q, t, p) ==
    /\ faults < MaxFaults
    /\ faults' = faults + 1
    /\ UNCHANGED <<serverVars, jar, ended, lost, stale>>
    /\ Load(q, t, p)

\* The provider has sent the browser to the callback, which answers with
\* cookies and a redirect to the dashboard: a load of a protected page.
OAuthReturn(q, t) ==
    /\ CanSignIn(t)
    /\ NewSession
    /\ jar' = issued + 1
    /\ Load(q, t, "protected")
    /\ UNCHANGED <<accessExpired, deniedAccess, deniedRefresh, rotation, historyVars>>

\* A link to a protected page: ProtectedRoute sends back who is known not to be signed in.
Navigate(t) ==
    /\ page[t] = "public"
    /\ ~ready[t] \/ signedIn[t]
    /\ page' = [page EXCEPT ![t] = "protected"]
    /\ UNCHANGED <<serverVars, jar, stored, signedIn, ready, boot, refresher, req, historyVars>>

-----------------------------------------------------------------------------
(***************************************************************************)
(* The server                                                               *)
(***************************************************************************)
ServerOnly == UNCHANGED <<jar, tabVars, historyVars>>

AccessValid(i) == i # None /\ i \notin accessExpired /\ i \notin deniedAccess

\* What the middleware lets through: Logout has more to do, the others answer.
Passed(q) == IF req[q].kind = "logout" THEN "revoke" ELSE "ok"

\* The middleware in front of every protected route, of /auth/logout too.
Authenticate(q) ==
    /\ req[q].step = "auth" /\ req[q].kind # "login"
    /\ req' = [req EXCEPT ![q].step = IF AccessValid(req[q].pair) THEN Passed(q)
                                      ELSE IF req[q].pair = None THEN "refused" ELSE "cache"]
    /\ UNCHANGED serverVars /\ ServerOnly

AfterRotation(q) == IF req[q].via = "middleware" THEN "recheck" ELSE "ok"

\* RefreshToken, 1: the rotations of the last thirty seconds.
LookupRotation(q) ==
    /\ req[q].step = "cache"
    /\ req' = IF rotation[req[q].pair] = None THEN [req EXCEPT ![q].step = "validate"]
              ELSE [req EXCEPT ![q].step = AfterRotation(q), ![q].fresh = rotation[req[q].pair]]
    /\ UNCHANGED serverVars /\ ServerOnly

\* RefreshToken, 2 to 4: a token that is revoked is refused.  One whose seven
\* days are over is refused too, and one whose user GetByID does not get: either
\* may happen to any token.  The refresh endpoint clears the cookies of every
\* token it refuses.
ValidateRefresh(q) ==
    /\ req[q].step = "validate"
    /\ \/ /\ req' = [req EXCEPT ![q].step = "refused",
                                ![q].fresh = IF req[q].via = "endpoint" THEN None ELSE Keep]
          /\ UNCHANGED serverVars
       \/ /\ req[q].pair \notin deniedRefresh /\ issued < MaxPairs
          /\ issued' = issued + 1
          /\ login' = [login EXCEPT ![issued + 1] = login[req[q].pair]]
          /\ req' = [req EXCEPT ![q].step = "store", ![q].fresh = issued + 1]
          /\ UNCHANGED <<logins, accessExpired, deniedAccess, deniedRefresh, rotation>>
    /\ ServerOnly

\* RefreshToken, 5.
StoreRotation_Skip(q) ==
    /\ req[q].step = "store"
    /\ req' = [req EXCEPT ![q].step = "deny"]
    /\ UNCHANGED serverVars /\ ServerOnly

StoreRotation(q) ==
    /\ req[q].step = "store"
    /\ rotation' = [rotation EXCEPT ![req[q].pair] = req[q].fresh]
    /\ req' = [req EXCEPT ![q].step = "deny"]
    /\ UNCHANGED <<issued, login, logins, accessExpired, deniedAccess, deniedRefresh>>
    /\ ServerOnly

\* RefreshToken, 6: invalidateToken on the old refresh token.
DenyOld(q) ==
    /\ req[q].step = "deny"
    /\ deniedRefresh' = deniedRefresh \cup {req[q].pair}
    /\ req' = [req EXCEPT ![q].step = AfterRotation(q)]
    /\ UNCHANGED <<issued, login, logins, accessExpired, deniedAccess, rotation>>
    /\ ServerOnly

\* The middleware validates the access token it has just been given; the new
\* cookies are on the answer either way.
Recheck(q) ==
    /\ req[q].step = "recheck"
    /\ req' = [req EXCEPT ![q].step = IF AccessValid(req[q].fresh) THEN Passed(q) ELSE "refused"]
    /\ UNCHANGED serverVars /\ ServerOnly

\* AuthHandler.Login.
ServeLogin(q) ==
    /\ req[q].step = "auth" /\ req[q].kind = "login"
    /\ NewSession
    /\ req' = [req EXCEPT ![q].step = "ok", ![q].fresh = issued + 1]
    /\ UNCHANGED <<accessExpired, deniedAccess, deniedRefresh, rotation>>
    /\ ServerOnly

\* AuthHandler.Logout and authService.Logout, behind the middleware: the tokens
\* of the request are revoked.  A pair the middleware has made on the way is
\* not, and its cookies are replaced by the cleared ones on the same answer.
\* The three calls are one step: every other step reads or writes one of the
\* three maps.
ServeLogout(q) ==
    LET i == req[q].pair IN
    /\ req[q].step = "revoke"
    /\ deniedAccess' = deniedAccess \cup {i}
    /\ deniedRefresh' = deniedRefresh \cup {i}
    /\ rotation' = [rotation EXCEPT ![i] = None]
    /\ ended' = ended \cup {login[i]}
    /\ req' = [req EXCEPT ![q].step = "ok", ![q].fresh = None]
    /\ UNCHANGED <<issued, login, logins, accessExpired, jar, tabVars, lost, stale, faults>>

\* An access token lives thirty minutes and a rotation is remembered for thirty
\* seconds, longer than any request with its repetition: the clock moves while
\* nothing is in flight.
Quiet == \A q \in Reqs : req[q].step = "idle"

ExpireAccess(i) ==
    /\ Quiet /\ i \in 1..issued \ accessExpired /\ Cardinality(accessExpired) < MaxExpired
    /\ accessExpired' = accessExpired \cup {i}
    /\ UNCHANGED <<issued, login, logins, deniedAccess, deniedRefresh, rotation, jar, tabVars, req, historyVars>>

GraceEnds(i) ==
    /\ Quiet /\ rotation[i] # None
    /\ rotation' = [rotation EXCEPT ![i] = None]
    /\ UNCHANGED <<issued, login, logins, accessExpired, deniedAccess, deniedRefresh, jar, tabVars, req, historyVars>>

\* The server restarts: the denylist and the rotations were in memory only,
\* the connections break.
Restart ==
    /\ faults < MaxFaults
    /\ deniedAccess' = {} /\ deniedRefresh' = {}
    /\ rotation' = [i \in Pairs |-> None]
    /\ req' = [q \in Reqs |-> IF req[q].step \in ServerSteps
                              THEN [req[q] EXCEPT !.step = "failed"] ELSE req[q]]
    /\ faults' = faults + 1
    /\ UNCHANGED <<issued, login, logins, accessExpired, jar, tabVars, ended, lost, stale>>

\* An answer does not arrive.
LoseAnswer(q) ==
    /\ faults < MaxFaults
    /\ req[q].step \in {"ok", "refused"}
    /\ req' = [req EXCEPT ![q].step = "failed"]
    /\ faults' = faults + 1
    /\ UNCHANGED <<serverVars, jar, tabVars, ended, lost, stale>>

-----------------------------------------------------------------------------
(***************************************************************************)
(* The answer in the browser                                                *)
(***************************************************************************)
Answered(q) == req[q].step \in AnswerSteps

JarAfter_Raw(q) == req[q].fresh
JarAfter(q) == IF req[q].step = "failed" \/ req[q].fresh = Keep THEN jar ELSE req[q].fresh

CarriesCookies(q) == req[q].fresh > None
Outdated(q) == req[q].fresh \in deniedRefresh /\ login[req[q].fresh] \notin ended

TakeCookies(q) == /\ jar' = JarAfter(q)
                  /\ lost' = (lost \/ (req[q].step = "failed" /\ CarriesCookies(q)))
                  /\ stale' = (stale \/ (req[q].step # "failed" /\ Outdated(q)))

\* The browser may or may not have read the headers of an aborted answer.
ReceiveOrphan(q) ==
    /\ Answered(q) /\ req[q].tab = NoTab
    /\ req' = [req EXCEPT ![q] = Idle]
    /\ \/ TakeCookies(q)
       \/ lost' = (lost \/ CarriesCookies(q)) /\ UNCHANGED <<jar, stale>>
    /\ UNCHANGED <<serverVars, tabVars, ended, faults>>

\* 401 on a first attempt: the interceptor starts the tab's refresh call, or
\* waits for the one under way.  It leaves the calls of the handshake alone.
RunsRefresh_Own(q, t) == TRUE
RunsRefresh(q, t) == refresher[t] = NoTab

Receive401(q) ==
    LET t == req[q].tab IN
    /\ req[q].step = "refused" /\ t \in Tabs
    /\ req[q].via = "middleware" /\ ~req[q].again /\ req[q].kind # "logout"
    /\ TakeCookies(q)
    /\ IF RunsRefresh(q, t)
       THEN /\ refresher' = [refresher EXCEPT ![t] = q]
            /\ req' = [req EXCEPT ![q] = [@ EXCEPT !.via = "endpoint", !.again = TRUE, !.fresh = Keep,
                                           !.pair = JarAfter(q),
                                           !.step = IF JarAfter(q) = None THEN "refused" ELSE "cache"]]
       ELSE /\ req' = [req EXCEPT ![q] = [@ EXCEPT !.again = TRUE, !.fresh = Keep,
                                           !.pair = None, !.step = "wait"]]
            /\ UNCHANGED refresher
    /\ UNCHANGED <<serverVars, stored, page, signedIn, ready, boot, ended, faults>>

\* Those that await the tab's refresh promise.
Awaiting(t) == {q \in Reqs : req[q].tab = t /\ (req[q].step = "wait" \/ q = refresher[t])}

\* The refresh call has succeeded: every request that awaited it is sent again.
Resume_One(q) ==
    LET t == req[q].tab IN
    /\ req[q].step = "ok" /\ req[q].via = "endpoint" /\ t \in Tabs
    /\ TakeCookies(q)
    /\ refresher' = [refresher EXCEPT ![t] = NoTab]
    /\ req' = [req EXCEPT ![q] = [@ EXCEPT !.step = "auth", !.via = "middleware", !.pair = JarAfter(q), !.fresh = Keep]]
    /\ UNCHANGED <<serverVars, stored, page, signedIn, ready, boot, ended, faults>>

Resume(q) ==
    LET t == req[q].tab IN
    /\ req[q].step = "ok" /\ req[q].via = "endpoint" /\ t \in Tabs
    /\ TakeCookies(q)
    /\ refresher' = [refresher EXCEPT ![t] = NoTab]
    /\ req' = [p \in Reqs |-> IF p = q \/ p \in Awaiting(t)
                              THEN [req[p] EXCEPT !.step = "auth", !.via = "middleware",
                                                  !.pair = JarAfter(q), !.fresh = Keep]
                              ELSE req[p]]
    /\ UNCHANGED <<serverVars, stored, page, signedIn, ready, boot, ended, faults>>

\* The refresh call was refused or failed: everything that awaited it is
\* rejected, the auth store is cleared.
GiveUp(q) ==
    LET t == req[q].tab IN
    /\ req[q].step \in {"refused", "failed"} /\ req[q].via = "endpoint" /\ t \in Tabs
    /\ TakeCookies(q)
    /\ refresher' = [refresher EXCEPT ![t] = NoTab]
    /\ req' = Cleared(q, [p \in Reqs |-> IF p \in Awaiting(t) THEN Idle ELSE req[p]])
    /\ ClearAuth(t)
    /\ UNCHANGED <<serverVars, ended, faults>>

\* What the caller sees: an answer, a 401 that is not repeated, or a broken connection.
Final(q) == /\ req[q].tab \in Tabs /\ req[q].via = "middleware"
            /\ \/ req[q].step \in {"ok", "failed"}
               \/ req[q].step = "refused" /\ (req[q].again \/ req[q].kind = "logout")

Close(q) == /\ TakeCookies(q)
            /\ req' = [req EXCEPT ![q] = Idle]
            /\ UNCHANGED <<serverVars, refresher, ended, faults>>

\* The caller clears the store when the request is over.
CloseAndClear(q) == /\ TakeCookies(q)
                    /\ req' = Cleared(q, req)
                    /\ ClearAuth(req[q].tab)
                    /\ UNCHANGED <<serverVars, refresher, ended, faults>>

ReceiveApi(q) ==
    /\ Final(q) /\ req[q].kind \in {"api", "dropped"}
    /\ Close(q)
    /\ UNCHANGED <<stored, page, signedIn, ready, boot>>

\* A call that has changed the profile: ProfilePage sets the user it showed,
\* with the change, and invalidates useAuth's query, whose fetch is replaced
\* when it has data and joined when it has none.
ReceiveSaved(q) ==
    LET t == req[q].tab IN
    /\ Final(q) /\ req[q].kind = "api" /\ req[q].step = "ok"
    /\ TakeCookies(q)
    /\ req' = IF boot[t] = "first" THEN [req EXCEPT ![q] = Idle] ELSE Fetch(q, t, req)
    /\ boot' = Fetched(t)
    /\ SetAuth(t)
    /\ faults < MaxFaults
    /\ faults' = faults + 1
    /\ UNCHANGED <<serverVars, page, refresher, ended>>

\* useAuth's effect: queryFn turns every error into an empty profile.
ReceiveBoot_Silent(q) ==
    LET t == req[q].tab IN
    /\ Final(q) /\ req[q].kind = "boot"
    /\ Close(q)
    /\ boot' = [boot EXCEPT ![t] = "loaded"]
    /\ IF req[q].step = "ok" THEN SetAuth(t) /\ UNCHANGED page
       ELSE UNCHANGED <<stored, page, signedIn, ready>>

ReceiveBoot(q) ==
    LET t == req[q].tab IN
    /\ Final(q) /\ req[q].kind = "boot"
    /\ IF req[q].step # "ok" /\ page[t] = "protected" THEN CloseAndClear(q)
       ELSE /\ Close(q)
            /\ boot' = [boot EXCEPT ![t] = "loaded"]
            /\ UNCHANGED page
            /\ IF req[q].step = "ok" /\ (stored \/ page[t] = "protected") THEN SetAuth(t)
               ELSE /\ ready' = [ready EXCEPT ![t] = @ \/ (~stored /\ page[t] = "public")]
                    /\ UNCHANGED <<stored, signedIn>>

\* LoginForm: only a profile that was read signs the user in.  The stored user
\* enables useAuth's query where it was not.
ReceiveProfile(q) ==
    LET t == req[q].tab IN
    /\ Final(q) /\ req[q].kind = "profile"
    /\ IF req[q].step # "ok" THEN Close(q) /\ UNCHANGED <<stored, page, signedIn, ready, boot>>
       ELSE /\ TakeCookies(q)
            /\ SetAuth(t) /\ page' = [page EXCEPT ![t] = "protected"]
            /\ IF stored \/ Booting(t) THEN req' = [req EXCEPT ![q] = Idle] /\ UNCHANGED boot
               ELSE req' = Fetch(q, t, req) /\ boot' = Fetched(t)
            /\ UNCHANGED <<serverVars, refresher, ended, faults>>

\* LoginForm: the profile is asked for with the cookies the login brought.
ReceiveLogin(q) ==
    /\ Final(q) /\ req[q].kind = "login"
    /\ TakeCookies(q)
    /\ req' = [req EXCEPT ![q] = IF @.step = "ok" THEN Sent("profile", @.tab, JarAfter(q)) ELSE Idle]
    /\ UNCHANGED <<serverVars, tabVars, ended, faults>>

\* handleLogout's finally: the store is cleared whatever the answer was.
ReceiveLogout(q) ==
    /\ Final(q) /\ req[q].kind = "logout"
    /\ CloseAndClear(q)

-----------------------------------------------------------------------------
Server(q) == \/ Authenticate(q) \/ LookupRotation(q) \/ ValidateRefresh(q) \/ StoreRotation(q)
             \/ DenyOld(q) \/ Recheck(q) \/ ServeLogin(q) \/ ServeLogout(q)

Receive(q) == \/ ReceiveOrphan(q) \/ Receive401(q) \/ Resume(q) \/ GiveUp(q) \/ ReceiveApi(q)
              \/ ReceiveSaved(q) \/ ReceiveBoot(q) \/ ReceiveProfile(q) \/ ReceiveLogin(q) \/ ReceiveLogout(q)

User(q, t) == \/ SendApi(q, t) \/ SendLogout(q, t) \/ SendLogin(q, t) \/ OAuthReturn(q, t) \/ Reconnect(q, t)
              \/ \E p \in {"public", "protected"} : Reload(q, t, p)

Next == \/ \E q \in Reqs : Server(q) \/ Receive(q) \/ LoseAnswer(q)
        \/ \E q \in Reqs, t \in Tabs : User(q, t)
        \/ \E t \in Tabs : Navigate(t)
        \/ \E i \in Pairs : ExpireAccess(i) \/ GraceEnds(i)
        \/ Restart

Spec == Init /\ [][Next]_vars

\* Handlers and callbacks run to their end; users, clocks and faults owe nothing.
FairSpec == Spec /\ \A q \in Reqs : WF_vars(Server(q) \/ Receive(q))

-----------------------------------------------------------------------------
TypeOK == /\ issued \in 0..MaxPairs /\ logins \in 0..MaxLogins
          /\ login \in [Pairs -> 0..MaxLogins]
          /\ {accessExpired, deniedAccess, deniedRefresh} \subseteq SUBSET Pairs
          /\ rotation \in [Pairs -> 0..MaxPairs]
          /\ jar \in 0..MaxPairs
          /\ page \in [Tabs -> {"public", "protected"}]
          /\ {signedIn, ready} \subseteq [Tabs -> BOOLEAN] /\ boot \in [Tabs -> Boots]
          /\ refresher \in [Tabs -> Reqs \cup {NoTab}]
          /\ req \in [Reqs -> Request]
          /\ ended \subseteq 1..MaxLogins
          /\ {stored, lost, stale} \subseteq BOOLEAN
          /\ faults \in 0..MaxFaults

\* The refresh token in the cookies of a session that was not logged out is not
\* revoked, or its rotation is still remembered.  Cookies are written by answers
\* in whatever order they arrive, RefreshToken revokes before the answer leaves,
\* so this rests on the rotations kept and on nothing else.  A request that
\* arrives at /auth/logout is rotated like any other.  Two things break it: an
\* answer that is lost with its cookies, and one that arrives after its pair was
\* rotated.  That takes three requests: one rotates the pair, the second finds
\* the rotation and is slow, the third is refused in between and its refresh
\* call rotates the new pair.
JarUsable == jar # None /\ login[jar] \notin ended /\ ~lost /\ ~stale
             => jar \notin deniedRefresh \/ rotation[jar] # None

\* A refresh call that was refused though the server has not forgotten its token:
\* the token is not revoked (its seven days were over, its user was not read, a
\* restart has cleared the denylist), or its rotation is remembered (it was
\* stored by another request between the lookup and the check of the denylist).
NotForgotten(q) == /\ req[q].step = "refused" /\ req[q].pair # None
                   /\ req[q].pair \in deniedRefresh => rotation[req[q].pair] # None

\* What may sign a tab out: its own logout, a fetch of the profile by useAuth
\* that is not answered, a refresh call that had no cookie to send, got no
\* answer or was refused a token the server has not forgotten.
Cause(t) == \E q \in Of(t) :
    \/ req[q].kind = "logout"
    \/ req[q].kind = "boot" /\ req[q].step = "failed"
    \/ req[q].via = "endpoint" /\ (req[q].step = "failed" \/ req[q].pair = None \/ NotForgotten(q))

\* Concurrent requests of one or several tabs with an access token that has run
\* out do not sign anybody out: no tab loses its user because its refresh token
\* was used up by another request.  RefreshToken looks up the rotation and checks
\* the denylist in two steps, so the middleware does refuse a request whose
\* token is rotated in between; the interceptor's second attempt makes up for it.
\* Excepted are the sign-ins that were logged out, cookies lost or stale, and a
\* user another tab has removed from localStorage.
SignedOutForCause ==
    [][\A t \in Tabs : signedIn[t] /\ ~signedIn'[t] => ended # {} \/ lost \/ stale \/ ~stored \/ Cause(t)]_vars

\* However many requests of a tab meet a 401 at once, one refresh call is under
\* way: refreshPromise is shared.
OneRefreshPerTab ==
    \A t \in Tabs : Cardinality({q \in Of(t) : req[q].via = "endpoint" /\ req[q].step # "wait"}) <= 1

\* The cookies of the jar and the refresh calls of the tabs are sound in every state.
SessionSound == TypeOK /\ JarUsable /\ OneRefreshPerTab

\* Every request is answered or rejected in the end, the logout with its
\* middleware too: the second attempt cannot start a third, and whoever awaits
\* the refresh call of another request is resumed or rejected with it, also when
\* the page of that request is gone.  A place that is taken again at once, as by
\* the fetch that follows a sign-out, has been left by the request before.
RequestsSettle == \A q \in Reqs : req[q].step # "idle" ~> req[q].step = "idle"

\* A protected page whose profile is being fetched gets past the spinner of
\* ProtectedRoute, whether the profile is read, refused or never answered.
BootSettles == \A t \in Tabs : (page[t] = "protected" /\ ~ready[t] /\ boot[t] = "first")
                                ~> (ready[t] \/ page[t] = "public")

\* Refuted: that a session which was logged out is out of the cookies once the
\* logout is answered.  A request that rotated the tokens before the logout and
\* is answered after it brings back cookies that nobody revoked.
LogoutFinal == jar # None /\ login[jar] \in ended /\ faults = 0 => \E q \in Reqs : req[q].kind = "logout"

\* Refuted: that a logout that is answered leaves no cookies.  The middleware
\* answers 401 when it cannot refresh, and only Logout clears them.
LogoutClears == [][\A q \in Reqs : ReceiveLogout(q) /\ req[q].step # "failed" => jar' = None]_vars
=============================================================================
