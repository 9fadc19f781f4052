-------------------------------- MODULE Account --------------------------------
(***************************************************************************)
(* One account from sign-up on: the row of the users table and the one-time *)
(* codes, the handlers that work on them in several database calls, and the *)
(* pages that call the handlers: sign-up, e-mail verification, forgotten    *)
(* and reset password, and the profile with its user name.                  *)
(*                                                                          *)
(* Every form of a tab has one call, which runs through the handler's       *)
(* database calls and then through the page's callback.  Between two steps  *)
(* of one call the others run.                                              *)
(*                                                                          *)
(* A definition whose name ends in "_" and a word is not part of the        *)
(* specification: it is the definition after it with a bug a programmer     *)
(* could have made, and the properties must tell the two apart.             *)
(***************************************************************************)
EXTENDS Naturals, FiniteSets, TLC

CONSTANTS Tabs,       \* tabs, or devices, of the user
          Usernames,  \* user names
          NoName,     \* the empty user name
          MaxCodes,   \* codes that can be made
          MaxCalls,   \* bound on forms submitted
          MaxOpen,    \* bound on calls under way
          MaxFaults   \* bound on failed database calls and lost answers

ASSUME AccountAssumption == /\ IsFiniteSet(Tabs) /\ NoName \notin Usernames
                            /\ {MaxCodes, MaxCalls, MaxOpen, MaxFaults} \subseteq Nat /\ MaxCalls # 0

VARIABLES row,       \* the account's row of users
          codes,     \* unexpired rows of otps for its e-mail address
          sent,      \* codes made so far
          taken,     \* user names of other accounts
          call,      \* the call of every form
          user,      \* the store's user of each tab
          typed,     \* usernameInput
          debounced, \* debouncedUsername
          available, \* availability query of the debounced name
          cache,     \* data of the queries under "userProfile" of each tab
          fetch,     \* their request
          calls,     \* forms submitted so far
          faults,    \* failed database calls and lost answers so far
          voided,    \* history: the newest code was used, has run out, or its making failed
          wrote      \* history: version of the tab's last acknowledged write

dbVars == <<row, codes, sent, taken, voided>>
formVars == <<typed, debounced, available>>
cacheVars == <<cache, fetch, wrote>>
vars == <<dbVars, call, user, formVars, cacheVars, calls, faults>>

\* "welcome" is the code that the sign-up form asks for after the sign-up.
Forms == {"signup", "welcome", "resend", "verify", "forgot", "reset", "claim", "names"}
Versions == 0..MaxCalls
Names == 0..MaxCalls

\* version stands for updated_at, names for first and last name.
Row == [exists: BOOLEAN, verified: BOOLEAN, username: Usernames \cup {NoName}, names: Names, version: Versions]
NoRow == [exists |-> FALSE, verified |-> FALSE, username |-> NoName, names |-> 0, version |-> 0]

DbSteps == {"validate", "lookup", "read", "check", "taken", "insert", "write", "purge", "create", "profile"}
Steps == {"idle", "ok", "refused"} \cup DbSteps
Call == [step: Steps, seen: Row, code: 0..MaxCodes, name: Usernames \cup {NoName},
         names: Names, complete: BOOLEAN]
Idle == [step |-> "idle", seen |-> NoRow, code |-> 0, name |-> NoName, names |-> 0, complete |-> TRUE]

FetchSteps == {"stale", "read", "fresh"}

\* Nobody is signed in.  There is no account yet, or one that a provider vouched for.
Init == /\ \/ row = NoRow /\ calls = 0
           \/ row = [NoRow EXCEPT !.exists = TRUE, !.verified = TRUE] /\ calls = 1
        /\ codes = {} /\ sent = 0 /\ taken = {} /\ voided = TRUE
        /\ call = [t \in Tabs |-> [f \in Forms |-> Idle]]
        /\ user = [t \in Tabs |-> NoRow]
        /\ typed = [t \in Tabs |-> NoName]
        /\ debounced = [t \in Tabs |-> NoName]
        /\ available = [t \in Tabs |-> "unknown"]
        /\ cache = [t \in Tabs |-> NoRow]
        /\ fetch = [t \in Tabs |-> [step |-> "stale", data |-> NoRow]]
        /\ wrote = [t \in Tabs |-> 0]
        /\ faults = 0

At(t, f, s) == call[t][f].step = s
GoTo(t, f, s) == call' = [call EXCEPT ![t][f].step = s]

-----------------------------------------------------------------------------
(***************************************************************************)
(* The handlers' database calls                                             *)
(***************************************************************************)
\* What follows a database call of a handler that has gone well.  SendOTP and
\* ForgotPassword delete the old codes before they store the new one; Update
\* reads the row again; the sign-up and the verification page read the profile.
Following_Swapped(f, s) ==
    CASE s = "validate" -> "check"
      [] s = "lookup" -> IF f = "signup" THEN "insert" ELSE "create"
      [] s = "insert" -> "profile"
      [] s = "read" -> (CASE f = "verify" -> "check" [] f = "claim" -> "taken"
                          [] f = "names" -> "write" [] OTHER -> "create")
      [] s \in {"check", "taken"} -> "write"
      [] s = "write" -> (CASE f \in {"verify", "reset"} -> "purge" [] f = "names" -> "profile" [] OTHER -> "ok")
      [] s = "purge" -> IF f = "verify" THEN "profile" ELSE "ok"
      [] s = "create" -> "purge"

Following(f, s) ==
    CASE s = "validate" -> "check"
      [] s = "lookup" -> IF f = "signup" THEN "insert" ELSE "purge"
      [] s = "insert" -> "profile"
      [] s = "read" -> (CASE f = "verify" -> "check" [] f = "claim" -> "taken"
                          [] f = "names" -> "write" [] OTHER -> "purge")
      [] s \in {"check", "taken"} -> "write"
      [] s = "write" -> (CASE f \in {"verify", "reset"} -> "purge" [] f = "names" -> "profile" [] OTHER -> "ok")
      [] s = "purge" -> (CASE f = "verify" -> "profile" [] f = "reset" -> "ok" [] OTHER -> "create")
      [] s = "create" -> "ok"

Proceed(t, f) == GoTo(t, f, Following(f, call[t][f].step))
Refuse(t, f) == GoTo(t, f, "refused")
HandlerOnly == UNCHANGED <<user, formVars, cacheVars, calls, faults>>

\* AuthHandler.ResetPassword: the body must have a new_password.
Validate(t, f) ==
    /\ At(t, f, "validate")
    /\ IF call[t][f].complete THEN Proceed(t, f) ELSE Refuse(t, f)
    /\ UNCHANGED dbVars /\ HandlerOnly

\* GetByEmail: Signup wants no account; ForgotPassword says nothing of one it misses.
LookUp(t, f) ==
    /\ At(t, f, "lookup")
    /\ IF row.exists = (f = "forgot") THEN Proceed(t, f)
       ELSE GoTo(t, f, IF f = "forgot" THEN "ok" ELSE "refused")
    /\ UNCHANGED dbVars /\ HandlerOnly

\* userRepo.Create: the e-mail address is unique.
InsertRow(t, f) ==
    /\ At(t, f, "insert")
    /\ IF row.exists THEN Refuse(t, f) /\ UNCHANGED row
       ELSE Proceed(t, f) /\ row' = [NoRow EXCEPT !.exists = TRUE]
    /\ UNCHANGED <<codes, sent, taken, voided>> /\ HandlerOnly

\* GetByID and the refusal that depends on what it returns.
ReadRow(t, f) ==
    /\ At(t, f, "read")
    /\ IF \/ f \in {"welcome", "resend", "verify"} /\ row.verified
          \/ f = "claim" /\ row.username # NoName
       THEN Refuse(t, f)
       ELSE call' = [call EXCEPT ![t][f].step = Following(f, "read"),
                                 ![t][f].seen = IF f \in {"welcome", "resend"} THEN NoRow ELSE row]
    /\ UNCHANGED dbVars /\ HandlerOnly

\* otpRepo.Verify: any unexpired code of the address, whatever it was made for.
CheckCode(t, f) ==
    /\ At(t, f, "check")
    /\ IF call[t][f].code \in codes THEN Proceed(t, f) ELSE Refuse(t, f)
    /\ UNCHANGED dbVars /\ HandlerOnly

CheckTaken(t, f) ==
    /\ At(t, f, "taken")
    /\ IF call[t][f].name \in taken THEN Refuse(t, f) ELSE Proceed(t, f)
    /\ UNCHANGED dbVars /\ HandlerOnly

\* userRepo.Update writes names and is_verified as the handler read them, and
\* a user name unless it is empty; the user name is unique.
Updated(f, c) ==
    [row EXCEPT !.verified = IF f = "verify" THEN TRUE ELSE c.seen.verified,
                !.names = IF f = "names" THEN c.names ELSE c.seen.names,
                !.username = IF f = "claim" THEN c.name
                             ELSE IF c.seen.username # NoName THEN c.seen.username ELSE @,
                !.version = @ + 1]

UniqueName_Off(u) == TRUE
UniqueName(u) == u \notin taken

WriteRow(t, f) ==
    /\ At(t, f, "write") /\ f # "reset"
    /\ LET new == Updated(f, call[t][f]) IN
       IF UniqueName(new.username)
       THEN /\ row' = new
            /\ call' = [call EXCEPT ![t][f].step = Following(f, "write"), ![t][f].seen = new]
       ELSE Refuse(t, f) /\ UNCHANGED row
    /\ UNCHANGED <<codes, sent, taken, voided>> /\ HandlerOnly

\* userRepo.UpdatePassword touches one column of its own.
WritePassword(t, f) ==
    /\ At(t, f, "write") /\ f = "reset"
    /\ row' = [row EXCEPT !.version = @ + 1]
    /\ Proceed(t, f)
    /\ UNCHANGED <<codes, sent, taken, voided>> /\ HandlerOnly

\* otpRepo.DeleteByEmail.
PurgeCodes(t, f) ==
    /\ At(t, f, "purge")
    /\ codes' = {}
    /\ voided' = (voided \/ f \in {"verify", "reset"})
    /\ Proceed(t, f)
    /\ UNCHANGED <<row, sent, taken>> /\ HandlerOnly

\* otpRepo.Create; the mail that brings the code to the user is on its way.
CreateCode_Other(t, f) ==
    /\ At(t, f, "create") /\ sent < MaxCodes
    /\ sent' = sent + 1
    /\ codes' = codes \cup {sent + 2}
    /\ voided' = FALSE
    /\ Proceed(t, f)
    /\ UNCHANGED <<row, taken>> /\ HandlerOnly

CreateCode(t, f) ==
    /\ At(t, f, "create") /\ sent < MaxCodes
    /\ sent' = sent + 1
    /\ codes' = codes \cup {sent + 1}
    /\ voided' = FALSE
    /\ Proceed(t, f)
    /\ UNCHANGED <<row, taken>> /\ HandlerOnly

\* GET /users/me, or the read at the end of Update.
ReadProfile(t, f) ==
    /\ At(t, f, "profile")
    /\ call' = [call EXCEPT ![t][f].step = "ok", ![t][f].seen = row]
    /\ UNCHANGED dbVars /\ HandlerOnly

\* A database call fails or an answer is lost: an error for the page, unless the
\* handler ignores it (the last deletion) or the page does (the profile of a
\* new account, which the form then makes up).
Fault(t, f) ==
    /\ faults < MaxFaults
    /\ call[t][f].step \in DbSteps
    /\ faults' = faults + 1
    /\ voided' = (voided \/ At(t, f, "create"))
    /\ IF At(t, f, "purge") /\ f \in {"verify", "reset"} THEN Proceed(t, f)
       ELSE IF At(t, f, "profile") /\ f = "signup"
       THEN call' = [call EXCEPT ![t][f] = [@ EXCEPT !.step = "ok", !.seen = [NoRow EXCEPT !.exists = TRUE]]]
       ELSE Refuse(t, f)
    /\ UNCHANGED <<row, codes, sent, taken, user, formVars, cacheVars, calls>>

\* Ten minutes pass.
ExpireCodes ==
    /\ codes # {}
    /\ codes' = {} /\ voided' = TRUE
    /\ UNCHANGED <<row, sent, taken, call, user, formVars, cacheVars, calls, faults>>

\* Somebody else claims a user name.
OthersClaim(n) ==
    /\ n \notin taken /\ n # row.username
    /\ taken' = taken \cup {n}
    /\ UNCHANGED <<row, codes, sent, voided, call, user, formVars, cacheVars, calls, faults>>

-----------------------------------------------------------------------------
(***************************************************************************)
(* The pages                                                                *)
(***************************************************************************)
\* ProtectedRoute: the pages behind it want a user whose address is verified.
Admitted_Any(u) == u.exists
Admitted(u) == u.exists /\ u.verified

\* Everybody else who is signed in is sent to the verification page, which sends
\* away who is verified; the sign-up and sign-in pages send away who is signed in.
ToVerify(u) == u.exists /\ ~u.verified
SignedOut(u) == ~u.exists

PagesOnly == UNCHANGED <<dbVars, faults>>

Open == {c \in Tabs \X Forms : ~At(c[1], c[2], "idle")}

\* A form that has no call under way is submitted.
Submit(t, f, step, c) ==
    /\ At(t, f, "idle") /\ Cardinality(Open) < MaxOpen
    /\ calls < MaxCalls
    /\ calls' = calls + 1
    /\ call' = [call EXCEPT ![t][f] = [c EXCEPT !.step = step]]
    /\ UNCHANGED <<user, formVars, cacheVars>>
    /\ PagesOnly

Done(t, f) == call[t][f].step \in {"ok", "refused"}
Clear(t, f) == call' = [call EXCEPT ![t][f] = Idle]

SubmitSignup(t) ==
    /\ SignedOut(user[t]) /\ At(t, "welcome", "idle")
    /\ Submit(t, "signup", "lookup", Idle)

\* The form signs the user in and asks for a code before it goes on.
FinishSignup(t) ==
    /\ Done(t, "signup")
    /\ IF At(t, "signup", "ok")
       THEN /\ user' = [user EXCEPT ![t] = [call[t]["signup"].seen EXCEPT !.verified = FALSE]]
            /\ call' = [call EXCEPT ![t]["signup"] = Idle, ![t]["welcome"].step = "read"]
       ELSE Clear(t, "signup") /\ UNCHANGED user
    /\ UNCHANGED <<formVars, cacheVars, calls>> /\ PagesOnly

\* Errors of this code are left to the resend button.
FinishWelcome(t) ==
    /\ Done(t, "welcome")
    /\ Clear(t, "welcome")
    /\ UNCHANGED <<user, formVars, cacheVars, calls>> /\ PagesOnly

\* LoginForm, with the profile it reads.
SignIn(t) ==
    /\ SignedOut(user[t]) /\ row.exists
    /\ \A f \in {"signup", "welcome"} : At(t, f, "idle")
    /\ user' = [user EXCEPT ![t] = row]
    /\ UNCHANGED <<call, formVars, cacheVars, calls>> /\ PagesOnly

\* The six digits the user types or pastes: those of a mail that was sent.
EnteredCode(c) == c \in 1..sent

\* handleVerify, from the sixth digit or from the button, disabled while it runs.
SubmitVerify(t, c) ==
    /\ ToVerify(user[t]) /\ EnteredCode(c)
    /\ Submit(t, "verify", "read", [Idle EXCEPT !.code = c])

FinishVerify(t) ==
    /\ Done(t, "verify")
    /\ user' = IF At(t, "verify", "ok")
               THEN [user EXCEPT ![t] = [call[t]["verify"].seen EXCEPT !.verified = TRUE]] ELSE user
    /\ Clear(t, "verify")
    /\ UNCHANGED <<formVars, cacheVars, calls>> /\ PagesOnly

\* handleResend, some time after the last code: RESEND_COOLDOWN has no other part here.
SubmitResend(t) ==
    /\ ToVerify(user[t])
    /\ Submit(t, "resend", "read", Idle)

FinishResend(t) ==
    /\ Done(t, "resend")
    /\ Clear(t, "resend")
    /\ UNCHANGED <<user, formVars, cacheVars, calls>> /\ PagesOnly

SubmitForgot(t) == Submit(t, "forgot", "lookup", Idle)

\* The page sends what resetPasswordSchema makes of the form, a password and its
\* confirmation under names of their own; other clients send new_password.
SubmitReset(t, c, byPage) ==
    /\ EnteredCode(c)
    /\ Submit(t, "reset", "validate", [Idle EXCEPT !.code = c, !.complete = ~byPage])

\* ForgotPass goes on to the reset page, ResetPass to its dialog, or they show the error.
FinishPassword(t, f) ==
    /\ f \in {"forgot", "reset"} /\ Done(t, f)
    /\ Clear(t, f)
    /\ UNCHANGED <<user, formVars, cacheVars, calls>> /\ PagesOnly

-----------------------------------------------------------------------------
(***************************************************************************)
(* The profile page                                                         *)
(***************************************************************************)
Claimable(t) == Admitted(user[t]) /\ cache[t].exists /\ cache[t].username = NoName

Type(t, n) ==
    /\ Claimable(t) /\ n # typed[t] /\ calls < MaxCalls
    /\ typed' = [typed EXCEPT ![t] = n]
    /\ UNCHANGED <<call, user, debounced, available, cacheVars, calls>> /\ PagesOnly

\* 400 ms without a key; the availability query has a new key.
Debounce(t) ==
    /\ debounced[t] # typed[t]
    /\ debounced' = [debounced EXCEPT ![t] = typed[t]]
    /\ available' = [available EXCEPT ![t] = "unknown"]
    /\ UNCHANGED <<call, user, typed, cacheVars, calls>> /\ PagesOnly

\* checkUsername: true until another request claims the name.
CheckName(t) ==
    /\ Claimable(t) /\ debounced[t] # NoName /\ available[t] = "unknown" /\ calls < MaxCalls
    /\ available' = [available EXCEPT ![t] = IF debounced[t] \in taken \cup {row.username} THEN "no" ELSE "yes"]
    /\ UNCHANGED <<call, user, typed, debounced, cacheVars, calls>> /\ PagesOnly

SubmitClaim(t) ==
    /\ Claimable(t) /\ available[t] = "yes"
    /\ Submit(t, "claim", "read", [Idle EXCEPT !.name = debounced[t]])

\* invalidateQueries: a request under way is cancelled and sent again.
Invalidate_Late(t) ==
    fetch' = IF fetch[t].step = "fresh" THEN [fetch EXCEPT ![t].step = "stale"] ELSE fetch

Invalidate(t) == fetch' = [fetch EXCEPT ![t] = [step |-> "stale", data |-> NoRow]]

\* onSuccess of setUsernameMutation, with the debounced name of the moment.
FinishClaim(t) ==
    /\ Done(t, "claim")
    /\ IF At(t, "claim", "ok")
       THEN /\ Invalidate(t)
            /\ user' = IF user[t].exists THEN [user EXCEPT ![t].username = debounced[t]] ELSE user
            /\ wrote' = [wrote EXCEPT ![t] = call[t]["claim"].seen.version]
       ELSE UNCHANGED <<fetch, user, wrote>>
    /\ Clear(t, "claim")
    /\ UNCHANGED <<formVars, cache, calls>> /\ PagesOnly

\* The save button wants names that differ from the profile's.
SubmitNames(t) ==
    /\ Admitted(user[t]) /\ cache[t].exists
    /\ Submit(t, "names", "read", [Idle EXCEPT !.names = calls + 1])

FinishNames(t) ==
    /\ Done(t, "names")
    /\ IF At(t, "names", "ok")
       THEN /\ Invalidate(t)
            /\ user' = IF user[t].exists THEN [user EXCEPT ![t].names = call[t]["names"].seen.names] ELSE user
            /\ wrote' = [wrote EXCEPT ![t] = call[t]["names"].seen.version]
       ELSE UNCHANGED <<fetch, user, wrote>>
    /\ Clear(t, "names")
    /\ UNCHANGED <<formVars, cache, calls>> /\ PagesOnly

-----------------------------------------------------------------------------
(***************************************************************************)
(* The queries for /users/me, of useAuth and of the profile page, which are *)
(* invalidated together                                                     *)
(***************************************************************************)
FetchOnly == UNCHANGED <<dbVars, call, formVars, wrote, calls>>

\* The request is sent and the server reads the row.
SendFetch(t) ==
    /\ fetch[t].step = "stale" /\ user[t].exists
    /\ fetch' = [fetch EXCEPT ![t] = [step |-> "read", data |-> row]]
    /\ UNCHANGED <<user, cache, faults>> /\ FetchOnly

\* useAuth's effect runs when the data has changed.
AnswerFetch(t) ==
    /\ fetch[t].step = "read"
    /\ fetch' = [fetch EXCEPT ![t] = [step |-> "fresh", data |-> NoRow]]
    /\ cache' = [cache EXCEPT ![t] = fetch[t].data]
    /\ user' = IF fetch[t].data # cache[t] /\ user[t].exists
               THEN [user EXCEPT ![t] = fetch[t].data] ELSE user
    /\ UNCHANGED faults /\ FetchOnly

\* queryFn returns null for an error, which on a protected page clears the store
\* and the query client with it.
FailFetch(t) ==
    /\ fetch[t].step = "read" /\ faults < MaxFaults
    /\ faults' = faults + 1
    /\ cache' = [cache EXCEPT ![t] = NoRow]
    /\ IF Admitted(user[t])
       THEN /\ user' = [user EXCEPT ![t] = NoRow]
            /\ fetch' = [fetch EXCEPT ![t] = [step |-> "stale", data |-> NoRow]]
       ELSE /\ UNCHANGED user
            /\ fetch' = [fetch EXCEPT ![t] = [step |-> "fresh", data |-> NoRow]]
    /\ FetchOnly

-----------------------------------------------------------------------------
Handler(t, f) == \/ Validate(t, f) \/ LookUp(t, f) \/ InsertRow(t, f) \/ ReadRow(t, f) \/ CheckCode(t, f)
                 \/ CheckTaken(t, f) \/ WriteRow(t, f) \/ WritePassword(t, f) \/ PurgeCodes(t, f)
                 \/ CreateCode(t, f) \/ ReadProfile(t, f)

Finish(t) == \/ FinishSignup(t) \/ FinishWelcome(t) \/ FinishVerify(t) \/ FinishResend(t)
             \/ FinishClaim(t) \/ FinishNames(t) \/ \E f \in Forms : FinishPassword(t, f)

User(t) == \/ SubmitSignup(t) \/ SignIn(t) \/ SubmitResend(t) \/ SubmitForgot(t) \/ SubmitClaim(t) \/ SubmitNames(t)
           \/ \E c \in 1..MaxCodes : SubmitVerify(t, c) \/ \E byPage \in BOOLEAN : SubmitReset(t, c, byPage)
           \/ \E n \in Usernames : Type(t, n)

Fetching(t) == SendFetch(t) \/ AnswerFetch(t)

Next == \/ \E t \in Tabs, f \in Forms : Handler(t, f) \/ Fault(t, f)
        \/ \E t \in Tabs : \/ Finish(t) \/ User(t) \/ Debounce(t) \/ CheckName(t)
                           \/ Fetching(t) \/ FailFetch(t)
        \/ ExpireCodes
        \/ \E n \in Usernames : OthersClaim(n)

Spec == Init /\ [][Next]_vars

\* Handlers, callbacks and queries run to their end.
FairSpec == /\ Spec
            /\ \A t \in Tabs : \A f \in Forms : WF_vars(Handler(t, f))
            /\ \A t \in Tabs : WF_vars(Finish(t)) /\ WF_vars(Fetching(t))

\* The tabs are alike.
TabSymmetry == Permutations(Tabs)

-----------------------------------------------------------------------------
TypeOK == /\ row \in Row /\ codes \subseteq 1..sent /\ sent \in 0..MaxCodes
          /\ taken \subseteq Usernames /\ voided \in BOOLEAN
          /\ call \in [Tabs -> [Forms -> Call]]
          /\ {user, cache} \subseteq [Tabs -> Row]
          /\ {typed, debounced} \subseteq [Tabs -> Usernames \cup {NoName}]
          /\ available \in [Tabs -> {"unknown", "yes", "no"}]
          /\ fetch \in [Tabs -> [step : FetchSteps, data : Row]]
          /\ wrote \in [Tabs -> Versions]
          /\ calls \in 0..MaxCalls /\ faults \in 0..MaxFaults

\* A verified account stays verified, although Update writes is_verified back as
\* the handler read it before: every page that calls such a handler is behind
\* ProtectedRoute, which lets nobody pass whose account is not verified yet.
VerifiedStays == [][row.verified => row'.verified]_vars

\* The code made last can be used until it has run out or a code has been used,
\* in whatever order the calls of concurrent requests for codes are made; while
\* a handler is between its deletion and its insert there is none.
NewestCodeStands ==
    sent > 0 /\ ~voided /\ (\A t \in Tabs, f \in Forms : ~At(t, f, "create")) => sent \in codes

\* Two accounts never have one user name, although SetUsername looks the name up
\* in one call and writes it in another.
UsernameUnique == row.username \notin taken

\* The account's row and its codes are sound in every state.
AccountSound == TypeOK /\ NewestCodeStands /\ UsernameUnique

\* What a tab has saved is what its profile page shows once it has loaded it
\* again, also when the profile was being loaded while the change was saved.
OwnWritesShown == \A t \in Tabs : fetch[t].step = "fresh" /\ cache[t].exists => cache[t].version >= wrote[t]

\* Refuted: that a user name, once set, stays.  Two tabs that claim a name at
\* the same time both read a row without one.
UsernamePermanent == [][row.username # NoName => row'.username = row.username]_vars

\* Refuted: that the store's user name is the account's.  The success callback
\* takes the name that is typed by then.
StoreUsernameReal == \A t \in Tabs : user[t].username \in {NoName, row.username}

\* Refuted: that the reset page resets a password with a code that is good.
\* What it sends has no new_password.
ResetByCode == [][\A t \in Tabs : At(t, "reset", "validate") /\ call'[t]["reset"].step = "refused"
                                  => call[t]["reset"].code \notin codes \/ faults' # faults]_vars

\* Refuted: that a verified user is not kept on the verification page.  When the
\* profile is not read after the code was accepted, the next attempt is refused
\* as already verified; a profile that was read before the verification and
\* arrives after it sends the user back.
VerifiedIsRedirected == \A t \in Tabs : (row.verified /\ ToVerify(user[t])) ~> ~ToVerify(user[t])
=============================================================================
