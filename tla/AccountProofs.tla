---------------------------- MODULE AccountProofs -----------------------------
(***************************************************************************)
(* What is proved of Account, for any number of tabs, forms under way,      *)
(* codes and faults.                                                        *)
(*                                                                          *)
(* The inductive invariant Inv adds to AccountSound what stands behind it.  *)
(* Of every call: the steps its form can be at, that what it has seen of    *)
(* the row is nothing the row has not been (Known), that there is an        *)
(* account unless it is at the first steps of a sign-up, and that a call    *)
(* that will write is_verified back belongs to a verified account           *)
(* (CallSound).  Of every tab: that its store and its queries hold nothing  *)
(* the row has not been, and that what is being read is not older than its  *)
(* last write (TabSound).  Of the whole: no code before the account         *)
(* (NobodyYet), no more versions than calls that could write                *)
(* (VersionCounted), no code asked for before the sign-up is over           *)
(* (OneWelcome); without the last, the sign-up's callback could break off a *)
(* call between its deletion and its insert.  Every step of a call keeps    *)
(* what is known because the row takes nothing back (Grown), which is also  *)
(* why VerifiedStays holds.                                                 *)
(***************************************************************************)
EXTENDS Account, FiniteSetTheorems, TLAPS

\* The steps that the call of each form can be at.
Path(f) == {"idle", "ok", "refused"} \cup
    (CASE f = "signup" -> {"lookup", "insert", "profile"}
       [] f \in {"welcome", "resend"} -> {"read", "purge", "create"}
       [] f = "verify" -> {"read", "check", "write", "purge", "profile"}
       [] f = "forgot" -> {"lookup", "purge", "create"}
       [] f = "reset" -> {"validate", "check", "write", "purge"}
       [] f = "claim" -> {"read", "taken", "write"}
       [] f = "names" -> {"read", "write", "profile"})

\* The calls that are yet to write the row.
Writing == {c \in Tabs \X Forms : /\ c[2] \in {"verify", "reset", "claim", "names"}
                                  /\ call[c[1]][c[2]].step \in {"validate", "read", "check", "taken", "write"}}

\* Every version of the row is the write of a call, and those that are yet to
\* write have room for theirs.
VersionCounted == row.version + Cardinality(Writing) <= calls

\* What is known of the account is what it was once.
Known(r) == /\ r.version <= row.version
            /\ r.verified => row.verified
            /\ r.exists => row.exists

\* The type of the table of calls.
Calls == [Tabs -> [Forms -> Call]]

\* One call becomes r and every other stays.
Changed(t, f, r) ==
    /\ call' \in Calls /\ call'[t][f] = r
    /\ \A u \in Tabs, g \in Forms : u # t \/ g # f => call'[u][g] = call[u][g]

\* The constants as the assumption gives them.
LEMMA BoundsFact == /\ MaxCodes \in Nat /\ MaxCalls \in Nat /\ MaxOpen \in Nat /\ MaxFaults \in Nat /\ MaxCalls # 0
                    /\ IsFiniteSet(Tabs) /\ NoName \notin Usernames
  BY AccountAssumption

\* A row of nobody is a row, and nothing holds of it.
LEMMA RowFact == NoRow \in Row /\ NoRow.exists = FALSE /\ NoRow.verified = FALSE /\ NoRow.version = 0
                 /\ NoRow.username = NoName /\ NoRow.names = 0
  BY BoundsFact DEF NoRow, Row, Names, Versions

\* A form without a call has a call record of its own.
LEMMA IdleFact == Idle \in Call /\ Idle.step = "idle" /\ Idle.seen = NoRow
  BY BoundsFact, RowFact DEF Idle, Call, Steps, DbSteps, Names

\* Setting one entry of the table of calls changes that one and no other.
LEMMA ChangedFact ==
  ASSUME call \in Calls, NEW t \in Tabs, NEW f \in Forms, NEW r \in Call,
         call' = [call EXCEPT ![t] = [call[t] EXCEPT ![f] = r]]
  PROVE  Changed(t, f, r)
<1>1. call[t] \in [Forms -> Call]
  BY DEF Calls
<1> DEFINE g == [call[t] EXCEPT ![f] = r]
<1>2. g \in [Forms -> Call] /\ g[f] = r /\ \A h \in Forms : h # f => g[h] = call[t][h]
  BY <1>1
<1>3. call' = [call EXCEPT ![t] = g]
  OBVIOUS
<1> HIDE DEF g
<1>4. call' \in Calls /\ call'[t] = g /\ \A u \in Tabs : u # t => call'[u] = call[u]
  BY <1>2, <1>3 DEF Calls
<1> QED
  BY <1>2, <1>4 DEF Changed

\* GoTo sets the step of one call.
LEMMA GoToFact == ASSUME call \in Calls, NEW t \in Tabs, NEW f \in Forms, NEW s \in Steps, GoTo(t, f, s)
                  PROVE  Changed(t, f, [call[t][f] EXCEPT !.step = s])
<1> DEFINE r == [call[t][f] EXCEPT !.step = s]
<1>1. call[t] \in [Forms -> Call] /\ call[t][f] \in Call
  BY DEF Calls
<1>2. r \in Call
  BY <1>1 DEF Call
<1>3. call' = [call EXCEPT ![t] = [call[t] EXCEPT ![f] = r]]
  BY <1>1 DEF GoTo, Calls, Call
<1> HIDE DEF r
<1>4. Changed(t, f, r)
  BY <1>2, <1>3, ChangedFact
<1> QED
  BY <1>4 DEF r

\* A read sets the step of one call and what it has seen.
LEMMA SeenFact == ASSUME call \in Calls, NEW t \in Tabs, NEW f \in Forms, NEW s \in Steps, NEW o \in Row,
                         call' = [call EXCEPT ![t][f].step = s, ![t][f].seen = o]
                  PROVE  Changed(t, f, [call[t][f] EXCEPT !.step = s, !.seen = o])
<1> DEFINE r == [call[t][f] EXCEPT !.step = s, !.seen = o]
<1>1. call[t] \in [Forms -> Call] /\ call[t][f] \in Call
  BY DEF Calls
<1>2. r \in Call
  BY <1>1 DEF Call
<1>3. call' = [call EXCEPT ![t] = [call[t] EXCEPT ![f] = r]]
  BY <1>1 DEF Calls, Call
<1> HIDE DEF r
<1>4. Changed(t, f, r)
  BY <1>2, <1>3, ChangedFact
<1> QED
  BY <1>4 DEF r

\* Clear makes one call idle.
LEMMA ClearFact == ASSUME call \in Calls, NEW t \in Tabs, NEW f \in Forms, Clear(t, f)
                   PROVE  Changed(t, f, Idle)
<1> DEFINE r == Idle
<1>1. call' = [call EXCEPT ![t] = [call[t] EXCEPT ![f] = r]]
  BY DEF Clear, Calls
<1>2. r \in Call
  BY IdleFact
<1> HIDE DEF r
<1>3. Changed(t, f, r)
  BY <1>1, <1>2, ChangedFact
<1> QED
  BY <1>3 DEF r

\* The calls of one form.
PairsOf(f) == {<<t, f>> : t \in Tabs}

\* There are finitely many calls of one form.
LEMMA PairsFinite == ASSUME NEW f PROVE IsFiniteSet(PairsOf(f))
<1> DEFINE b == [t \in Tabs |-> <<t, f>>]
<1>1. b \in Surjection(Tabs, PairsOf(f))
  BY DEF Surjection, PairsOf
<1> QED
  BY <1>1, BoundsFact, FS_Surjection

\* There are finitely many calls that are yet to write, before and after a step.
LEMMA WritingFinite == IsFiniteSet(Writing) /\ IsFiniteSet(Writing')
<1> DEFINE P == (PairsOf("verify") \cup PairsOf("reset")) \cup (PairsOf("claim") \cup PairsOf("names"))
<1>1. IsFiniteSet(PairsOf("verify") \cup PairsOf("reset")) /\ IsFiniteSet(PairsOf("claim") \cup PairsOf("names"))
  BY PairsFinite, FS_Union
<1>2. IsFiniteSet(P)
  BY <1>1, FS_Union
<1>3. Writing \subseteq P /\ Writing' \subseteq P
  BY DEF Writing, PairsOf
<1> HIDE DEF P
<1> QED
  BY <1>2, <1>3, FS_Subset

\* A call that is yet to write the row.
IsWriting(t, f) == f \in {"verify", "reset", "claim", "names"}
                   /\ call[t][f].step \in {"validate", "read", "check", "taken", "write"}

\* A call is counted when it is yet to write.
LEMMA WritingIs == ASSUME NEW t \in Tabs, NEW f \in Forms
                   PROVE  /\ <<t, f>> \in Writing <=> IsWriting(t, f)
                          /\ <<t, f>> \in Writing' <=> IsWriting(t, f)'
  BY DEF Writing, IsWriting

\* How a call that changes counts among those that write.
LEMMA CountStep ==
  ASSUME TypeOK, VersionCounted, NEW t \in Tabs, NEW f \in Forms,
         \A u \in Tabs, g \in Forms : u # t \/ g # f => call'[u][g] = call[u][g],
         \/ calls' = calls /\ row'.version = row.version /\ (IsWriting(t, f)' => IsWriting(t, f))
         \/ calls' = calls /\ row'.version = row.version + 1 /\ IsWriting(t, f) /\ ~IsWriting(t, f)'
         \/ calls' = calls + 1 /\ row'.version = row.version
  PROVE  VersionCounted'
<1> DEFINE c == <<t, f>>
<1>1. Writing' \subseteq Writing \cup {c}
  BY DEF Writing
<1>2. /\ IsFiniteSet(Writing) /\ Cardinality(Writing) \in Nat
      /\ IsFiniteSet(Writing') /\ Cardinality(Writing') \in Nat
  BY WritingFinite, FS_CardinalityType
<1>3. row.version \in Nat /\ calls \in Nat /\ row.version + Cardinality(Writing) <= calls
  BY BoundsFact DEF TypeOK, Row, Versions, VersionCounted
<1>4. (c \in Writing <=> IsWriting(t, f)) /\ (c \in Writing' <=> IsWriting(t, f)')
  BY WritingIs
<1> HIDE DEF c
<1>5. CASE calls' = calls /\ row'.version = row.version /\ (IsWriting(t, f)' => IsWriting(t, f))
  <2>1. Writing' \subseteq Writing
    BY <1>1, <1>4, <1>5
  <2>2. Cardinality(Writing') <= Cardinality(Writing)
    BY <1>2, <2>1, FS_Subset
  <2> QED
    BY <1>2, <1>3, <1>5, <2>2 DEF VersionCounted
<1>6. CASE calls' = calls /\ row'.version = row.version + 1 /\ IsWriting(t, f) /\ ~IsWriting(t, f)'
  <2>1. Writing' \subseteq Writing \ {c} /\ c \in Writing
    BY <1>1, <1>4, <1>6
  <2>2. IsFiniteSet(Writing \ {c}) /\ Cardinality(Writing \ {c}) = Cardinality(Writing) - 1
    BY <1>2, <2>1, FS_RemoveElement
  <2>3. Cardinality(Writing') <= Cardinality(Writing \ {c})
    BY <2>1, <2>2, FS_Subset
  <2> QED
    BY <1>2, <1>3, <1>6, <2>2, <2>3 DEF VersionCounted
<1>7. CASE calls' = calls + 1 /\ row'.version = row.version
  <2>1. IsFiniteSet(Writing \cup {c}) /\ Cardinality(Writing \cup {c}) = IF c \in Writing THEN Cardinality(Writing)
                                                                                      ELSE Cardinality(Writing) + 1
    BY <1>2, FS_AddElement
  <2>2. Cardinality(Writing') <= Cardinality(Writing \cup {c})
    BY <1>1, <2>1, FS_Subset
  <2> QED
    BY <1>2, <1>3, <1>7, <2>1, <2>2 DEF VersionCounted
<1> QED
  BY <1>5, <1>6, <1>7

\* A call that is yet to write leaves room for its write.
LEMMA CountRoom == ASSUME TypeOK, VersionCounted, NEW t \in Tabs, NEW f \in Forms, IsWriting(t, f)
                   PROVE  row.version + 1 \in Versions
<1> DEFINE c == <<t, f>>
<1>1. c \in Writing
  BY WritingIs
<1>2. IsFiniteSet(Writing) /\ Cardinality(Writing) \in Nat /\ Writing # {}
  BY <1>1, WritingFinite, FS_CardinalityType
<1>3. Cardinality(Writing) # 0
  BY <1>2, FS_EmptySet
<1>4. row.version \in Nat /\ calls \in Nat /\ calls <= MaxCalls /\ row.version + Cardinality(Writing) <= calls
  BY BoundsFact DEF TypeOK, Row, Versions, VersionCounted
<1> QED
  BY <1>2, <1>3, <1>4, BoundsFact DEF Versions

\* The steps of a call before there is an account.
Early(f) == {"idle", "refused"} \cup (CASE f = "signup" -> {"lookup", "insert"}
                                        [] f = "forgot" -> {"lookup", "ok"} [] OTHER -> {})

\* What the invariant says of one call, of one tab, and of the table.
CallSound(t, f) ==
    /\ call[t][f].step \in Path(f)
    /\ Known(call[t][f].seen)
    /\ ~row.exists => call[t][f].step \in Early(f)
    /\ f = "verify" /\ call[t][f].step \in {"purge", "profile", "ok"} => row.verified
    /\ f \in {"claim", "names"} /\ call[t][f].step \in {"read", "taken", "write"} => row.verified
    /\ f \in {"claim", "names"} /\ call[t][f].step \in {"taken", "write"} => call[t][f].seen.verified

TabSound(t) == /\ Known(user[t]) /\ Known(cache[t]) /\ Known(fetch[t].data)
               /\ wrote[t] <= row.version
               /\ fetch[t].step = "read" => fetch[t].data.version >= wrote[t]

\* Before there is an account there is no code.
NobodyYet == ~row.exists => row = NoRow /\ sent = 0

\* The code for a new account is asked for when its sign-up is over.
OneWelcome == \A t \in Tabs : call[t]["signup"].step # "idle" => call[t]["welcome"].step = "idle"

\* The inductive invariant.
Inv == /\ TypeOK /\ VersionCounted /\ NobodyYet
       /\ \A t \in Tabs : TabSound(t) /\ \A f \in Forms : CallSound(t, f)
       /\ OneWelcome /\ NewestCodeStands /\ UsernameUnique

\* The types of everything but the calls.
RestOK == /\ row \in Row /\ codes \subseteq 1..sent /\ sent \in 0..MaxCodes
          /\ taken \subseteq Usernames /\ voided \in BOOLEAN
          /\ {user, cache} \subseteq [Tabs -> Row]
          /\ {typed, debounced} \subseteq [Tabs -> Usernames \cup {NoName}]
          /\ available \in [Tabs -> {"unknown", "yes", "no"}]
          /\ fetch \in [Tabs -> [step : FetchSteps, data : Row]]
          /\ wrote \in [Tabs -> Versions]
          /\ calls \in 0..MaxCalls /\ faults \in 0..MaxFaults

\* TypeOK is the type of the calls and the types of the rest.
LEMMA TypeIs == TypeOK <=> RestOK /\ call \in Calls
  BY DEF TypeOK, RestOK, Calls

\* The row takes nothing back.
Grown == /\ row'.version >= row.version
         /\ row.verified => row'.verified
         /\ row.exists => row'.exists

\* Three rows in the order of what they have: the first has nothing that the third has not.
LEMMA KnownStays == ASSUME NEW r \in Row, NEW o \in Row, NEW n \in Row, n.version >= o.version, o.verified => n.verified,
                           o.exists => n.exists, r.version <= o.version, r.verified => o.verified, r.exists => o.exists
                    PROVE  r.version <= n.version /\ (r.verified => n.verified) /\ (r.exists => n.exists)
  BY BoundsFact DEF Row, Versions

\* What was known of the row is known when it has grown.
LEMMA KnownNext == ASSUME row \in Row, row' \in Row, Grown, NEW r \in Row, Known(r)
                   PROVE  r.version <= row'.version /\ (r.verified => row'.verified) /\ (r.exists => row'.exists)
  BY KnownStays DEF Grown, Known

\* A call that a step leaves alone stays sound while the row grows.
LEMMA CallStays == ASSUME TypeOK, row' \in Row, Grown, NEW t \in Tabs, NEW f \in Forms, CallSound(t, f),
                         call'[t][f] = call[t][f]
                   PROVE  CallSound(t, f)'
<1>1. call[t][f].seen \in Row /\ row \in Row
  BY DEF TypeOK, Call
<1>2. Known(call[t][f].seen)
  BY DEF CallSound
<1>3. Known(call[t][f].seen)'
  <2>1. PICK r \in Row : r = call[t][f].seen
    BY <1>1
  <2>2. r.version <= row'.version /\ (r.verified => row'.verified) /\ (r.exists => row'.exists)
    BY <1>1, <1>2, <2>1, KnownNext
  <2>3. call'[t][f].seen = r
    BY <2>1
  <2> QED
    BY <2>2, <2>3 DEF Known
<1>4. ~row'.exists => ~row.exists
  BY DEF Grown
<1>5. row.verified => row'.verified
  BY DEF Grown
<1> QED
  BY <1>3, <1>4, <1>5 DEF CallSound

\* A tab that a step leaves alone stays sound while the row grows.
LEMMA TabStays == ASSUME TypeOK, row' \in Row, Grown, NEW t \in Tabs, TabSound(t),
                         user'[t] = user[t], cache'[t] = cache[t], fetch'[t] = fetch[t], wrote'[t] = wrote[t]
                  PROVE  TabSound(t)'
<1>1. user[t] \in Row /\ cache[t] \in Row /\ fetch[t].data \in Row /\ row \in Row /\ wrote[t] \in Nat
  BY BoundsFact DEF TypeOK, Versions
<1>2. PICK u \in Row, c \in Row, d \in Row : u = user[t] /\ c = cache[t] /\ d = fetch[t].data
  BY <1>1
<1>3. Known(u) /\ Known(c) /\ Known(d)
  BY <1>2 DEF TabSound
<1>4. Known(u)' /\ Known(c)' /\ Known(d)'
  BY <1>1, <1>3, KnownNext DEF Known
<1>5. wrote[t] <= row'.version
  BY <1>1, BoundsFact DEF TabSound, Grown, Row, Versions
<1>6. user'[t] = u /\ cache'[t] = c /\ fetch'[t].data = d /\ wrote'[t] = wrote[t] /\ fetch'[t].step = fetch[t].step
  BY <1>2
<1>7. fetch[t].step = "read" => d.version >= wrote[t]
  BY <1>2 DEF TabSound
<1> QED
  BY <1>4, <1>5, <1>6, <1>7 DEF TabSound

\* A step of one call, which begins none that has to wait for another.
LEMMA OneCall ==
  ASSUME Inv, RestOK', NEW t \in Tabs, NEW f \in Forms, NEW r, Changed(t, f, r), Grown,
         call[t][f].step # "idle" \/ (f # "welcome" /\ (f = "signup" => call[t]["welcome"].step = "idle")),
         CallSound(t, f)', VersionCounted', NobodyYet', NewestCodeStands', UsernameUnique', \A u \in Tabs : TabSound(u)'
  PROVE  Inv'
<1>1. TypeOK'
  <2>1. call' \in Calls
    BY DEF Changed
  <2>2. (RestOK /\ call \in Calls <=> TypeOK)'
    BY TypeIs, PTL
  <2> QED
    BY <2>1, <2>2 DEF Calls
<1>2. row' \in Row
  BY DEF RestOK
<1>3. ASSUME NEW u \in Tabs, NEW g \in Forms PROVE CallSound(u, g)'
  <2>1. CASE u = t /\ g = f
    BY <2>1
  <2>2. CASE u # t \/ g # f
    <3>1. call'[u][g] = call[u][g]
      BY <2>2 DEF Changed
    <3> QED
      BY <1>2, <3>1, CallStays DEF Inv
  <2> QED
    BY <2>1, <2>2
<1>4. OneWelcome'
  <2> SUFFICES ASSUME NEW u \in Tabs, call'[u]["signup"].step # "idle" PROVE call'[u]["welcome"].step = "idle"
    BY DEF OneWelcome
  <2>1. "signup" \in Forms /\ "welcome" \in Forms
    BY DEF Forms
  <2>2. call[u]["signup"].step # "idle" => call[u]["welcome"].step = "idle"
    BY DEF Inv, OneWelcome
  <2>3. CASE u # t \/ f \notin {"signup", "welcome"}
    <3>1. call'[u]["signup"] = call[u]["signup"] /\ call'[u]["welcome"] = call[u]["welcome"]
      BY <2>1, <2>3 DEF Changed
    <3> QED
      BY <2>2, <3>1
  <2>4. CASE u = t /\ f = "signup"
    <3>1. call'[u]["welcome"] = call[u]["welcome"]
      BY <2>1, <2>4 DEF Changed
    <3> QED
      BY <2>2, <2>4, <3>1
  <2>5. CASE u = t /\ f = "welcome"
    <3>1. call'[u]["signup"] = call[u]["signup"]
      BY <2>1, <2>5 DEF Changed
    <3> QED
      BY <2>2, <2>5, <3>1
  <2> QED
    BY <2>3, <2>4, <2>5
<1> QED
  BY <1>1, <1>3, <1>4 DEF Inv

\* Tabs that a step leaves alone.
LEMMA TabsStay == ASSUME Inv, row' \in Row, Grown, UNCHANGED <<user, cache, fetch, wrote>>
                  PROVE  \A u \in Tabs : TabSound(u)'
  BY TabStays DEF Inv

\* The newest code, where no code is made or lost and no call stops waiting to make one.
LEMMA NewestStays ==
  ASSUME Inv, NEW t \in Tabs, NEW f \in Forms, NEW r, Changed(t, f, r), call[t][f].step # "create",
         codes' = codes, sent' = sent, voided => voided'
  PROVE  NewestCodeStands'
<1> SUFFICES ASSUME sent > 0, ~voided', \A u \in Tabs, g \in Forms : call'[u][g].step # "create"
             PROVE  sent \in codes
  BY DEF NewestCodeStands, At
<1>1. \A u \in Tabs, g \in Forms : call[u][g].step # "create"
  BY DEF Changed
<1>2. ~voided
  OBVIOUS
<1> QED
  BY <1>1, <1>2 DEF Inv, NewestCodeStands, At

\* A call goes on to step s, having seen o.
Moves(t, f, s, o) == /\ \E r \in Call : Changed(t, f, r)
                     /\ call'[t][f].step = s /\ call'[t][f].seen = o

\* GoTo moves a call and leaves what it has seen.
LEMMA GoToMoves == ASSUME TypeOK, NEW t \in Tabs, NEW f \in Forms, NEW s \in Steps, GoTo(t, f, s)
                   PROVE  Moves(t, f, s, call[t][f].seen)
<1> DEFINE r == [call[t][f] EXCEPT !.step = s]
<1>1. Changed(t, f, r) /\ call[t][f] \in Call
  BY GoToFact, TypeIs DEF Calls
<1>2. r \in Call /\ r.step = s /\ r.seen = call[t][f].seen
  BY <1>1 DEF Call
<1> HIDE DEF r
<1> QED
  BY <1>1, <1>2 DEF Moves, Changed

\* A read moves a call to a step, with the row it has seen.
LEMMA SeesMoves == ASSUME TypeOK, NEW t \in Tabs, NEW f \in Forms, NEW s \in Steps, NEW o \in Row,
                          call' = [call EXCEPT ![t][f].step = s, ![t][f].seen = o]
                   PROVE  Moves(t, f, s, o)
<1> DEFINE r == [call[t][f] EXCEPT !.step = s, !.seen = o]
<1>1. Changed(t, f, r) /\ call[t][f] \in Call
  BY SeenFact, TypeIs DEF Calls
<1>2. r \in Call /\ r.step = s /\ r.seen = o
  BY <1>1 DEF Call
<1> HIDE DEF r
<1> QED
  BY <1>1, <1>2 DEF Moves, Changed

\* Clear moves a call to idle.
LEMMA ClearMoves == ASSUME TypeOK, NEW t \in Tabs, NEW f \in Forms, Clear(t, f)
                    PROVE  Moves(t, f, "idle", NoRow)
  BY ClearFact, TypeIs, IdleFact DEF Moves, Changed, Calls

\* A step that changes one call and no more than the count of faults, without
\* giving up a code that was to be made unless that voids the newest one.
Calm(t, f) == /\ UNCHANGED <<row, codes, sent, taken, user, formVars, cacheVars, calls>>
              /\ faults' \in 0..MaxFaults
              /\ call[t][f].step # "idle"
              /\ \/ voided' = voided /\ call[t][f].step # "create"
                 \/ voided' = TRUE

\* A step of a handler that touches neither the table nor the codes is calm.
LEMMA CalmFact == ASSUME Inv, NEW t \in Tabs, NEW f \in Forms, call[t][f].step \notin {"idle", "create"},
                         UNCHANGED dbVars, HandlerOnly
                  PROVE  Calm(t, f)
  BY DEF Calm, Inv, TypeOK, HandlerOnly, dbVars

\* A step of a handler that changes nothing but the call, and not by making a code.
LEMMA ReadOnly ==
  ASSUME Inv, NEW t \in Tabs, NEW f \in Forms, NEW s \in Path(f), NEW o, Moves(t, f, s, o), Calm(t, f),
         CallSound(t, f)', IsWriting(t, f)' => IsWriting(t, f)
  PROVE  Inv'
<1>1. RestOK'
  BY TypeIs DEF Inv, RestOK, Calm, formVars, cacheVars
<1>2. PICK r \in Call : Changed(t, f, r)
  BY DEF Moves
<1>3. Grown
  BY <1>1, BoundsFact DEF Grown, RestOK, Row, Versions, Calm
<1>4. VersionCounted'
  BY <1>2, CountStep DEF Inv, Changed, Calm
<1>5. NobodyYet' /\ UsernameUnique'
  BY DEF Inv, NobodyYet, UsernameUnique, Calm
<1>6. NewestCodeStands'
  <2>1. CASE voided' = voided /\ call[t][f].step # "create"
    BY <1>2, <2>1, NewestStays DEF Calm
  <2>2. CASE voided' = TRUE
    BY <2>2 DEF NewestCodeStands
  <2> QED
    BY <2>1, <2>2 DEF Calm
<1> QED
  <2>1. \A u \in Tabs : TabSound(u)'
    BY <1>1, <1>3, TabsStay DEF Calm, cacheVars, RestOK
  <2> QED
    BY <1>1, <1>2, <1>3, <1>4, <1>5, <1>6, <2>1, OneCall DEF Calm

\* The path of a form is made of steps, and every form can be idle, ok or refused.
LEMMA PathSteps == \A f \in Forms : Path(f) \subseteq Steps /\ "refused" \in Path(f) /\ "ok" \in Path(f) /\ "idle" \in Path(f)
  BY DEF Path, Forms, Steps, DbSteps

\* What CallSound asks of a call that has seen what it had seen before.
LEMMA MovedSound ==
  ASSUME Inv, NEW t \in Tabs, NEW f \in Forms, NEW s \in Path(f), Moves(t, f, s, call[t][f].seen), row' = row,
         ~row.exists => s \in Early(f),
         f = "verify" /\ s \in {"purge", "profile", "ok"} => call[t][f].step \in {"purge", "profile", "ok"},
         f \in {"claim", "names"} /\ s \in {"read", "taken", "write"} => call[t][f].step \in {"read", "taken", "write"},
         f \in {"claim", "names"} /\ s \in {"taken", "write"} => call[t][f].step \in {"taken", "write"}
  PROVE  CallSound(t, f)'
<1>1. CallSound(t, f)
  BY DEF Inv
<1>2. call'[t][f].step = s /\ call'[t][f].seen = call[t][f].seen
  BY DEF Moves
<1> QED
  BY <1>1, <1>2 DEF CallSound, Known

\* A refusal, at any step, keeps the invariant.
LEMMA RefuseStep ==
  ASSUME Inv, NEW t \in Tabs, NEW f \in Forms, Refuse(t, f), Calm(t, f)
  PROVE  Inv'
<1>1. "refused" \in Steps /\ "refused" \in Path(f) /\ "refused" \in Early(f)
  BY PathSteps DEF Early
<1>2. Moves(t, f, "refused", call[t][f].seen)
  BY <1>1, GoToMoves DEF Refuse, Inv
<1>3. CallSound(t, f)'
  BY <1>1, <1>2, MovedSound DEF Calm
<1>4. ~IsWriting(t, f)'
  BY <1>2 DEF Moves, IsWriting
<1> QED
  BY <1>1, <1>2, <1>3, <1>4, ReadOnly

\* A step of a handler that leads from one database call to another, and no more.
LEMMA GoToStep ==
  ASSUME Inv, NEW t \in Tabs, NEW f \in Forms, NEW s \in Path(f), GoTo(t, f, s), Calm(t, f),
         ~row.exists => s \in Early(f),
         f = "verify" /\ s \in {"purge", "profile", "ok"} => call[t][f].step \in {"purge", "profile", "ok"},
         f \in {"claim", "names"} /\ s \in {"read", "taken", "write"} => call[t][f].step \in {"read", "taken", "write"},
         f \in {"claim", "names"} /\ s \in {"taken", "write"} => call[t][f].step \in {"taken", "write"},
         f \in {"verify", "reset", "claim", "names"} /\ s \in {"validate", "read", "check", "taken", "write"}
            => call[t][f].step \in {"validate", "read", "check", "taken", "write"}
  PROVE  Inv'
<1>1. Moves(t, f, s, call[t][f].seen)
  BY GoToMoves, PathSteps DEF Inv
<1>2. CallSound(t, f)'
  BY <1>1, MovedSound DEF Calm
<1>3. IsWriting(t, f)' => IsWriting(t, f)
  BY <1>1 DEF Moves, IsWriting
<1> QED
  BY <1>1, <1>2, <1>3, ReadOnly

\* A call is at a step of its form's path, and at an early one while there is no account.
LEMMA StepsOf == ASSUME Inv, NEW t \in Tabs, NEW f \in Forms
                 PROVE  call[t][f].step \in Path(f) /\ (~row.exists => call[t][f].step \in Early(f))
  BY DEF Inv, CallSound

\* Which forms' calls can be at a step.
LEMMA WhoIsAt ==
  \A f \in Forms :
    /\ "validate" \in Path(f) => f = "reset"
    /\ "lookup" \in Path(f) => f \in {"signup", "forgot"}
    /\ "insert" \in Path(f) => f = "signup"
    /\ "read" \in Path(f) => f \in {"welcome", "resend", "verify", "claim", "names"}
    /\ "check" \in Path(f) => f \in {"verify", "reset"}
    /\ "taken" \in Path(f) => f = "claim"
    /\ "write" \in Path(f) => f \in {"verify", "reset", "claim", "names"}
    /\ "purge" \in Path(f) => f \in {"welcome", "resend", "verify", "forgot", "reset"}
    /\ "create" \in Path(f) => f \in {"welcome", "resend", "forgot"}
    /\ "profile" \in Path(f) => f \in {"signup", "verify", "names"}
<1>1. /\ Path("signup") = {"idle", "ok", "refused", "lookup", "insert", "profile"}
      /\ Path("welcome") = {"idle", "ok", "refused", "read", "purge", "create"}
      /\ Path("resend") = {"idle", "ok", "refused", "read", "purge", "create"}
      /\ Path("verify") = {"idle", "ok", "refused", "read", "check", "write", "purge", "profile"}
      /\ Path("forgot") = {"idle", "ok", "refused", "lookup", "purge", "create"}
      /\ Path("reset") = {"idle", "ok", "refused", "validate", "check", "write", "purge"}
      /\ Path("claim") = {"idle", "ok", "refused", "read", "taken", "write"}
      /\ Path("names") = {"idle", "ok", "refused", "read", "write", "profile"}
  BY DEF Path
<1> QED
  BY <1>1 DEF Forms

\* No early step lies behind the insert of the row.
LEMMA EarlySteps == \A f \in Forms : Early(f) \subseteq {"idle", "refused", "lookup", "insert", "ok"}
  BY DEF Early, Forms

\* Validate keeps the invariant.
LEMMA ValidateStep == ASSUME Inv, NEW t \in Tabs, NEW f \in Forms, Validate(t, f) PROVE Inv'
<1>0. call[t][f].step = "validate" /\ "validate" \in Path(f) /\ (~row.exists => "validate" \in Early(f))
  BY StepsOf DEF Validate, At
<1>1. f = "reset" /\ call[t][f].step = "validate" /\ row.exists
  BY <1>0, WhoIsAt, EarlySteps
<1>2. "check" \in Path(f) /\ Following(f, "validate") = "check"
  BY <1>1 DEF Path, Following
<1>3. CASE Proceed(t, f)
  BY <1>1, <1>2, <1>3, GoToStep, CalmFact DEF Proceed, Validate
<1>4. CASE Refuse(t, f)
  BY <1>1, <1>4, RefuseStep, CalmFact DEF Validate
<1> QED
  BY <1>3, <1>4 DEF Validate

\* LookUp keeps the invariant: a sign-up goes on without an account, a forgotten password with one.
LEMMA LookUpStep == ASSUME Inv, NEW t \in Tabs, NEW f \in Forms, LookUp(t, f) PROVE Inv'
<1>1. f \in {"signup", "forgot"} /\ call[t][f].step = "lookup"
  BY StepsOf, WhoIsAt DEF LookUp, At
<1>2. CASE row.exists = (f = "forgot") /\ Proceed(t, f)
  <2>1. CASE f = "signup"
    <3>1. "insert" \in Path(f) /\ "insert" \in Early(f) /\ Following(f, "lookup") = "insert"
      BY <2>1 DEF Path, Following, Early
    <3> QED
      BY <1>1, <1>2, <2>1, <3>1, GoToStep, CalmFact DEF Proceed, LookUp
  <2>2. CASE f = "forgot"
    <3>1. "purge" \in Path(f) /\ Following(f, "lookup") = "purge" /\ row.exists
      BY <1>2, <2>2 DEF Path, Following
    <3> QED
      BY <1>1, <1>2, <2>2, <3>1, GoToStep, CalmFact DEF Proceed, LookUp
  <2> QED
    BY <1>1, <2>1, <2>2
<1>3. CASE f = "forgot" /\ GoTo(t, f, "ok")
  <2>1. "ok" \in Path(f) /\ "ok" \in Early(f)
    BY <1>3 DEF Path, Early
  <2> QED
    BY <1>1, <1>3, <2>1, GoToStep, CalmFact DEF LookUp
<1>4. CASE GoTo(t, f, "refused")
  BY <1>1, <1>4, RefuseStep, CalmFact DEF LookUp, Refuse
<1> QED
  BY <1>1, <1>2, <1>3, <1>4 DEF LookUp

\* CheckCode keeps the invariant.
LEMMA CheckCodeStep == ASSUME Inv, NEW t \in Tabs, NEW f \in Forms, CheckCode(t, f) PROVE Inv'
<1>0. call[t][f].step = "check" /\ "check" \in Path(f) /\ (~row.exists => "check" \in Early(f))
  BY StepsOf DEF CheckCode, At
<1>1. f \in {"verify", "reset"} /\ call[t][f].step = "check" /\ row.exists
  BY <1>0, WhoIsAt, EarlySteps
<1>2. "write" \in Path(f) /\ Following(f, "check") = "write"
  BY <1>1 DEF Path, Following
<1>3. CASE Proceed(t, f)
  BY <1>1, <1>2, <1>3, GoToStep, CalmFact DEF Proceed, CheckCode
<1>4. CASE Refuse(t, f)
  BY <1>1, <1>4, RefuseStep, CalmFact DEF CheckCode
<1> QED
  BY <1>3, <1>4 DEF CheckCode

\* CheckTaken keeps the invariant.
LEMMA CheckTakenStep == ASSUME Inv, NEW t \in Tabs, NEW f \in Forms, CheckTaken(t, f) PROVE Inv'
<1>0. call[t][f].step = "taken" /\ "taken" \in Path(f) /\ (~row.exists => "taken" \in Early(f))
  BY StepsOf DEF CheckTaken, At
<1>1. f = "claim" /\ call[t][f].step = "taken" /\ row.exists
  BY <1>0, WhoIsAt, EarlySteps
<1>2. "write" \in Path(f) /\ Following(f, "taken") = "write"
  BY <1>1 DEF Path, Following
<1>3. CASE Proceed(t, f)
  BY <1>1, <1>2, <1>3, GoToStep, CalmFact DEF Proceed, CheckTaken
<1>4. CASE Refuse(t, f)
  BY <1>1, <1>4, RefuseStep, CalmFact DEF CheckTaken
<1> QED
  BY <1>3, <1>4 DEF CheckTaken

\* What the reads of the row leave: what has been seen is the row.
LEMMA ReadRowStep == ASSUME Inv, NEW t \in Tabs, NEW f \in Forms, ReadRow(t, f) PROVE Inv'
<1>0. call[t][f].step = "read" /\ "read" \in Path(f) /\ (~row.exists => "read" \in Early(f))
  BY StepsOf DEF ReadRow, At
<1>1. f \in {"welcome", "resend", "verify", "claim", "names"} /\ call[t][f].step = "read" /\ row.exists
  BY <1>0, WhoIsAt, EarlySteps
<1>2. CASE Refuse(t, f)
  BY <1>1, <1>2, RefuseStep, CalmFact DEF ReadRow
<1>3. CASE call' = [call EXCEPT ![t][f].step = Following(f, "read"),
                                ![t][f].seen = IF f \in {"welcome", "resend"} THEN NoRow ELSE row]
  <2> DEFINE s == Following(f, "read")
             o == IF f \in {"welcome", "resend"} THEN NoRow ELSE row
  <2>1. /\ f = "verify" => s = "check"
        /\ f = "claim" => s = "taken"
        /\ f = "names" => s = "write"
        /\ f \in {"welcome", "resend"} => s = "purge"
    BY DEF Following
  <2>2. call' = [call EXCEPT ![t][f].step = s, ![t][f].seen = o]
    BY <1>3
  <2>3. o \in Row /\ row \in Row /\ NoRow \in Row
    BY RowFact DEF Inv, TypeOK
  <2>4. Known(o)
    <3>1. Known(row) /\ Known(NoRow)
      BY <2>3, RowFact, BoundsFact DEF Known, Row, Versions
    <3> QED
      BY <3>1
  <2>5. f \in {"claim", "names"} => o = row /\ row.verified
    BY <1>1 DEF Inv, CallSound
  <2> HIDE DEF s, o
  <2>6. s \in Path(f)
    BY <1>1, <2>1 DEF Path
  <2>7. Moves(t, f, s, o)
    BY <2>2, <2>3, <2>6, SeesMoves, PathSteps DEF Inv
  <2>8. row' = row
    BY DEF ReadRow, dbVars
  <2>9. call'[t][f].step = s /\ call'[t][f].seen = o
    BY <2>7 DEF Moves
  <2>10. CallSound(t, f)'
    BY <1>1, <2>1, <2>4, <2>5, <2>6, <2>8, <2>9 DEF CallSound, Known
  <2>11. IsWriting(t, f)' => IsWriting(t, f)
    BY <1>1 DEF IsWriting
  <2> QED
    BY <1>1, <2>6, <2>7, <2>10, <2>11, ReadOnly, CalmFact DEF ReadRow, dbVars, Inv, TypeOK
<1> QED
  BY <1>2, <1>3 DEF ReadRow

\* ReadProfile keeps the invariant.
LEMMA ReadProfileStep == ASSUME Inv, NEW t \in Tabs, NEW f \in Forms, ReadProfile(t, f) PROVE Inv'
<1>0. call[t][f].step = "profile" /\ "profile" \in Path(f) /\ (~row.exists => "profile" \in Early(f))
  BY StepsOf DEF ReadProfile, At
<1>1. f \in {"signup", "verify", "names"} /\ call[t][f].step = "profile" /\ row.exists
  BY <1>0, WhoIsAt, EarlySteps
<1>2. row \in Row /\ "ok" \in Path(f) /\ row' = row
  BY PathSteps DEF Inv, TypeOK, ReadProfile, dbVars
<1>3. Moves(t, f, "ok", row)
  BY <1>2, SeesMoves, PathSteps DEF Inv, ReadProfile
<1>4. Known(row)
  BY <1>2, BoundsFact DEF Known, Row, Versions
<1>5. call'[t][f].step = "ok" /\ call'[t][f].seen = row
  BY <1>3 DEF Moves
<1>6. f = "verify" => row.verified
  BY <1>1 DEF Inv, CallSound
<1>7. CallSound(t, f)'
  BY <1>1, <1>2, <1>4, <1>5, <1>6 DEF CallSound, Known
<1>8. ~IsWriting(t, f)'
  BY <1>5 DEF IsWriting
<1> QED
  BY <1>1, <1>2, <1>3, <1>7, <1>8, ReadOnly, CalmFact DEF ReadProfile, dbVars, Inv, TypeOK

\* A step of a handler that changes the table and the codes and one call.
LEMMA TableStep ==
  ASSUME Inv, NEW t \in Tabs, NEW f \in Forms, NEW s \in Path(f), NEW o, Moves(t, f, s, o),
         call[t][f].step # "idle", HandlerOnly, row' \in Row, codes' \subseteq 1..sent', sent' \in 0..MaxCodes,
         taken' = taken, voided' \in BOOLEAN,
         Grown, CallSound(t, f)', VersionCounted', NobodyYet', NewestCodeStands', UsernameUnique'
  PROVE  Inv'
<1>1. RestOK'
  BY TypeIs DEF Inv, RestOK, HandlerOnly, formVars, cacheVars
<1>2. PICK r \in Call : Changed(t, f, r)
  BY DEF Moves
<1> QED
  <2>1. \A u \in Tabs : TabSound(u)'
    BY TabsStay DEF HandlerOnly, cacheVars
  <2> QED
    BY <1>1, <1>2, <2>1, OneCall

\* InsertRow keeps the invariant: it makes the account only where there is none.
LEMMA InsertRowStep == ASSUME Inv, NEW t \in Tabs, NEW f \in Forms, InsertRow(t, f) PROVE Inv'
<1>1. f = "signup" /\ call[t][f].step = "insert"
  BY StepsOf, WhoIsAt DEF InsertRow, At
<1>2. CASE Refuse(t, f) /\ row' = row
  BY <1>1, <1>2, RefuseStep, CalmFact DEF InsertRow, dbVars
<1>3. CASE ~row.exists /\ Proceed(t, f) /\ row' = [NoRow EXCEPT !.exists = TRUE]
  <2>1. Following(f, "insert") = "profile" /\ "profile" \in Path(f)
    BY <1>1 DEF Following, Path
  <2>2. Moves(t, f, "profile", call[t][f].seen)
    BY <1>1, <1>3, <2>1, GoToMoves, PathSteps DEF Proceed, Inv
  <2>3. row = NoRow /\ sent = 0
    BY <1>3 DEF Inv, NobodyYet
  <2>4. /\ row' \in Row /\ row'.exists = TRUE /\ row'.verified = FALSE /\ row'.version = 0
        /\ row'.username = NoName /\ row'.names = 0
    BY <1>3, RowFact DEF Row, NoRow
  <2>5. Grown
    BY <2>3, <2>4, RowFact DEF Grown
  <2>6. CallSound(t, f)'
    <3>1. call'[t][f].step = "profile" /\ call'[t][f].seen = call[t][f].seen
      BY <2>2 DEF Moves
    <3>2. Known(call[t][f].seen)
      BY DEF Inv, CallSound
    <3>3. Known(call[t][f].seen)'
      <4>1. call[t][f].seen.version <= 0 /\ ~call[t][f].seen.verified
        BY <2>3, <3>2, RowFact DEF Known
      <4>2. PICK r : r = call[t][f].seen
        OBVIOUS
      <4>3. call'[t][f].seen = r
        BY <3>1, <4>2
      <4> QED
        BY <2>4, <4>1, <4>2, <4>3 DEF Known
    <3> QED
      BY <1>1, <2>1, <2>4, <3>1, <3>3 DEF CallSound
  <2>7. VersionCounted'
    <3>1. row'.version = row.version
      BY <2>3, <2>4, RowFact
    <3>2. ~IsWriting(t, f)'
      BY <1>1 DEF IsWriting
    <3>3. PICK r \in Call : Changed(t, f, r)
      BY <2>2 DEF Moves
    <3> QED
      BY <3>1, <3>2, <3>3, CountStep DEF Inv, Changed, HandlerOnly, InsertRow
  <2>8. NobodyYet' /\ NewestCodeStands'
    BY <2>3, <2>4 DEF NobodyYet, NewestCodeStands, InsertRow
  <2>9. UsernameUnique'
    BY <2>4, BoundsFact DEF UsernameUnique, InsertRow, Inv, TypeOK
  <2> QED
    BY <1>1, <2>1, <2>2, <2>4, <2>5, <2>6, <2>7, <2>8, <2>9, TableStep DEF InsertRow, Inv, TypeOK
<1> QED
  BY <1>2, <1>3 DEF InsertRow

\* The version has room for a call that is yet to write.
LEMMA VersionRoom == ASSUME Inv, NEW t \in Tabs, NEW f \in Forms, IsWriting(t, f)
                     PROVE  row.version + 1 \in Versions /\ row.version \in Nat
<1>1. row.version + 1 \in Versions
  BY CountRoom DEF Inv
<1>2. row.version \in Nat
  BY BoundsFact DEF Inv, TypeOK, Row, Versions
<1> QED
  BY <1>1, <1>2

\* The row after a write of names, of a user name, or of a verification.
LEMMA UpdatedFact ==
  ASSUME Inv, NEW t \in Tabs, NEW f \in {"verify", "claim", "names"}, call[t][f].step = "write",
         NEW new, new = Updated(f, call[t][f])
  PROVE  /\ new \in Row /\ new.version = row.version + 1 /\ new.exists = row.exists
         /\ row.verified => new.verified
         /\ f = "verify" => new.verified
<1>1. row \in Row /\ call[t][f] \in Call /\ call[t][f].seen \in Row
  <2>1. row \in Row /\ call[t][f] \in Call
    BY DEF Inv, TypeOK, Forms
  <2> QED
    BY <2>1 DEF Call
<1>2. row.version + 1 \in Versions
  BY VersionRoom DEF IsWriting, Forms
<1>3. f \in {"claim", "names"} => call[t][f].seen.verified
  BY DEF Inv, CallSound, Forms
<1> DEFINE v == IF f = "verify" THEN TRUE ELSE call[t][f].seen.verified
           n == IF f = "names" THEN call[t][f].names ELSE call[t][f].seen.names
           u == IF f = "claim" THEN call[t][f].name
                ELSE IF call[t][f].seen.username # NoName THEN call[t][f].seen.username ELSE row.username
           w == row.version + 1
<1>4. v \in BOOLEAN /\ n \in Names /\ u \in Usernames \cup {NoName} /\ w \in Versions
  BY <1>1, <1>2 DEF Call, Row
<1>5. new = [row EXCEPT !.verified = v, !.names = n, !.username = u, !.version = w]
  BY DEF Updated
<1>6. v = TRUE
  BY <1>3
<1> HIDE DEF v, n, u, w
<1>7. new = [exists |-> row.exists, verified |-> v, username |-> u, names |-> n, version |-> w]
  BY <1>1, <1>5 DEF Row
<1>8. new \in Row
  BY <1>1, <1>4, <1>7 DEF Row
<1> QED
  BY <1>6, <1>7, <1>8 DEF w

\* WriteRow keeps the invariant: what it writes back takes no verification away.
LEMMA WriteRowStep == ASSUME Inv, NEW t \in Tabs, NEW f \in Forms, WriteRow(t, f) PROVE Inv'
<1>0. call[t][f].step = "write" /\ "write" \in Path(f) /\ (~row.exists => "write" \in Early(f)) /\ f # "reset"
  BY StepsOf DEF WriteRow, At
<1>1. f \in {"verify", "claim", "names"} /\ call[t][f].step = "write" /\ row.exists
  BY <1>0, WhoIsAt, EarlySteps
<1> DEFINE new == Updated(f, call[t][f])
<1>2. CASE Refuse(t, f) /\ row' = row
  BY <1>1, <1>2, RefuseStep, CalmFact DEF WriteRow, dbVars
<1>3. CASE /\ UniqueName(new.username) /\ row' = new
           /\ call' = [call EXCEPT ![t][f].step = Following(f, "write"), ![t][f].seen = new]
  <2>1. PICK n : n = new
    OBVIOUS
  <2>2. /\ n \in Row /\ n.version = row.version + 1 /\ n.exists = row.exists
        /\ row.verified => n.verified
        /\ f = "verify" => n.verified
    BY <1>1, <2>1, UpdatedFact
  <2> HIDE DEF new
  <2> DEFINE s == Following(f, "write")
  <2>3. /\ f = "verify" => s = "purge"
        /\ f = "claim" => s = "ok"
        /\ f = "names" => s = "profile"
    BY DEF Following
  <2>4. call' = [call EXCEPT ![t][f].step = s, ![t][f].seen = n] /\ row' = n /\ UniqueName(n.username)
    BY <1>3, <2>1
  <2> HIDE DEF s
  <2>5. s \in Path(f) /\ s \notin {"validate", "read", "check", "taken", "write"}
    BY <1>1, <2>3 DEF Path
  <2>6. Moves(t, f, s, n)
    BY <2>2, <2>4, <2>5, SeesMoves, PathSteps DEF Inv
  <2>7. call'[t][f].step = s /\ call'[t][f].seen = n
    BY <2>6 DEF Moves
  <2>8. row.version \in Nat /\ row'.version = row.version + 1
    BY <2>2, <2>4, BoundsFact DEF Inv, TypeOK, Row, Versions
  <2>9. Grown
    BY <2>2, <2>4, <2>8 DEF Grown
  <2>10. CallSound(t, f)'
    <3>1. Known(n)'
      BY <2>2, <2>4, <2>8 DEF Known
    <3>2. row'.exists /\ (f = "verify" => row'.verified)
      BY <1>1, <2>2, <2>4
    <3>3. Known(call[t][f].seen)'
      BY <2>7, <3>1 DEF Known
    <3> QED
      BY <1>1, <2>5, <2>7, <3>2, <3>3 DEF CallSound
  <2>11. VersionCounted'
    <3>1. IsWriting(t, f)
      BY <1>1 DEF IsWriting
    <3>2. ~IsWriting(t, f)'
      BY <2>5, <2>7 DEF IsWriting
    <3>3. PICK r \in Call : Changed(t, f, r)
      BY <2>6 DEF Moves
    <3> QED
      BY <2>8, <3>1, <3>2, <3>3, CountStep DEF Inv, Changed, HandlerOnly, WriteRow
  <2>12. NobodyYet'
    BY <1>1, <2>2, <2>4 DEF NobodyYet
  <2>13. NewestCodeStands'
    <3>1. PICK r \in Call : Changed(t, f, r)
      BY <2>6 DEF Moves
    <3> QED
      BY <1>1, <3>1, NewestStays DEF WriteRow
  <2>14. UsernameUnique'
    BY <2>4 DEF UsernameUnique, UniqueName, WriteRow
  <2> QED
    BY <1>1, <2>2, <2>4, <2>5, <2>6, <2>9, <2>10, <2>11, <2>12, <2>13, <2>14, TableStep DEF WriteRow, Inv, TypeOK
<1> QED
  BY <1>2, <1>3 DEF WriteRow

\* WritePassword keeps the invariant: it touches only its own column.
LEMMA WritePasswordStep == ASSUME Inv, NEW t \in Tabs, NEW f \in Forms, WritePassword(t, f) PROVE Inv'
<1>0. call[t][f].step = "write" /\ (~row.exists => "write" \in Early(f))
  BY StepsOf DEF WritePassword, At
<1>1. f = "reset" /\ call[t][f].step = "write" /\ row.exists
  BY <1>0, EarlySteps DEF WritePassword
<1>2. Following(f, "write") = "purge" /\ "purge" \in Path(f)
  BY <1>1 DEF Following, Path
<1>3. Moves(t, f, "purge", call[t][f].seen)
  BY <1>1, <1>2, GoToMoves, PathSteps DEF WritePassword, Proceed, Inv
<1>4. row.version + 1 \in Versions /\ row.version \in Nat /\ row \in Row
  BY <1>1, VersionRoom DEF IsWriting, Inv, TypeOK
<1> DEFINE w == row.version + 1
<1>5. /\ row' \in Row /\ row'.version = row.version + 1 /\ row'.verified = row.verified
      /\ row'.exists = row.exists /\ row'.username = row.username
  <2>1. row' = [row EXCEPT !.version = w] /\ w \in Versions
    BY <1>4 DEF WritePassword
  <2> HIDE DEF w
  <2>2. row' \in Row /\ row'.version = w /\ row'.verified = row.verified
        /\ row'.exists = row.exists /\ row'.username = row.username
    BY <1>4, <2>1 DEF Row
  <2> QED
    BY <2>2 DEF w
<1>6. Grown
  BY <1>4, <1>5 DEF Grown
<1>7. call'[t][f].step = "purge" /\ call'[t][f].seen = call[t][f].seen
  BY <1>3 DEF Moves
<1>8. CallSound(t, f)'
  <2>1. call[t][f].seen \in Row /\ Known(call[t][f].seen)
    <3>1. call[t][f] \in Call
      BY DEF Inv, TypeOK
    <3> QED
      BY <3>1 DEF Call, Inv, CallSound
  <2>2. PICK o \in Row : o = call[t][f].seen
    BY <2>1
  <2>3. Known(o)'
    BY <1>4, <1>5, <1>6, <2>1, <2>2, KnownNext DEF Known
  <2>4. call'[t][f].seen = o
    BY <1>7, <2>2
  <2> QED
    BY <1>1, <1>2, <1>5, <1>7, <2>3, <2>4 DEF CallSound
<1>9. PICK r \in Call : Changed(t, f, r)
  BY <1>3 DEF Moves
<1>10. VersionCounted'
  <2>1. IsWriting(t, f)
    BY <1>1 DEF IsWriting
  <2>2. ~IsWriting(t, f)'
    BY <1>7 DEF IsWriting
  <2> QED
    BY <1>5, <1>9, <2>1, <2>2, CountStep DEF Inv, Changed, HandlerOnly, WritePassword
<1>11. NobodyYet' /\ UsernameUnique'
  BY <1>1, <1>5 DEF NobodyYet, UsernameUnique, WritePassword, Inv
<1>12. NewestCodeStands'
  BY <1>1, <1>9, NewestStays DEF WritePassword
<1> QED
  BY <1>1, <1>2, <1>3, <1>5, <1>6, <1>8, <1>10, <1>11, <1>12, TableStep DEF WritePassword, Inv, TypeOK

\* A step that leaves the row alone keeps what was known of it.
LEMMA GrownSame == ASSUME Inv, row' = row PROVE Grown
  BY BoundsFact DEF Grown, Inv, TypeOK, Row, Versions

\* A step of a handler that leaves the row alone and counts no write.
LEMMA CountSame == ASSUME Inv, NEW t \in Tabs, NEW f \in Forms, NEW s, NEW o, Moves(t, f, s, o), row' = row, calls' = calls,
                          IsWriting(t, f)' => IsWriting(t, f)
                   PROVE  VersionCounted'
<1>1. PICK r \in Call : Changed(t, f, r)
  BY DEF Moves
<1> QED
  BY <1>1, CountStep DEF Inv, Changed

\* PurgeCodes keeps the invariant: the call is about to make a code, or has used one.
LEMMA PurgeCodesStep == ASSUME Inv, NEW t \in Tabs, NEW f \in Forms, PurgeCodes(t, f) PROVE Inv'
<1>0. call[t][f].step = "purge" /\ "purge" \in Path(f) /\ (~row.exists => "purge" \in Early(f))
  BY StepsOf DEF PurgeCodes, At
<1>1. f \in {"welcome", "resend", "verify", "forgot", "reset"} /\ call[t][f].step = "purge" /\ row.exists
  BY <1>0, WhoIsAt, EarlySteps
<1> DEFINE s == Following(f, "purge")
<1>2. /\ f = "verify" => s = "profile"
      /\ f = "reset" => s = "ok"
      /\ f \in {"welcome", "resend", "forgot"} => s = "create"
  BY DEF Following
<1>3. GoTo(t, f, s)
  BY <1>1 DEF PurgeCodes, Proceed
<1> HIDE DEF s
<1>4. s \in Path(f) /\ s \notin {"validate", "read", "check", "taken", "write"}
  BY <1>1, <1>2 DEF Path
<1>5. Moves(t, f, s, call[t][f].seen)
  BY <1>3, <1>4, GoToMoves, PathSteps DEF Inv
<1>6. CallSound(t, f)'
  BY <1>1, <1>4, <1>5, MovedSound DEF PurgeCodes
<1>7. VersionCounted'
  BY <1>4, <1>5, CountSame DEF PurgeCodes, HandlerOnly, Moves, IsWriting
<1>8. NobodyYet' /\ UsernameUnique'
  BY DEF Inv, NobodyYet, UsernameUnique, PurgeCodes
<1>9. NewestCodeStands'
  <2>1. CASE f \in {"verify", "reset"}
    BY <2>1 DEF NewestCodeStands, PurgeCodes
  <2>2. CASE f \in {"welcome", "resend", "forgot"}
    BY <1>2, <1>5, <2>2 DEF NewestCodeStands, Moves, At
  <2> QED
    BY <1>1, <2>1, <2>2
<1> QED
  BY <1>1, <1>4, <1>5, <1>6, <1>7, <1>8, <1>9, GrownSame, TableStep DEF PurgeCodes, Inv, TypeOK

\* CreateCode keeps the invariant: the code it makes is the newest.
LEMMA CreateCodeStep == ASSUME Inv, NEW t \in Tabs, NEW f \in Forms, CreateCode(t, f) PROVE Inv'
<1>0. call[t][f].step = "create" /\ "create" \in Path(f) /\ (~row.exists => "create" \in Early(f))
  BY StepsOf DEF CreateCode, At
<1>1. f \in {"welcome", "resend", "forgot"} /\ call[t][f].step = "create" /\ row.exists
  BY <1>0, WhoIsAt, EarlySteps
<1>2. Following(f, "create") = "ok" /\ "ok" \in Path(f)
  BY PathSteps DEF Following
<1>3. Moves(t, f, "ok", call[t][f].seen)
  BY <1>1, <1>2, GoToMoves, PathSteps DEF Inv, CreateCode, Proceed
<1>4. CallSound(t, f)'
  BY <1>1, <1>2, <1>3, MovedSound DEF CreateCode
<1>5. VersionCounted'
  BY <1>3, CountSame DEF CreateCode, HandlerOnly, Moves, IsWriting
<1>6. NobodyYet' /\ UsernameUnique'
  BY <1>1 DEF Inv, NobodyYet, UsernameUnique, CreateCode
<1>7. sent \in Nat /\ sent + 1 \in 0..MaxCodes /\ codes \subseteq 1..sent
  BY BoundsFact DEF CreateCode, Inv, TypeOK
<1>8. codes' \subseteq 1..sent' /\ sent' \in 0..MaxCodes /\ sent' \in codes'
  BY <1>7 DEF CreateCode
<1>9. NewestCodeStands'
  BY <1>8 DEF NewestCodeStands
<1> QED
  BY <1>1, <1>2, <1>3, <1>4, <1>5, <1>6, <1>8, <1>9, GrownSame, TableStep DEF CreateCode, Inv, TypeOK

\* Fault keeps the invariant: a code that was not stored leaves no newest code that stands.
LEMMA FaultStep == ASSUME Inv, NEW t \in Tabs, NEW f \in Forms, Fault(t, f) PROVE Inv'
<1>1. call[t][f].step \in DbSteps /\ call[t][f].step \in Path(f) /\ (~row.exists => call[t][f].step \in Early(f))
  BY StepsOf DEF Fault
<1>2. Calm(t, f)
  <2>0. call[t][f].step # "idle"
    BY <1>1 DEF DbSteps
  <2>1. faults' \in 0..MaxFaults
    BY BoundsFact DEF Fault, Inv, TypeOK
  <2>2. voided \in BOOLEAN
    BY DEF Inv, TypeOK
  <2>3. CASE call[t][f].step = "create"
    BY <2>0, <2>1, <2>3 DEF Calm, Fault, At
  <2>4. CASE call[t][f].step # "create"
    <3>1. voided' = voided
      BY <2>2, <2>4 DEF Fault, At
    <3> QED
      BY <2>0, <2>1, <2>4, <3>1 DEF Calm, Fault
  <2> QED
    BY <2>3, <2>4
<1>3. CASE call[t][f].step = "purge" /\ f \in {"verify", "reset"} /\ Proceed(t, f)
  <2> DEFINE s == Following(f, "purge")
  <2>1. (f = "verify" => s = "profile") /\ (f = "reset" => s = "ok")
    BY DEF Following
  <2>2. GoTo(t, f, s)
    BY <1>3 DEF Proceed
  <2> HIDE DEF s
  <2>3. s \in Path(f) /\ s \notin {"validate", "read", "check", "taken", "write"} /\ row.exists
    BY <1>1, <1>3, <2>1, EarlySteps DEF Path
  <2> QED
    BY <1>2, <1>3, <2>1, <2>2, <2>3, GoToStep
<1>4. CASE /\ call[t][f].step = "profile" /\ f = "signup"
           /\ call' = [call EXCEPT ![t][f] = [@ EXCEPT !.step = "ok", !.seen = [NoRow EXCEPT !.exists = TRUE]]]
  <2>1. row.exists
    BY <1>1, <1>4, EarlySteps
  <2>2. PICK o : o = [NoRow EXCEPT !.exists = TRUE]
    OBVIOUS
  <2>3. o \in Row /\ o.exists = TRUE /\ o.verified = FALSE /\ o.version = 0
    BY <2>2, RowFact DEF Row, NoRow
  <2>4. call[t] \in [Forms -> Call]
    BY DEF Inv, TypeOK
  <2>5. call' = [call EXCEPT ![t][f].step = "ok", ![t][f].seen = o]
    BY <1>4, <2>2, <2>4 DEF Inv, TypeOK, Call
  <2>6. Moves(t, f, "ok", o) /\ "ok" \in Path(f)
    BY <2>3, <2>5, SeesMoves, PathSteps DEF Inv
  <2>7. call'[t][f].step = "ok" /\ call'[t][f].seen = o /\ row' = row
    BY <1>2, <2>6 DEF Moves, Calm
  <2>8. Known(o)
    BY <2>1, <2>3, BoundsFact DEF Known, Inv, TypeOK, Row, Versions
  <2>9. CallSound(t, f)'
    BY <1>4, <2>1, <2>6, <2>7, <2>8 DEF CallSound, Known
  <2>10. ~IsWriting(t, f)'
    BY <1>4 DEF IsWriting
  <2> QED
    BY <1>2, <2>6, <2>9, <2>10, ReadOnly
<1>5. CASE Refuse(t, f)
  BY <1>2, <1>5, RefuseStep
<1> QED
  BY <1>3, <1>4, <1>5 DEF Fault, At

\* A step that no call takes.
LEMMA NoCall ==
  ASSUME Inv, RestOK', UNCHANGED <<row, call, sent, calls>>, NewestCodeStands', UsernameUnique',
         \A t \in Tabs : TabSound(t)'
  PROVE  Inv'
<1>1. TypeOK'
  <2>1. (RestOK /\ call \in Calls <=> TypeOK)'
    BY TypeIs, PTL
  <2> QED
    BY <2>1, TypeIs DEF Inv, Calls
<1>2. VersionCounted' /\ NobodyYet' /\ OneWelcome'
  BY DEF Inv, VersionCounted, Writing, NobodyYet, OneWelcome
<1>3. \A t \in Tabs, f \in Forms : CallSound(t, f)'
  BY DEF Inv, CallSound, Known
<1> QED
  BY <1>1, <1>2, <1>3 DEF Inv

\* ExpireCodes keeps the invariant.
LEMMA ExpireCodesStep == ASSUME Inv, ExpireCodes PROVE Inv'
<1>1. RestOK'
  BY TypeIs DEF Inv, RestOK, ExpireCodes, formVars, cacheVars
<1>2. NewestCodeStands' /\ UsernameUnique'
  BY DEF ExpireCodes, NewestCodeStands, UsernameUnique, Inv
<1>3. \A t \in Tabs : TabSound(t)'
  BY DEF ExpireCodes, Inv, TabSound, Known, cacheVars
<1> QED
  BY <1>1, <1>2, <1>3, NoCall DEF ExpireCodes

\* OthersClaim keeps the invariant: nobody else gets the account's user name.
LEMMA OthersClaimStep == ASSUME Inv, NEW n \in Usernames, OthersClaim(n) PROVE Inv'
<1>1. RestOK'
  BY TypeIs DEF Inv, RestOK, OthersClaim, formVars, cacheVars
<1>2. NewestCodeStands' /\ UsernameUnique'
  BY DEF OthersClaim, NewestCodeStands, UsernameUnique, Inv, At
<1>3. \A t \in Tabs : TabSound(t)'
  BY DEF OthersClaim, Inv, TabSound, Known, cacheVars
<1> QED
  BY <1>1, <1>2, <1>3, NoCall DEF OthersClaim

\* A form is sent: what it has been filled in with stands behind it.
LEMMA SubmitStep ==
  ASSUME Inv, NEW t \in Tabs, NEW f \in Forms, NEW s \in Path(f), NEW c \in Call, c.seen = NoRow, Submit(t, f, s, c),
         ~row.exists => s \in Early(f),
         f # "welcome", f = "signup" => call[t]["welcome"].step = "idle",
         f = "verify" => s = "read",
         f \in {"claim", "names"} => s = "read" /\ row.verified
  PROVE  Inv'
<1> DEFINE r == [c EXCEPT !.step = s]
<1>1. r \in Call /\ r.step = s /\ r.seen = NoRow
  BY PathSteps DEF Call
<1>2. call \in Calls /\ call[t] \in [Forms -> Call]
  BY DEF Inv, TypeOK, Calls
<1>3. call' = [call EXCEPT ![t][f] = r]
  BY DEF Submit
<1> HIDE DEF r
<1>4. call' = [call EXCEPT ![t] = [call[t] EXCEPT ![f] = r]]
  BY <1>2, <1>3 DEF Calls
<1>5. Changed(t, f, r)
  BY <1>1, <1>2, <1>4, ChangedFact
<1>6. RestOK' /\ calls' = calls + 1
  BY TypeIs, BoundsFact DEF Inv, RestOK, Submit, PagesOnly, dbVars, formVars, cacheVars
<1>7. Grown
  BY GrownSame DEF Submit, PagesOnly, dbVars
<1>8. VersionCounted'
  BY <1>5, <1>6, CountStep DEF Inv, Changed, Submit, PagesOnly, dbVars
<1>9. NobodyYet' /\ UsernameUnique'
  BY DEF Inv, NobodyYet, UsernameUnique, Submit, PagesOnly, dbVars
<1>10. NewestCodeStands'
  BY <1>5, NewestStays DEF Submit, PagesOnly, dbVars, At
<1>11. CallSound(t, f)'
  <2>1. call'[t][f].step = s /\ call'[t][f].seen = NoRow /\ row' = row
    BY <1>1, <1>5 DEF Changed, Submit, PagesOnly, dbVars
  <2>2. Known(NoRow)
    BY RowFact, BoundsFact DEF Known, Inv, TypeOK, Row, Versions
  <2> QED
    BY <2>1, <2>2 DEF CallSound, Known
<1>12. \A u \in Tabs : TabSound(u)'
  BY <1>6, <1>7, TabsStay DEF RestOK, Submit, cacheVars
<1> QED
  BY <1>5, <1>6, <1>7, <1>8, <1>9, <1>10, <1>11, <1>12, OneCall

\* The forms by their names.
LEMMA FormNames == {"signup", "welcome", "resend", "verify", "forgot", "reset", "claim", "names"} = Forms
  BY DEF Forms

\* Whoever is signed in has an account, and who is admitted a verified one.
LEMMA SignedInFact == ASSUME Inv, NEW t \in Tabs
                      PROVE  (user[t].exists => row.exists) /\ (user[t].verified => row.verified)
  BY DEF Inv, TabSound, Known

\* A code that can be entered has been made, and so there is an account.
LEMMA CodeFact == ASSUME Inv, NEW c, EnteredCode(c) PROVE c \in 0..MaxCodes /\ row.exists
  BY BoundsFact DEF Inv, TypeOK, NobodyYet, EnteredCode

\* Every submission keeps the invariant, because of what its page asks for before it sends.
LEMMA SubmitsStep ==
  ASSUME Inv, NEW t \in Tabs,
         \/ SubmitSignup(t) \/ SubmitResend(t) \/ SubmitForgot(t) \/ SubmitClaim(t) \/ SubmitNames(t)
         \/ \E c \in 1..MaxCodes : SubmitVerify(t, c) \/ \E byPage \in BOOLEAN : SubmitReset(t, c, byPage)
  PROVE  Inv'
<1>1. CASE SubmitSignup(t)
  <2>1. "lookup" \in Path("signup") /\ "lookup" \in Early("signup")
    BY DEF Path, Early
  <2> QED
    BY <1>1, <2>1, SubmitStep, IdleFact, FormNames DEF SubmitSignup, At
<1>2. CASE SubmitResend(t)
  <2>1. "read" \in Path("resend")
    BY DEF Path
  <2>2. row.exists
    BY <1>2, SignedInFact DEF SubmitResend, ToVerify
  <2> QED
    BY <1>2, <2>1, <2>2, SubmitStep, IdleFact, FormNames DEF SubmitResend
<1>3. CASE SubmitForgot(t)
  <2>1. "lookup" \in Path("forgot") /\ "lookup" \in Early("forgot")
    BY DEF Path, Early
  <2> QED
    BY <1>3, <2>1, SubmitStep, IdleFact, FormNames DEF SubmitForgot
<1>4. CASE SubmitClaim(t)
  <2>1. "read" \in Path("claim")
    BY DEF Path
  <2>2. row.exists /\ row.verified
    BY <1>4, SignedInFact DEF SubmitClaim, Claimable, Admitted
  <2> DEFINE c == [Idle EXCEPT !.name = debounced[t]]
  <2>3. debounced[t] \in Usernames \cup {NoName}
    BY DEF Inv, TypeOK
  <2>4. c \in Call /\ c.seen = NoRow
    BY <2>3, IdleFact DEF Call, Idle
  <2>5. Submit(t, "claim", "read", c)
    BY <1>4 DEF SubmitClaim
  <2> HIDE DEF c
  <2> QED
    BY <2>1, <2>2, <2>4, <2>5, SubmitStep, FormNames
<1>5. CASE SubmitNames(t)
  <2>1. "read" \in Path("names")
    BY DEF Path
  <2>2. row.exists /\ row.verified
    BY <1>5, SignedInFact DEF SubmitNames, Admitted
  <2> DEFINE c == [Idle EXCEPT !.names = calls + 1]
  <2>3. calls + 1 \in Names
    BY <1>5, BoundsFact DEF Inv, TypeOK, SubmitNames, Submit, Names
  <2>4. c \in Call /\ c.seen = NoRow
    BY <2>3, IdleFact DEF Call, Idle
  <2>5. Submit(t, "names", "read", c)
    BY <1>5 DEF SubmitNames
  <2> HIDE DEF c
  <2> QED
    BY <2>1, <2>2, <2>4, <2>5, SubmitStep, FormNames
<1>6. ASSUME NEW n \in 1..MaxCodes, SubmitVerify(t, n) PROVE Inv'
  <2>1. "read" \in Path("verify")
    BY DEF Path
  <2>2. n \in 0..MaxCodes /\ row.exists
    BY <1>6, CodeFact DEF SubmitVerify
  <2> DEFINE c == [Idle EXCEPT !.code = n]
  <2>4. c \in Call /\ c.seen = NoRow
    BY <2>2, IdleFact DEF Call, Idle
  <2>5. Submit(t, "verify", "read", c)
    BY <1>6 DEF SubmitVerify
  <2> HIDE DEF c
  <2> QED
    BY <2>1, <2>2, <2>4, <2>5, SubmitStep, FormNames
<1>7. ASSUME NEW n \in 1..MaxCodes, NEW byPage \in BOOLEAN, SubmitReset(t, n, byPage) PROVE Inv'
  <2>1. "validate" \in Path("reset")
    BY DEF Path
  <2>2. n \in 0..MaxCodes /\ row.exists
    BY <1>7, CodeFact DEF SubmitReset
  <2> DEFINE c == [Idle EXCEPT !.code = n, !.complete = ~byPage]
  <2>4. c \in Call /\ c.seen = NoRow
    BY <2>2, IdleFact DEF Call, Idle
  <2>5. Submit(t, "reset", "validate", c)
    BY <1>7 DEF SubmitReset
  <2> HIDE DEF c
  <2> QED
    BY <2>1, <2>2, <2>4, <2>5, SubmitStep, FormNames
<1> QED
  BY <1>1, <1>2, <1>3, <1>4, <1>5, <1>6, <1>7

\* A page takes the answer of its call, and its tab stays sound.
LEMMA FinishStep ==
  ASSUME Inv, NEW t \in Tabs, NEW f \in Forms, Done(t, f), Clear(t, f), UNCHANGED <<calls, formVars>>, PagesOnly,
         {user', cache'} \subseteq [Tabs -> Row], fetch' \in [Tabs -> [step : FetchSteps, data : Row]],
         wrote' \in [Tabs -> Versions],
         \A u \in Tabs : TabSound(u)'
  PROVE  Inv'
<1>1. RestOK'
  BY TypeIs DEF Inv, RestOK, PagesOnly, dbVars, formVars
<1>2. Changed(t, f, Idle)
  BY ClearFact, TypeIs DEF Inv
<1>3. Grown
  BY GrownSame DEF PagesOnly, dbVars
<1>4. call'[t][f].step = "idle" /\ call'[t][f].seen = NoRow /\ row' = row
  BY <1>2, IdleFact DEF Changed, PagesOnly, dbVars
<1>5. CallSound(t, f)'
  <2>1. Known(NoRow)
    BY RowFact, BoundsFact DEF Known, Inv, TypeOK, Row, Versions
  <2> QED
    BY <1>4, <2>1, PathSteps DEF CallSound, Known, Early
<1>6. VersionCounted'
  BY <1>2, <1>4, CountStep DEF Inv, Changed, IsWriting
<1>7. NobodyYet' /\ UsernameUnique'
  BY DEF Inv, NobodyYet, UsernameUnique, PagesOnly, dbVars
<1>8. NewestCodeStands'
  BY <1>2, NewestStays DEF Done, PagesOnly, dbVars
<1> QED
  BY <1>1, <1>2, <1>3, <1>5, <1>6, <1>7, <1>8, OneCall DEF Done

\* A page that takes an answer and remembers nothing of it.
LEMMA ForgetStep ==
  ASSUME Inv, NEW t \in Tabs, NEW f \in Forms, Done(t, f), Clear(t, f),
         UNCHANGED <<user, formVars, cacheVars, calls>>, PagesOnly
  PROVE  Inv'
<1>1. \A u \in Tabs : TabSound(u)'
  BY GrownSame, TabsStay DEF PagesOnly, dbVars, cacheVars, Inv, TypeOK
<1> QED
  BY <1>1, FinishStep DEF Inv, TypeOK, cacheVars

\* One tab takes new data, of which the account bears out everything.
LEMMA TabStep ==
  ASSUME Inv, row' = row, NEW t \in Tabs, NEW u \in Row, NEW c \in Row, NEW d \in Row, NEW s \in FetchSteps, NEW w \in Versions,
         user' = [user EXCEPT ![t] = u], cache' = [cache EXCEPT ![t] = c],
         fetch' = [fetch EXCEPT ![t] = [step |-> s, data |-> d]], wrote' = [wrote EXCEPT ![t] = w],
         Known(u), Known(c), Known(d), w <= row.version, s = "read" => d.version >= w
  PROVE  /\ {user', cache'} \subseteq [Tabs -> Row] /\ fetch' \in [Tabs -> [step : FetchSteps, data : Row]]
         /\ wrote' \in [Tabs -> Versions]
         /\ \A v \in Tabs : TabSound(v)'
<1>1. /\ user \in [Tabs -> Row] /\ cache \in [Tabs -> Row] /\ wrote \in [Tabs -> Versions]
      /\ fetch \in [Tabs -> [step : FetchSteps, data : Row]]
  BY DEF Inv, TypeOK
<1>2. user' \in [Tabs -> Row] /\ user'[t] = u /\ \A v \in Tabs : v # t => user'[v] = user[v]
  BY <1>1
<1>3. cache' \in [Tabs -> Row] /\ cache'[t] = c /\ \A v \in Tabs : v # t => cache'[v] = cache[v]
  BY <1>1
<1>4. /\ fetch' \in [Tabs -> [step : FetchSteps, data : Row]] /\ fetch'[t].step = s /\ fetch'[t].data = d
      /\ \A v \in Tabs : v # t => fetch'[v] = fetch[v]
  BY <1>1
<1>5. wrote' \in [Tabs -> Versions] /\ wrote'[t] = w /\ \A v \in Tabs : v # t => wrote'[v] = wrote[v]
  BY <1>1
<1>6. TabSound(t)'
  BY <1>2, <1>3, <1>4, <1>5 DEF TabSound, Known
<1>7. ASSUME NEW v \in Tabs, v # t PROVE TabSound(v)'
  BY <1>2, <1>3, <1>4, <1>5, <1>7, GrownSame, TabStays DEF Inv, TypeOK
<1> QED
  BY <1>2, <1>3, <1>4, <1>5, <1>6, <1>7

\* What a tab has.
LEMMA TabFact == ASSUME Inv, NEW t \in Tabs
                 PROVE  /\ user[t] \in Row /\ cache[t] \in Row /\ fetch[t].data \in Row /\ fetch[t].step \in FetchSteps
                        /\ wrote[t] \in Versions /\ wrote[t] <= row.version
                        /\ Known(user[t]) /\ Known(cache[t]) /\ Known(fetch[t].data)
                        /\ fetch[t].step = "read" => fetch[t].data.version >= wrote[t]
                        /\ user = [user EXCEPT ![t] = user[t]] /\ cache = [cache EXCEPT ![t] = cache[t]]
                        /\ wrote = [wrote EXCEPT ![t] = wrote[t]]
                        /\ fetch = [fetch EXCEPT ![t] = [step |-> fetch[t].step, data |-> fetch[t].data]]
<1>1. /\ user \in [Tabs -> Row] /\ cache \in [Tabs -> Row] /\ wrote \in [Tabs -> Versions]
      /\ fetch \in [Tabs -> [step : FetchSteps, data : Row]]
  BY DEF Inv, TypeOK
<1>2. fetch = [fetch EXCEPT ![t] = [step |-> fetch[t].step, data |-> fetch[t].data]]
  BY <1>1
<1> QED
  BY <1>1, <1>2 DEF Inv, TabSound

\* What a call has seen.
LEMMA SeenIs == ASSUME Inv, NEW t \in Tabs, NEW f \in Forms
                PROVE  call[t][f] \in Call /\ call[t][f].seen \in Row /\ Known(call[t][f].seen)
<1>1. call[t][f] \in Call
  BY DEF Inv, TypeOK
<1> QED
  BY <1>1 DEF Call, Inv, CallSound

\* The part of a row that a page fills in.
LEMMA WithFact == ASSUME Inv, NEW r \in Row, Known(r), NEW b \in BOOLEAN, b => row.verified, NEW m \in Usernames \cup {NoName},
                         NEW k \in Names
                  PROVE  /\ [r EXCEPT !.verified = b] \in Row /\ Known([r EXCEPT !.verified = b])
                         /\ [r EXCEPT !.username = m] \in Row /\ Known([r EXCEPT !.username = m])
                         /\ [r EXCEPT !.names = k] \in Row /\ Known([r EXCEPT !.names = k])
  BY DEF Row, Known

\* The row of nobody and the row itself are known.
LEMMA NoRowKnown == ASSUME Inv PROVE NoRow \in Row /\ Known(NoRow) /\ row \in Row /\ Known(row) /\ row.version \in Nat
                                     /\ NoRow.version = 0 /\ NoRow.exists = FALSE
  BY RowFact, BoundsFact DEF Known, Inv, TypeOK, Row, Versions

\* FinishVerify keeps the invariant: the store calls verified only whom the table does.
LEMMA FinishVerifyStep == ASSUME Inv, NEW t \in Tabs, FinishVerify(t) PROVE Inv'
<1>0. "verify" \in Forms
  BY DEF Forms
<1>1. CASE call[t]["verify"].step = "ok"
  <2> DEFINE o == call[t]["verify"].seen
  <2>1. o \in Row /\ Known(o) /\ row.verified
    BY <1>0, <1>1, SeenIs DEF Inv, CallSound
  <2>2. PICK u : u = [o EXCEPT !.verified = TRUE]
    OBVIOUS
  <2>3. u \in Row /\ Known(u)
    <3>1. user[t].username \in Usernames \cup {NoName} /\ 0 \in Names
      BY TabFact, BoundsFact DEF Row, Names
    <3> HIDE DEF o
    <3> QED
      BY <2>1, <2>2, <3>1, WithFact
  <2>4. user' = [user EXCEPT ![t] = u] /\ UNCHANGED <<row, cache, fetch, wrote>>
    BY <1>1, <2>2 DEF FinishVerify, At, cacheVars, PagesOnly, dbVars
  <2>5. /\ {user', cache'} \subseteq [Tabs -> Row] /\ fetch' \in [Tabs -> [step : FetchSteps, data : Row]]
        /\ wrote' \in [Tabs -> Versions] /\ \A v \in Tabs : TabSound(v)'
    <3>1. PICK c \in Row, d \in Row, s \in FetchSteps, w \in Versions :
                  c = cache[t] /\ d = fetch[t].data /\ s = fetch[t].step /\ w = wrote[t]
      BY TabFact
    <3>2. /\ Known(c) /\ Known(d) /\ w <= row.version /\ (s = "read" => d.version >= w)
          /\ cache' = [cache EXCEPT ![t] = c] /\ wrote' = [wrote EXCEPT ![t] = w]
          /\ fetch' = [fetch EXCEPT ![t] = [step |-> s, data |-> d]]
      BY <2>4, <3>1, TabFact
    <3> QED
      <4>1. row' = row /\ u \in Row /\ Known(u) /\ user' = [user EXCEPT ![t] = u]
        BY <2>3, <2>4
      <4> QED
        BY <3>2, <4>1, TabStep
  <2> QED
    BY <1>0, <2>5, FinishStep DEF FinishVerify
<1>2. CASE call[t]["verify"].step # "ok"
  BY <1>0, <1>2, ForgetStep DEF FinishVerify, At, cacheVars
<1> QED
  BY <1>1, <1>2

\* The callbacks of the profile page.
LEMMA SavedStep ==
  ASSUME Inv, NEW t \in Tabs, NEW f \in Forms, Done(t, f), Clear(t, f), UNCHANGED <<formVars, cache, calls>>, PagesOnly,
         Invalidate(t), wrote' = [wrote EXCEPT ![t] = call[t][f].seen.version],
         NEW u \in Row, Known(u), user' = [user EXCEPT ![t] = u]
  PROVE  Inv'
<1>1. PICK w : w = call[t][f].seen.version
  OBVIOUS
<1>2. w \in Versions /\ w <= row.version
  BY <1>1, SeenIs DEF Row, Known
<1>3. PICK s \in FetchSteps, d \in Row : s = "stale" /\ d = NoRow
  BY RowFact DEF FetchSteps
<1>4. fetch' = [fetch EXCEPT ![t] = [step |-> s, data |-> d]]
  BY <1>3 DEF Invalidate
<1>5. wrote' = [wrote EXCEPT ![t] = w] /\ UNCHANGED <<row, cache>>
  BY <1>1 DEF PagesOnly, dbVars
<1>6. s # "read" /\ Known(d)
  BY <1>3, NoRowKnown
<1>7. /\ {user', cache'} \subseteq [Tabs -> Row] /\ fetch' \in [Tabs -> [step : FetchSteps, data : Row]]
      /\ wrote' \in [Tabs -> Versions] /\ \A v \in Tabs : TabSound(v)'
  <2>1. PICK c \in Row : c = cache[t]
    BY TabFact
  <2>2. Known(c) /\ cache' = [cache EXCEPT ![t] = c]
    BY <1>5, <2>1, TabFact
  <2> QED
    BY <1>2, <1>4, <1>5, <1>6, <2>2, TabStep
<1> QED
  BY <1>7, FinishStep

\* FinishClaim keeps the invariant.
LEMMA FinishClaimStep == ASSUME Inv, NEW t \in Tabs, FinishClaim(t) PROVE Inv'
<1>0. "claim" \in Forms
  BY DEF Forms
<1>1. CASE call[t]["claim"].step = "ok"
  <2>1. user[t] \in Row /\ Known(user[t]) /\ debounced[t] \in Usernames \cup {NoName} /\ user \in [Tabs -> Row] /\ 0 \in Names
    BY TabFact, BoundsFact DEF Inv, TypeOK, Names
  <2>2. PICK v : v = [user[t] EXCEPT !.username = debounced[t]]
    OBVIOUS
  <2>3. v \in Row /\ Known(v)
    <3>1. PICK r \in Row : r = user[t]
      BY <2>1
    <3>2. PICK m \in Usernames \cup {NoName} : m = debounced[t]
      BY <2>1
    <3>3. v = [r EXCEPT !.username = m] /\ Known(r)
      BY <2>1, <2>2, <3>1, <3>2
    <3> QED
      BY <2>1, <3>3, WithFact
  <2>4. user' = [user EXCEPT ![t] = v] \/ user' = [user EXCEPT ![t] = user[t]]
    BY <1>1, <2>1, <2>2 DEF FinishClaim, At, Row
  <2>5. /\ Done(t, "claim") /\ Clear(t, "claim") /\ UNCHANGED <<formVars, cache, calls>> /\ PagesOnly
        /\ Invalidate(t) /\ wrote' = [wrote EXCEPT ![t] = call[t]["claim"].seen.version]
    BY <1>1 DEF FinishClaim, At
  <2>6. PICK u \in Row : Known(u) /\ user' = [user EXCEPT ![t] = u]
    BY <2>1, <2>3, <2>4
  <2> QED
    BY <1>0, <2>5, <2>6, SavedStep
<1>2. CASE call[t]["claim"].step # "ok"
  BY <1>0, <1>2, ForgetStep DEF FinishClaim, At, cacheVars
<1> QED
  BY <1>1, <1>2

\* FinishNames keeps the invariant.
LEMMA FinishNamesStep == ASSUME Inv, NEW t \in Tabs, FinishNames(t) PROVE Inv'
<1>0. "names" \in Forms
  BY DEF Forms
<1>1. CASE call[t]["names"].step = "ok"
  <2> DEFINE k == call[t]["names"].seen.names
  <2>1. user[t] \in Row /\ Known(user[t]) /\ k \in Names /\ user \in [Tabs -> Row] /\ NoName \in Usernames \cup {NoName}
    BY <1>0, TabFact, SeenIs DEF Inv, TypeOK, Row
  <2>2. PICK v : v = [user[t] EXCEPT !.names = k]
    OBVIOUS
  <2>3. v \in Row /\ Known(v)
    <3>1. PICK r \in Row : r = user[t]
      BY <2>1
    <3>2. PICK m \in Names : m = k
      BY <2>1
    <3>3. v = [r EXCEPT !.names = m] /\ Known(r)
      BY <2>1, <2>2, <3>1, <3>2
    <3> QED
      BY <2>1, <3>3, WithFact
  <2>4. user' = [user EXCEPT ![t] = v] \/ user' = [user EXCEPT ![t] = user[t]]
    BY <1>1, <2>1, <2>2 DEF FinishNames, At, Row
  <2>5. /\ Done(t, "names") /\ Clear(t, "names") /\ UNCHANGED <<formVars, cache, calls>> /\ PagesOnly
        /\ Invalidate(t) /\ wrote' = [wrote EXCEPT ![t] = call[t]["names"].seen.version]
    BY <1>1 DEF FinishNames, At
  <2>6. PICK u \in Row : Known(u) /\ user' = [user EXCEPT ![t] = u]
    BY <2>1, <2>3, <2>4
  <2> QED
    BY <1>0, <2>5, <2>6, SavedStep
<1>2. CASE call[t]["names"].step # "ok"
  BY <1>0, <1>2, ForgetStep DEF FinishNames, At, cacheVars
<1> QED
  BY <1>1, <1>2

\* A step of a page that no call takes.
LEMMA PageStep ==
  ASSUME Inv, UNCHANGED <<dbVars, call, calls>>, RestOK', \A t \in Tabs : TabSound(t)'
  PROVE  Inv'
<1>1. NewestCodeStands' /\ UsernameUnique'
  BY DEF Inv, NewestCodeStands, UsernameUnique, dbVars, At
<1> QED
  BY <1>1, NoCall DEF dbVars

\* A step of a page that only touches its form.
LEMMA TypingStep ==
  ASSUME Inv, UNCHANGED <<dbVars, call, calls, user, cacheVars, faults>>,
         {typed', debounced'} \subseteq [Tabs -> Usernames \cup {NoName}],
         available' \in [Tabs -> {"unknown", "yes", "no"}]
  PROVE  Inv'
<1>1. RestOK'
  BY TypeIs DEF Inv, RestOK, dbVars, cacheVars
<1>2. \A t \in Tabs : TabSound(t)'
  BY DEF Inv, TabSound, Known, dbVars, cacheVars
<1> QED
  BY <1>1, <1>2, PageStep

\* Type keeps the invariant.
LEMMA TypeStep == ASSUME Inv, NEW t \in Tabs, NEW n \in Usernames, Type(t, n) PROVE Inv'
<1>1. typed' \in [Tabs -> Usernames \cup {NoName}]
  BY DEF Type, Inv, TypeOK
<1> QED
  BY <1>1, TypingStep DEF Type, PagesOnly, Inv, TypeOK

\* Debounce keeps the invariant.
LEMMA DebounceStep == ASSUME Inv, NEW t \in Tabs, Debounce(t) PROVE Inv'
<1>1. debounced' \in [Tabs -> Usernames \cup {NoName}] /\ available' \in [Tabs -> {"unknown", "yes", "no"}]
  BY DEF Debounce, Inv, TypeOK
<1> QED
  BY <1>1, TypingStep DEF Debounce, PagesOnly, Inv, TypeOK

\* CheckName keeps the invariant.
LEMMA CheckNameStep == ASSUME Inv, NEW t \in Tabs, CheckName(t) PROVE Inv'
<1>1. available' \in [Tabs -> {"unknown", "yes", "no"}]
  BY DEF CheckName, Inv, TypeOK
<1> QED
  BY <1>1, TypingStep DEF CheckName, PagesOnly, Inv, TypeOK

\* One tab takes new data in a step of its queries or of the sign-in.
LEMMA DataStep ==
  ASSUME Inv, UNCHANGED <<dbVars, call, calls, formVars>>, faults' \in 0..MaxFaults,
         NEW t \in Tabs, NEW u \in Row, NEW c \in Row, NEW d \in Row, NEW s \in FetchSteps,
         user' = [user EXCEPT ![t] = u], cache' = [cache EXCEPT ![t] = c],
         fetch' = [fetch EXCEPT ![t] = [step |-> s, data |-> d]], wrote' = wrote,
         Known(u), Known(c), Known(d), s = "read" => d.version >= wrote[t]
  PROVE  Inv'
<1>1. PICK w \in Versions : w = wrote[t]
  BY TabFact
<1>2. row' = row /\ wrote' = [wrote EXCEPT ![t] = w] /\ w <= row.version /\ (s = "read" => d.version >= w)
  BY <1>1, TabFact DEF dbVars
<1>3. /\ {user', cache'} \subseteq [Tabs -> Row] /\ fetch' \in [Tabs -> [step : FetchSteps, data : Row]]
      /\ wrote' \in [Tabs -> Versions] /\ \A v \in Tabs : TabSound(v)'
  BY <1>2, TabStep
<1>4. RestOK'
  BY <1>3, TypeIs DEF Inv, RestOK, dbVars, formVars
<1> QED
  BY <1>3, <1>4, PageStep

\* SignIn keeps the invariant: it stores the row as it is.
LEMMA SignInStep == ASSUME Inv, NEW t \in Tabs, SignIn(t) PROVE Inv'
<1>1. PICK c \in Row, d \in Row, s \in FetchSteps : c = cache[t] /\ d = fetch[t].data /\ s = fetch[t].step
  BY TabFact
<1>2. /\ Known(c) /\ Known(d) /\ (s = "read" => d.version >= wrote[t])
      /\ cache' = [cache EXCEPT ![t] = c] /\ fetch' = [fetch EXCEPT ![t] = [step |-> s, data |-> d]]
  BY <1>1, TabFact DEF SignIn, cacheVars
<1>3. user' = [user EXCEPT ![t] = row] /\ row \in Row /\ Known(row) /\ wrote' = wrote /\ faults' \in 0..MaxFaults
  BY NoRowKnown DEF SignIn, cacheVars, PagesOnly, Inv, TypeOK
<1> QED
  BY <1>2, <1>3, DataStep DEF SignIn, PagesOnly

\* SendFetch keeps the invariant: what it reads is not older than what the tab has written.
LEMMA SendFetchStep == ASSUME Inv, NEW t \in Tabs, SendFetch(t) PROVE Inv'
<1>1. PICK u \in Row, c \in Row : u = user[t] /\ c = cache[t]
  BY TabFact
<1>2. Known(u) /\ Known(c) /\ user' = [user EXCEPT ![t] = u] /\ cache' = [cache EXCEPT ![t] = c]
  BY <1>1, TabFact DEF SendFetch
<1>3. PICK s \in FetchSteps, d \in Row : s = "read" /\ d = row
  BY NoRowKnown DEF FetchSteps
<1>4. fetch' = [fetch EXCEPT ![t] = [step |-> s, data |-> d]] /\ Known(d) /\ d.version >= wrote[t]
  BY <1>3, NoRowKnown, TabFact, BoundsFact DEF SendFetch, Versions
<1>5. wrote' = wrote /\ faults' \in 0..MaxFaults
  BY DEF SendFetch, FetchOnly, Inv, TypeOK
<1> QED
  BY <1>2, <1>4, <1>5, DataStep DEF SendFetch, FetchOnly

\* AnswerFetch keeps the invariant.
LEMMA AnswerFetchStep == ASSUME Inv, NEW t \in Tabs, AnswerFetch(t) PROVE Inv'
<1>1. PICK c \in Row : c = fetch[t].data
  BY TabFact
<1>2. Known(c) /\ cache' = [cache EXCEPT ![t] = c]
  BY <1>1, TabFact DEF AnswerFetch
<1>3. PICK u \in Row : Known(u) /\ user' = [user EXCEPT ![t] = u]
  BY <1>1, <1>2, TabFact DEF AnswerFetch
<1>4. PICK s \in FetchSteps, d \in Row : s = "fresh" /\ d = NoRow
  BY NoRowKnown DEF FetchSteps
<1>5. fetch' = [fetch EXCEPT ![t] = [step |-> s, data |-> d]] /\ Known(d) /\ s # "read"
  BY <1>4, NoRowKnown DEF AnswerFetch
<1>6. wrote' = wrote /\ faults' \in 0..MaxFaults
  BY DEF AnswerFetch, FetchOnly, Inv, TypeOK
<1> QED
  BY <1>2, <1>3, <1>5, <1>6, DataStep DEF AnswerFetch, FetchOnly

\* FailFetch keeps the invariant.
LEMMA FailFetchStep == ASSUME Inv, NEW t \in Tabs, FailFetch(t) PROVE Inv'
<1>1. PICK c \in Row : c = NoRow
  BY NoRowKnown
<1>2. Known(c) /\ cache' = [cache EXCEPT ![t] = c]
  BY <1>1, NoRowKnown DEF FailFetch
<1>3. PICK u \in Row : Known(u) /\ user' = [user EXCEPT ![t] = u]
  BY NoRowKnown, TabFact DEF FailFetch
<1>4. PICK s \in FetchSteps : s # "read" /\ fetch' = [fetch EXCEPT ![t] = [step |-> s, data |-> c]]
  BY <1>1 DEF FailFetch, FetchSteps
<1>5. wrote' = wrote /\ faults' \in 0..MaxFaults
  BY BoundsFact DEF FailFetch, FetchOnly, Inv, TypeOK
<1> QED
  BY <1>2, <1>3, <1>4, <1>5, DataStep DEF FailFetch, FetchOnly

\* The sign-up signs the user in and asks for a code: two calls change.
LEMMA FinishSignupStep == ASSUME Inv, NEW t \in Tabs, FinishSignup(t) PROVE Inv'
<1>0. "signup" \in Forms /\ "welcome" \in Forms
  BY DEF Forms
<1>1. CASE call[t]["signup"].step # "ok"
  BY <1>0, <1>1, ForgetStep DEF FinishSignup, At
<1>2. CASE call[t]["signup"].step = "ok"
  <2>1. row.exists /\ call[t]["welcome"].step = "idle" /\ call \in Calls
    <3>1. "ok" \notin Early("signup")
      BY DEF Early
    <3>2. CallSound(t, "signup")
      BY <1>0 DEF Inv
    <3> QED
      BY <1>2, <3>1, <3>2, TypeIs DEF Inv, OneWelcome, CallSound
  <2>2. PICK u : u = [call[t]["signup"].seen EXCEPT !.verified = FALSE]
    OBVIOUS
  <2>3. u \in Row /\ Known(u)
    <3>1. PICK r \in Row : r = call[t]["signup"].seen
      BY <1>0, SeenIs
    <3>2. Known(r) /\ u = [r EXCEPT !.verified = FALSE]
      BY <1>0, <2>2, <3>1, SeenIs
    <3> QED
      BY <3>1, <3>2 DEF Row, Known
  <2>4. user' = [user EXCEPT ![t] = u] /\ UNCHANGED <<row, codes, sent, taken, voided, cache, fetch, wrote, calls, faults>>
        /\ UNCHANGED formVars
    BY <1>2, <2>2 DEF FinishSignup, At, cacheVars, PagesOnly, dbVars
  <2>5. /\ {user', cache'} \subseteq [Tabs -> Row] /\ fetch' \in [Tabs -> [step : FetchSteps, data : Row]]
        /\ wrote' \in [Tabs -> Versions] /\ \A v \in Tabs : TabSound(v)'
    <3>1. PICK c \in Row, d \in Row, s \in FetchSteps, w \in Versions :
                  c = cache[t] /\ d = fetch[t].data /\ s = fetch[t].step /\ w = wrote[t]
      BY TabFact
    <3>2. /\ Known(c) /\ Known(d) /\ w <= row.version /\ (s = "read" => d.version >= w)
          /\ cache' = [cache EXCEPT ![t] = c] /\ wrote' = [wrote EXCEPT ![t] = w]
          /\ fetch' = [fetch EXCEPT ![t] = [step |-> s, data |-> d]]
      BY <2>4, <3>1, TabFact
    <3>3. row' = row /\ u \in Row /\ Known(u) /\ user' = [user EXCEPT ![t] = u]
      BY <2>3, <2>4
    <3> QED
      BY <3>2, <3>3, TabStep
  <2>6. RestOK'
    BY <2>4, <2>5, TypeIs DEF Inv, RestOK, formVars
  <2> DEFINE w == [call[t]["welcome"] EXCEPT !.step = "read"]
             g == [call[t] EXCEPT !["signup"] = Idle, !["welcome"] = w]
  <2>7. w \in Call /\ w.step = "read" /\ w.seen = call[t]["welcome"].seen
    <3>1. call[t]["welcome"] \in Call /\ "read" \in Steps
      BY <1>0, SeenIs DEF Steps, DbSteps
    <3> QED
      BY <3>1 DEF Call
  <2>8. call[t] \in [Forms -> Call]
    BY <2>1 DEF Calls
  <2>9. call' = [call EXCEPT ![t]["signup"] = Idle, ![t]["welcome"].step = "read"]
    BY <1>2 DEF FinishSignup, At
  <2>10. call' = [call EXCEPT ![t] = g]
    BY <1>0, <2>1, <2>8, <2>9 DEF Calls
  <2>11. /\ g \in [Forms -> Call] /\ g["signup"] = Idle /\ g["welcome"] = w
         /\ \A f \in Forms : f \notin {"signup", "welcome"} => g[f] = call[t][f]
    BY <1>0, <2>7, <2>8, IdleFact
  <2> HIDE DEF g
  <2>12. call' \in Calls /\ call'[t] = g /\ \A v \in Tabs : v # t => call'[v] = call[v]
    BY <2>1, <2>10, <2>11 DEF Calls
  <2>13. /\ call'[t]["signup"] = Idle /\ call'[t]["welcome"].step = "read"
         /\ call'[t]["welcome"].seen = call[t]["welcome"].seen
         /\ \A v \in Tabs, f \in Forms : v # t \/ f \notin {"signup", "welcome"} => call'[v][f] = call[v][f]
    BY <2>7, <2>11, <2>12
  <2>14. TypeOK'
    <3>1. (RestOK /\ call \in Calls <=> TypeOK)'
      BY TypeIs, PTL
    <3> QED
      BY <2>6, <2>12, <3>1 DEF Calls
  <2>15. VersionCounted'
    <3>1. Writing' = Writing
      BY <1>0, <2>13 DEF Writing
    <3> QED
      BY <2>4, <3>1 DEF Inv, VersionCounted
  <2>16. NobodyYet' /\ UsernameUnique'
    BY <2>4 DEF Inv, NobodyYet, UsernameUnique
  <2>17. OneWelcome'
    BY <1>0, <2>13, IdleFact DEF Inv, OneWelcome
  <2>18. NewestCodeStands'
    <3> SUFFICES ASSUME sent > 0, ~voided, \A v \in Tabs, f \in Forms : call'[v][f].step # "create" PROVE sent \in codes
      BY <2>4 DEF NewestCodeStands, At
    <3>1. ASSUME NEW v \in Tabs, NEW f \in Forms PROVE call[v][f].step # "create"
      BY <1>2, <2>1, <2>13
    <3> QED
      BY <3>1 DEF Inv, NewestCodeStands, At
  <2>19. ASSUME NEW v \in Tabs, NEW f \in Forms PROVE CallSound(v, f)'
    <3>1. CASE v # t \/ f \notin {"signup", "welcome"}
      <4>1. call'[v][f] = call[v][f] /\ row' \in Row /\ row' = row
        BY <2>4, <2>6, <2>13, <3>1 DEF RestOK
      <4> QED
        BY <4>1, CallStays, GrownSame DEF Inv
    <3>2. CASE v = t /\ f = "signup"
      <4>1. Known(NoRow) /\ row' = row
        BY <2>4, NoRowKnown
      <4>2. call'[v][f].step = "idle" /\ call'[v][f].seen = NoRow
        BY <2>13, <3>2, IdleFact
      <4> QED
        BY <1>0, <3>2, <4>1, <4>2, PathSteps DEF CallSound, Known, Early
    <3>3. CASE v = t /\ f = "welcome"
      <4>1. Known(call[v][f].seen) /\ row' = row /\ "read" \in Path(f)
        BY <1>0, <2>4, <3>3, SeenIs DEF Path
      <4> QED
        BY <2>1, <2>13, <3>3, <4>1 DEF CallSound, Known
    <3> QED
      BY <3>1, <3>2, <3>3
  <2> QED
    BY <2>5, <2>14, <2>15, <2>16, <2>17, <2>18, <2>19 DEF Inv
<1> QED
  BY <1>1, <1>2

\* Every callback of a form keeps the invariant.
LEMMA FinishingStep == ASSUME Inv, NEW t \in Tabs, Finish(t) PROVE Inv'
<1>1. CASE FinishWelcome(t)
  BY <1>1, ForgetStep, FormNames DEF FinishWelcome
<1>2. CASE FinishResend(t)
  BY <1>2, ForgetStep, FormNames DEF FinishResend
<1>3. ASSUME NEW f \in Forms, FinishPassword(t, f) PROVE Inv'
  BY <1>3, ForgetStep DEF FinishPassword
<1> QED
  BY <1>1, <1>2, <1>3, FinishSignupStep, FinishVerifyStep, FinishClaimStep, FinishNamesStep DEF Finish

\* Every database call of a handler keeps the invariant.
LEMMA HandlerStep == ASSUME Inv, NEW t \in Tabs, NEW f \in Forms, Handler(t, f) PROVE Inv'
  BY ValidateStep, LookUpStep, InsertRowStep, ReadRowStep, CheckCodeStep, CheckTakenStep, WriteRowStep, WritePasswordStep,
     PurgeCodesStep, CreateCodeStep, ReadProfileStep DEF Handler

\* Every step keeps the invariant.
LEMMA NextStep == ASSUME Inv, Next PROVE Inv'
<1>1. ASSUME NEW t \in Tabs, NEW f \in Forms, Handler(t, f) \/ Fault(t, f) PROVE Inv'
  BY <1>1, HandlerStep, FaultStep
<1>2. ASSUME NEW t \in Tabs, User(t) PROVE Inv'
  BY <1>2, SubmitsStep, SignInStep, TypeStep DEF User
<1>3. ASSUME NEW t \in Tabs, Finish(t) \/ Debounce(t) \/ CheckName(t) \/ Fetching(t) \/ FailFetch(t) PROVE Inv'
  BY <1>3, FinishingStep, DebounceStep, CheckNameStep, SendFetchStep, AnswerFetchStep, FailFetchStep DEF Fetching
<1> QED
  BY <1>1, <1>2, <1>3, ExpireCodesStep, OthersClaimStep DEF Next

\* A step that changes nothing keeps the invariant.
LEMMA StutterStep == ASSUME Inv, UNCHANGED vars PROVE Inv'
<1>1. RestOK'
  BY TypeIs DEF Inv, RestOK, vars, dbVars, formVars, cacheVars
<1>2. \A t \in Tabs : TabSound(t)'
  BY DEF Inv, TabSound, Known, vars, dbVars, cacheVars
<1> QED
  BY <1>1, <1>2, PageStep DEF vars

\* The invariant holds at the start, with and without an account.
LEMMA InitInv == Init => Inv
<1> SUFFICES ASSUME Init PROVE Inv
  OBVIOUS
<1>1. /\ row \in Row /\ row.version = 0 /\ row.username = NoName
      /\ calls \in 0..MaxCalls /\ calls >= 0 /\ (~row.exists => row = NoRow)
  <2>1. CASE row = NoRow /\ calls = 0
    BY <2>1, RowFact, BoundsFact
  <2>2. CASE row = [NoRow EXCEPT !.exists = TRUE, !.verified = TRUE] /\ calls = 1
    <3>1. row = [exists |-> TRUE, verified |-> TRUE, username |-> NoName, names |-> 0, version |-> 0]
      BY <2>2 DEF NoRow
    <3>2. 0 \in Names /\ 0 \in Versions /\ 1 \in 0..MaxCalls
      BY BoundsFact DEF Names, Versions
    <3>3. row \in Row
      BY <3>1, <3>2 DEF Row
    <3> QED
      <4>1. calls = 1
        BY <2>2
      <4>2. row.exists = TRUE /\ row.version = 0 /\ row.username = NoName
        BY <3>1
      <4> QED
        BY <3>2, <3>3, <4>1, <4>2
  <2> QED
    BY <2>1, <2>2 DEF Init
<1>2. NoRow \in Row /\ Known(NoRow)
  BY <1>1, RowFact, BoundsFact DEF Known
<1>3. /\ codes = {} /\ sent = 0 /\ taken = {} /\ voided = TRUE /\ faults = 0
      /\ call = [t \in Tabs |-> [f \in Forms |-> Idle]]
      /\ user = [t \in Tabs |-> NoRow] /\ cache = [t \in Tabs |-> NoRow]
      /\ typed = [t \in Tabs |-> NoName] /\ debounced = [t \in Tabs |-> NoName]
      /\ available = [t \in Tabs |-> "unknown"]
      /\ fetch = [t \in Tabs |-> [step |-> "stale", data |-> NoRow]]
      /\ wrote = [t \in Tabs |-> 0]
  BY DEF Init
<1>4. TypeOK
  <2>1. "stale" \in FetchSteps /\ 0 \in Versions
    BY BoundsFact DEF FetchSteps, Versions
  <2>2. RestOK
    BY <1>1, <1>2, <1>3, <2>1, BoundsFact DEF RestOK
  <2>3. call \in Calls
    BY <1>3, IdleFact DEF Calls
  <2> QED
    BY <2>2, <2>3, TypeIs
<1>5. VersionCounted
  <2>1. Writing = {}
    BY <1>3, IdleFact DEF Writing, Forms
  <2>2. Cardinality({}) = 0
    BY FS_EmptySet
  <2> QED
    BY <1>1, <2>1, <2>2 DEF VersionCounted
<1>6. NobodyYet /\ NewestCodeStands /\ UsernameUnique
  BY <1>1, <1>3 DEF NobodyYet, NewestCodeStands, UsernameUnique
<1>7. \A t \in Tabs, f \in Forms : CallSound(t, f)
  BY <1>2, <1>3, IdleFact, PathSteps DEF CallSound, Early
<1>8. OneWelcome
  BY <1>3, IdleFact DEF OneWelcome, Forms
<1>9. \A t \in Tabs : TabSound(t)
  BY <1>1, <1>2, <1>3 DEF TabSound
<1> QED
  BY <1>4, <1>5, <1>6, <1>7, <1>8, <1>9 DEF Inv

\* The invariant holds in every state.
LEMMA InvHolds == Spec => []Inv
<1>1. Inv /\ [Next]_vars => Inv'
  BY NextStep, StutterStep
<1> QED
  BY <1>1, InitInv, PTL DEF Spec

\* The account's row and its codes are sound in every state: a code that was
\* made last stands, and no user name is given twice.
THEOREM AccountIsSound == Spec => []AccountSound
<1>1. Inv => AccountSound
  BY DEF Inv, AccountSound
<1> QED
  BY <1>1, InvHolds, PTL


\* Every step keeps what a tab shows up to date: only the answer of a fetch makes data fresh.
LEMMA ShownStep == ASSUME Inv, OwnWritesShown, [Next]_vars PROVE OwnWritesShown'
<1> SUFFICES ASSUME NEW t \in Tabs, fetch'[t].step = "fresh", cache'[t].exists PROVE cache'[t].version >= wrote'[t]
  BY DEF OwnWritesShown
<1>0. fetch \in [Tabs -> [step : FetchSteps, data : Row]] /\ cache \in [Tabs -> Row] /\ wrote \in [Tabs -> Versions]
  BY DEF Inv, TypeOK
<1>1. CASE UNCHANGED <<fetch[t], cache[t], wrote[t]>>
  BY <1>1 DEF OwnWritesShown
<1>2. ASSUME NEW u \in Tabs, AnswerFetch(u) PROVE cache'[t].version >= wrote'[t]
  <2>1. wrote' = wrote
    BY <1>2 DEF AnswerFetch, FetchOnly
  <2>2. CASE u = t
    <3>1. cache'[t] = fetch[t].data
      BY <1>0, <1>2, <2>2 DEF AnswerFetch
    <3> QED
      BY <1>2, <2>1, <2>2, <3>1, TabFact DEF AnswerFetch
  <2>3. CASE u # t
    BY <1>0, <1>1, <1>2, <2>1, <2>3 DEF AnswerFetch
  <2> QED
    BY <2>2, <2>3
<1>3. ASSUME NEW u \in Tabs, SendFetch(u) PROVE cache'[t].version >= wrote'[t]
  <2>1. wrote' = wrote /\ cache' = cache
    BY <1>3 DEF SendFetch, FetchOnly
  <2>2. u # t
    BY <1>0, <1>3 DEF SendFetch
  <2> QED
    BY <1>0, <1>1, <1>3, <2>1, <2>2 DEF SendFetch
<1>4. ASSUME NEW u \in Tabs, FailFetch(u) PROVE cache'[t].version >= wrote'[t]
  <2>1. wrote' = wrote
    BY <1>4 DEF FailFetch, FetchOnly
  <2>2. u # t
    BY <1>0, <1>4, RowFact DEF FailFetch
  <2>3. fetch'[t] = fetch[t] /\ cache'[t] = cache[t]
    BY <1>0, <1>4, <2>2 DEF FailFetch
  <2> QED
    BY <1>1, <2>1, <2>3
<1>5. ASSUME NEW u \in Tabs, FinishClaim(u) \/ FinishNames(u) PROVE cache'[t].version >= wrote'[t]
  <2>1. cache' = cache
    BY <1>5 DEF FinishClaim, FinishNames
  <2>2. \/ UNCHANGED <<fetch, wrote>>
        \/ /\ fetch' = [fetch EXCEPT ![u] = [step |-> "stale", data |-> NoRow]]
           /\ \E w : wrote' = [wrote EXCEPT ![u] = w]
    BY <1>5 DEF FinishClaim, FinishNames, Invalidate
  <2>3. CASE UNCHANGED <<fetch, wrote>>
    BY <1>1, <2>1, <2>3
  <2>4. CASE /\ fetch' = [fetch EXCEPT ![u] = [step |-> "stale", data |-> NoRow]]
             /\ \E w : wrote' = [wrote EXCEPT ![u] = w]
    <3>1. u # t
      BY <1>0, <2>4
    <3>2. fetch'[t] = fetch[t] /\ wrote'[t] = wrote[t]
      BY <1>0, <2>4, <3>1
    <3> QED
      BY <1>1, <2>1, <3>2
  <2> QED
    BY <2>2, <2>3, <2>4
<1>6. CASE UNCHANGED cacheVars
  BY <1>1, <1>6 DEF cacheVars
<1>7. ASSUME NEW u \in Tabs, NEW f \in Forms, Handler(u, f) \/ Fault(u, f) PROVE UNCHANGED cacheVars
  BY <1>7 DEF Handler, Validate, LookUp, InsertRow, ReadRow, CheckCode, CheckTaken, WriteRow, WritePassword, PurgeCodes,
              CreateCode, ReadProfile, HandlerOnly, Fault
<1>8. ASSUME NEW u \in Tabs, User(u) PROVE UNCHANGED cacheVars
  BY <1>8 DEF User, SubmitSignup, SignIn, SubmitResend, SubmitForgot, SubmitClaim, SubmitNames, SubmitVerify, SubmitReset,
              Type, Submit
<1>9. ASSUME NEW u \in Tabs, Finish(u), ~FinishClaim(u), ~FinishNames(u) PROVE UNCHANGED cacheVars
  BY <1>9 DEF Finish, FinishSignup, FinishWelcome, FinishVerify, FinishResend, FinishPassword
<1>10. ASSUME NEW u \in Tabs, Debounce(u) \/ CheckName(u) PROVE UNCHANGED cacheVars
  BY <1>10 DEF Debounce, CheckName
<1>11. ASSUME ExpireCodes \/ \E n \in Usernames : OthersClaim(n) PROVE UNCHANGED cacheVars
  BY <1>11 DEF ExpireCodes, OthersClaim
<1>12. CASE UNCHANGED vars
  BY <1>6, <1>12 DEF vars
<1>13. CASE Next
  BY <1>2, <1>3, <1>4, <1>5, <1>6, <1>7, <1>8, <1>9, <1>10, <1>11, <1>13 DEF Next, Fetching
<1> QED
  BY <1>12, <1>13

\* What a tab has saved is what its page shows once it has loaded it again.
THEOREM WritesShown == Spec => []OwnWritesShown
<1>1. Init => OwnWritesShown
  BY DEF Init, OwnWritesShown
<1>2. Inv /\ OwnWritesShown /\ [Next]_vars => OwnWritesShown'
  BY ShownStep
<1> QED
  BY <1>1, <1>2, InvHolds, PTL DEF Spec

\* The row takes a verification back in no step.
LEMMA VerifiedStep == ASSUME Inv, row.verified, [Next]_vars PROVE row'.verified
<1>1. ASSUME NEW t \in Tabs, NEW f \in Forms, WriteRow(t, f) PROVE row'.verified
  <2>1. CASE row' = row
    BY <2>1
  <2>2. CASE row' = Updated(f, call[t][f])
    <3>0. call[t][f].step = "write" /\ "write" \in Path(f) /\ f # "reset"
      BY <1>1, StepsOf DEF WriteRow, At
    <3>1. f \in {"verify", "claim", "names"} /\ call[t][f].step = "write"
      BY <3>0, WhoIsAt
    <3>2. PICK n : n = Updated(f, call[t][f])
      OBVIOUS
    <3>3. n.verified
      BY <3>1, <3>2, UpdatedFact
    <3> QED
      BY <2>2, <3>2, <3>3
  <2> QED
    BY <1>1, <2>1, <2>2 DEF WriteRow
<1>2. ASSUME NEW t \in Tabs, NEW f \in Forms, WritePassword(t, f) PROVE row'.verified
  <2>1. row \in Row
    BY DEF Inv, TypeOK
  <2> QED
    BY <1>2, <2>1 DEF WritePassword, Row
<1>3. ASSUME NEW t \in Tabs, NEW f \in Forms, InsertRow(t, f) PROVE row'.verified
  <2>1. row.exists
    BY RowFact DEF Inv, NobodyYet
  <2> QED
    BY <1>3, <2>1 DEF InsertRow
<1>4. CASE row' = row
  BY <1>4
<1>5. ASSUME NEW t \in Tabs, NEW f \in Forms, Handler(t, f), ~WriteRow(t, f), ~WritePassword(t, f), ~InsertRow(t, f)
      PROVE  row' = row
  BY <1>5 DEF Handler, Validate, LookUp, ReadRow, CheckCode, CheckTaken, PurgeCodes, CreateCode, ReadProfile, dbVars
<1>6. ASSUME NEW t \in Tabs, NEW f \in Forms, Fault(t, f) PROVE row' = row
  BY <1>6 DEF Fault
<1>7. ASSUME NEW t \in Tabs, Finish(t) \/ User(t) \/ Debounce(t) \/ CheckName(t) PROVE row' = row
  BY <1>7 DEF Finish, FinishSignup, FinishWelcome, FinishVerify, FinishResend, FinishPassword, FinishClaim, FinishNames,
              User, SubmitSignup, SignIn, SubmitResend, SubmitForgot, SubmitClaim, SubmitNames, SubmitVerify, SubmitReset,
              Type, Submit, Debounce, CheckName, PagesOnly, dbVars
<1>8. ASSUME NEW t \in Tabs, Fetching(t) \/ FailFetch(t) PROVE row' = row
  BY <1>8 DEF Fetching, SendFetch, AnswerFetch, FailFetch, FetchOnly, dbVars
<1>9. ASSUME ExpireCodes \/ (\E n \in Usernames : OthersClaim(n)) \/ UNCHANGED vars PROVE row' = row
  BY <1>9 DEF ExpireCodes, OthersClaim, vars, dbVars
<1>10. CASE Next
  BY <1>1, <1>2, <1>3, <1>4, <1>5, <1>6, <1>7, <1>8, <1>9, <1>10 DEF Next
<1>11. CASE UNCHANGED vars
  BY <1>4, <1>9, <1>11
<1> QED
  BY <1>10, <1>11

\* A verified account stays verified, whatever a handler read before it was.
THEOREM VerifiedForGood == Spec => VerifiedStays
<1>1. Inv /\ [Next]_vars => [row.verified => row'.verified]_vars
  BY VerifiedStep
<1> QED
  BY <1>1, InvHolds, PTL DEF Spec, VerifiedStays
===============================================================================
