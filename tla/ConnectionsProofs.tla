-------------------------- MODULE ConnectionsProofs ---------------------------
(***************************************************************************)
(* What is proved of Connections, for every set of projects, every quota    *)
(* and every number of requests.                                            *)
(*                                                                          *)
(* ConnectionsSound names the races that may break the quota, orphan a row  *)
(* or lose a password; its inductive invariant TableInv says what a request *)
(* between two of its queries still knows: a creation has counted fewer     *)
(* rows than the quota, and they are no more now (Room); what an update has *)
(* read is the last password that was saved, or another request is to blame *)
(* (Reads); a row is the work of one creation, which no other repeats       *)
(* (Made, Aimed).  The lists of the browser have an invariant of their own, *)
(* which needs nothing but the types: UpToDate.                             *)
(***************************************************************************)
EXTENDS Connections, FiniteSetTheorems, TLAPS

CallRecord == [by : {"none", "me", "other"}, op : {"none", "create", "update", "delete"},
               step : {"free", "sent", "checked", "ok", "refused", "lost", "done"},
               project : Projects \cup {"none"}, conn : 0..MaxCalls, host : 0..MaxCalls,
               typed : BOOLEAN, read : 0..MaxCalls, seen : SUBSET Calls]

Query == [loaded : BOOLEAN, data : Snapshot, fresh : BOOLEAN, missed : BOOLEAN, busy : BOOLEAN,
          got : UNION {[S -> Snapshot] : S \in SUBSET Projects}]

TypeInv == /\ live \subseteq Projects /\ racing \subseteq Calls
           /\ row \in [Conns -> Row] /\ call \in [Calls -> CallRecord]
           /\ cache \in [Keys -> Query]
           /\ \A key \in Keys : DOMAIN cache[key].got \subseteq Parts(key)
           /\ page \in Keys \cup {"none"}
           /\ form \in [conn : 0..MaxCalls, host : 0..MaxCalls, pending : 0..MaxCalls]
           /\ aim \in [Calls -> SUBSET Keys] /\ here \subseteq Calls

\* A request, one step further.
Further(k, st, se) ==
    /\ call' \in [Calls -> CallRecord]
    /\ \A j \in Calls : j # k => call'[j] = call[j]
    /\ call'[k].step = st /\ call'[k].seen = se
    /\ call'[k].op = call[k].op /\ call'[k].conn = call[k].conn /\ call'[k].project = call[k].project
    /\ call'[k].typed = call[k].typed /\ call'[k].by = call[k].by

\* A request that is replaced by one with the same purpose has gone a step further.
LEMMA FurtherFact ==
  ASSUME TypeInv, NEW k \in Calls, NEW r \in CallRecord, call' = [call EXCEPT ![k] = r],
         r.op = call[k].op, r.conn = call[k].conn, r.project = call[k].project,
         r.typed = call[k].typed, r.by = call[k].by
  PROVE  Further(k, r.step, r.seen)
<1>1. call'[k] = r /\ call' \in [Calls -> CallRecord] /\ \A j \in Calls : j # k => call'[j] = call[j]
  BY DEF TypeInv
<1> QED
  BY <1>1 DEF Further

\* The committed requests are some of the requests.
LEMMA CommittedFact == Committed \subseteq Calls /\ 0 \in 0..MaxCalls /\ Calls \subseteq 0..MaxCalls /\ Conns = Calls
  BY ConnectionsAssumption DEF Committed, Calls, Conns

\* Carried, as it changes the requests.
LEMMA CarriedFact == ASSUME TypeInv, NEW k \in Calls, Carried(k)
                     PROVE  Further(k, "ok", call[k].seen) /\ call'[k].read = 0
<1> DEFINE r == [call[k] EXCEPT !.step = "ok", !.host = 0, !.read = 0]
<1>1. call[k] \in CallRecord
  BY DEF TypeInv
<1>2. call' = [call EXCEPT ![k] = r]
  BY <1>1 DEF Carried, TypeInv, CallRecord
<1>3. r \in CallRecord /\ r.step = "ok" /\ r.seen = call[k].seen /\ r.op = call[k].op /\ r.conn = call[k].conn
      /\ r.project = call[k].project /\ r.typed = call[k].typed /\ r.by = call[k].by /\ r.read = 0
  BY <1>1, CommittedFact DEF CallRecord
<1> HIDE DEF r
<1>4. call'[k] = r
  BY <1>2 DEF TypeInv
<1> QED
  BY <1>2, <1>3, <1>4, FurtherFact

\* Goes, as it changes the requests.
LEMMA GoesFact == ASSUME TypeInv, NEW k \in Calls, Goes(k, "checked")
                  PROVE  Further(k, "checked", Committed)
<1> DEFINE r == [call[k] EXCEPT !.step = "checked", !.seen = Committed]
<1>1. call[k] \in CallRecord
  BY DEF TypeInv
<1>2. call' = [call EXCEPT ![k] = r]
  BY <1>1 DEF Goes, TypeInv, CallRecord
<1>3. r \in CallRecord /\ r.step = "checked" /\ r.seen = Committed /\ r.op = call[k].op /\ r.conn = call[k].conn
      /\ r.project = call[k].project /\ r.typed = call[k].typed /\ r.by = call[k].by
  BY <1>1, CommittedFact DEF CallRecord
<1> HIDE DEF r
<1> QED
  BY <1>2, <1>3, FurtherFact

\* What ReadRow remembers: of an update the password and what was committed, of a deletion nothing.
LEMMA ReadFact == ASSUME TypeInv, NEW k \in Calls, ReadRow(k), call[k].conn \in Conns
                  PROVE  \/ Further(k, "checked", Committed) /\ call'[k].read = row[call[k].conn].password
                         \/ Further(k, "checked", {}) /\ call[k].op = "delete"
<1> DEFINE se == IF call[k].op = "update" THEN Committed ELSE {}
           re == IF call[k].op = "update" THEN row[call[k].conn].password ELSE 0
           r == [call[k] EXCEPT !.step = "checked", !.seen = se, !.read = re]
<1>1. call[k] \in CallRecord
  BY DEF TypeInv
<1>2. row[call[k].conn].password \in 0..MaxCalls
  BY DEF TypeInv, Row
<1>3. se \in SUBSET Calls /\ re \in 0..MaxCalls
  BY <1>2, CommittedFact
<1>4. call[k].op = "update" => se = Committed /\ re = row[call[k].conn].password
  OBVIOUS
<1>5. call[k].op # "update" => se = {} /\ call[k].op = "delete"
  BY DEF ReadRow
<1>6. call' = [call EXCEPT ![k] = r]
  BY <1>1 DEF ReadRow, TypeInv, CallRecord
<1> HIDE DEF se, re
<1>7. r \in CallRecord /\ r.step = "checked" /\ r.seen = se /\ r.op = call[k].op /\ r.conn = call[k].conn
      /\ r.project = call[k].project /\ r.typed = call[k].typed /\ r.by = call[k].by /\ r.read = re
  BY <1>1, <1>3 DEF CallRecord
<1> HIDE DEF r
<1>8. call'[k] = r
  BY <1>6 DEF TypeInv
<1>9. Further(k, "checked", se) /\ call'[k].read = re
  BY <1>6, <1>7, <1>8, FurtherFact
<1> QED
  BY <1>4, <1>5, <1>9

\* An answer that arrives or is lost, as it changes the requests.
LEMMA EndFact == ASSUME TypeInv, NEW k \in Calls, NEW st \in {"done", "lost"},
                        call' = [call EXCEPT ![k].step = st]
                 PROVE  Further(k, st, call[k].seen)
<1> DEFINE r == [call[k] EXCEPT !.step = st]
<1>1. call[k] \in CallRecord
  BY DEF TypeInv
<1>2. call' = [call EXCEPT ![k] = r]
  BY <1>1 DEF TypeInv, CallRecord
<1>3. r \in CallRecord /\ r.step = st /\ r.seen = call[k].seen /\ r.op = call[k].op /\ r.conn = call[k].conn
      /\ r.project = call[k].project /\ r.typed = call[k].typed /\ r.by = call[k].by
  BY <1>1 DEF CallRecord
<1> HIDE DEF r
<1> QED
  BY <1>2, <1>3, FurtherFact

\* A request that has been turned down, and one that is sent.
Blanked(k, st) ==
    /\ call' \in [Calls -> CallRecord]
    /\ \A j \in Calls : j # k => call'[j] = call[j]
    /\ call'[k].step = st /\ call'[k].seen = {}

\* The request that has not been sent is a request.
LEMMA UnusedFact == Unused \in CallRecord
<1>1. "none" \in {"none", "me", "other"} /\ "none" \in {"none", "create", "update", "delete"}
      /\ "none" \in Projects \cup {"none"}
      /\ "free" \in {"free", "sent", "checked", "ok", "refused", "lost", "done"} /\ FALSE \in BOOLEAN
      /\ {} \in SUBSET Calls /\ 0 \in 0..MaxCalls
  BY CommittedFact
<1> QED
  BY <1>1 DEF Unused, CallRecord

\* Turned, as it changes the requests.
LEMMA TurnedFact == ASSUME TypeInv, NEW k \in Calls, Turned(k)
                    PROVE  Blanked(k, "refused") /\ call'[k].op = "none" /\ call'[k].by = "none"
<1> DEFINE r == [Unused EXCEPT !.step = "refused"]
<1>1. r \in CallRecord /\ r.step = "refused" /\ r.op = "none" /\ r.by = "none" /\ r.seen = {}
  BY UnusedFact DEF CallRecord, Unused
<1>2. call' = [call EXCEPT ![k] = r]
  BY DEF Turned
<1> HIDE DEF r
<1>3. call'[k] = r /\ call' \in [Calls -> CallRecord] /\ \A j \in Calls : j # k => call'[j] = call[j]
  BY <1>1, <1>2 DEF TypeInv
<1> QED
  BY <1>1, <1>3 DEF Blanked

\* Sent, as it changes the requests.
LEMMA SentFact ==
  ASSUME TypeInv, NEW k \in Calls, NEW by \in {"me", "other"}, NEW op \in {"create", "update", "delete"},
         NEW c \in 0..MaxCalls, NEW p \in Projects \cup {"none"}, NEW h \in 0..MaxCalls, NEW typed \in BOOLEAN,
         Sent(k, by, op, c, p, h, typed)
  PROVE  Blanked(k, "sent") /\ call'[k].op = op /\ call'[k].conn = c
<1> DEFINE r == [by |-> by, op |-> op, step |-> "sent", project |-> p, conn |-> c, host |-> h,
                 typed |-> typed, read |-> 0, seen |-> {}]
<1>2. call' = [call EXCEPT ![k] = r]
  BY DEF Sent
<1>3. r \in CallRecord /\ r.step = "sent" /\ r.op = op /\ r.conn = c /\ r.seen = {}
  <2>2. /\ by \in {"none", "me", "other"} /\ op \in {"none", "create", "update", "delete"}
        /\ "sent" \in {"free", "sent", "checked", "ok", "refused", "lost", "done"}
        /\ 0 \in 0..MaxCalls /\ {} \in SUBSET Calls
    BY CommittedFact
  <2> QED
    BY <2>2 DEF CallRecord
<1> HIDE DEF r
<1>4. call'[k] = r /\ call' \in [Calls -> CallRecord] /\ \A j \in Calls : j # k => call'[j] = call[j]
  BY <1>2, <1>3 DEF TypeInv
<1> QED
  BY <1>3, <1>4 DEF Blanked

Got == UNION {[S -> Snapshot] : S \in SUBSET Projects}

\* A snapshot of nothing, and a list request that has no answer yet.
LEMMA NothingFact == Nothing \in Snapshot /\ [p \in {} |-> Nothing] \in Got /\ DOMAIN [p \in {} |-> Nothing] = {}
<1>1. [c \in Conns |-> 0] \in [Conns -> 0..MaxCalls] /\ {} \in SUBSET Calls
  BY CommittedFact
<1>2. Nothing \in Snapshot
  BY <1>1 DEF Nothing, Snapshot
<1>3. [p \in {} |-> Nothing] \in [{} -> Snapshot] /\ {} \in SUBSET Projects
  BY <1>2
<1> QED
  BY <1>2, <1>3 DEF Got

\* The type of a query, with its answers named.
LEMMA QueryIs == Query = [loaded : BOOLEAN, data : Snapshot, fresh : BOOLEAN, missed : BOOLEAN, busy : BOOLEAN, got : Got]
  BY DEF Query, Got

\* Idle, field by field.
LEMMA IdleFact == ASSUME NEW q \in Query
                  PROVE  Idle(q) \in Query /\ Idle(q).got = [p \in {} |-> Nothing] /\ Idle(q).busy = FALSE
                         /\ Idle(q).data = q.data /\ Idle(q).fresh = q.fresh /\ Idle(q).missed = q.missed
<1> DEFINE e == [p \in {} |-> Nothing]
<1>1. e \in Got
  BY NothingFact
<1>2. Idle(q) = [q EXCEPT !.busy = FALSE, !.got = e]
  BY DEF Idle
<1> HIDE DEF e
<1>3. Idle(q) \in Query /\ Idle(q).got = e /\ Idle(q).busy = FALSE /\ Idle(q).data = q.data /\ Idle(q).fresh = q.fresh
      /\ Idle(q).missed = q.missed
  BY <1>1, <1>2, QueryIs
<1> QED
  BY <1>3 DEF e

\* Fetching, field by field.
LEMMA FetchingFact == ASSUME NEW q \in Query
                      PROVE  Fetching(q) \in Query /\ Fetching(q).got = [p \in {} |-> Nothing] /\ Fetching(q).busy = TRUE
                             /\ Fetching(q).fresh = FALSE /\ Fetching(q).missed = FALSE /\ Fetching(q).data = q.data
<1> DEFINE i == Idle(q)
<1>1. i \in Query /\ i.got = [p \in {} |-> Nothing] /\ i.data = q.data
  BY IdleFact
<1>2. Fetching(q) = [i EXCEPT !.busy = TRUE, !.fresh = FALSE, !.missed = FALSE]
  BY DEF Fetching
<1> HIDE DEF i
<1>3. Fetching(q) \in Query /\ Fetching(q).got = i.got /\ Fetching(q).busy = TRUE /\ Fetching(q).fresh = FALSE
      /\ Fetching(q).missed = FALSE /\ Fetching(q).data = i.data
  BY <1>1, <1>2, QueryIs
<1> QED
  BY <1>1, <1>3

\* What an invalidated list is: as it was and missed or no longer fresh, or asked for again.
LEMMA InvalidatedFact ==
  ASSUME NEW q \in Query, NEW key
  PROVE  LET i == Invalidated(key, q) IN
         /\ i \in Query
         /\ \/ i.got = [p \in {} |-> Nothing] /\ i.fresh = FALSE
            \/ i.got = q.got /\ i.fresh = FALSE /\ (i.missed = TRUE \/ (q.busy = FALSE /\ i.busy = FALSE))
<1>1. CASE key = page /\ (q.loaded \/ ~q.busy)
  <2>1. Invalidated(key, q) = Fetching(q)
    BY <1>1 DEF Invalidated
  <2> QED
    BY <2>1, FetchingFact
<1>2. CASE ~(key = page /\ (q.loaded \/ ~q.busy))
  <2> DEFINE m == q.missed \/ q.busy
  <2>1. Invalidated(key, q) = [q EXCEPT !.fresh = FALSE, !.missed = m]
    BY <1>2, QueryIs DEF Invalidated
  <2>2. m \in BOOLEAN /\ (m = TRUE \/ q.busy = FALSE)
    BY QueryIs
  <2> HIDE DEF m
  <2>3. LET i == [q EXCEPT !.fresh = FALSE, !.missed = m] IN
        i \in Query /\ i.got = q.got /\ i.fresh = FALSE /\ i.missed = m /\ i.busy = q.busy
    BY <2>2, QueryIs
  <2> QED
    BY <2>1, <2>2, <2>3
<1> QED
  BY <1>1, <1>2

\* ListConnections answers with a snapshot.
LEMMA FoundFact == ASSUME TypeInv, NEW p PROVE Found(p) \in Snapshot
<1>1. \A c \in Conns : row[c].host \in 0..MaxCalls
  BY DEF TypeInv, Row
<1>2. [c \in Conns |-> IF c \in RowsOf(p) THEN row[c].host ELSE 0] \in [Conns -> 0..MaxCalls]
  BY <1>1, CommittedFact
<1>3. OwnCommitted \in SUBSET Calls
  BY CommittedFact DEF OwnCommitted
<1> QED
  BY <1>2, <1>3 DEF Found, Snapshot

\* The answers of some projects make one snapshot.
LEMMA JoinedFact == ASSUME NEW got \in Got PROVE Joined(got) \in Snapshot
<1> DEFINE Has(c) == \E p \in DOMAIN got : got[p].host[c] # 0
           pick(c) == CHOOSE p \in DOMAIN got : got[p].host[c] # 0
           h == [c \in Conns |-> IF Has(c) THEN got[pick(c)].host[c] ELSE 0]
           se == {k \in Calls : call[k].project \in DOMAIN got /\ k \in got[call[k].project].seen}
<1>1. \A p \in DOMAIN got : got[p] \in Snapshot
  BY DEF Got
<1>2. ASSUME NEW c \in Conns PROVE (IF Has(c) THEN got[pick(c)].host[c] ELSE 0) \in 0..MaxCalls
  <2>1. CASE Has(c)
    <3>1. pick(c) \in DOMAIN got
      BY <2>1
    <3>2. got[pick(c)] \in Snapshot
      BY <1>1, <3>1
    <3>3. got[pick(c)].host[c] \in 0..MaxCalls
      BY <3>2 DEF Snapshot
    <3> QED
      BY <2>1, <3>3
  <2>2. CASE ~Has(c)
    BY <2>2, CommittedFact
  <2> QED
    BY <2>1, <2>2
<1> HIDE DEF Has, pick
<1>3. h \in [Conns -> 0..MaxCalls]
  BY <1>2
<1>4. se \in SUBSET Calls
  OBVIOUS
<1>5. Joined(got) = [host |-> h, seen |-> se]
  BY DEF Joined, Has, pick
<1> HIDE DEF h, se
<1> QED
  BY <1>3, <1>4, <1>5 DEF Snapshot

Caches(C) == C \in [Keys -> Query] /\ \A key \in Keys : DOMAIN C[key].got \subseteq Parts(key)

\* The type invariant, with that of the lists by its name.
LEMMA TypeParts == TypeInv <=> /\ live \subseteq Projects /\ racing \subseteq Calls
                               /\ row \in [Conns -> Row] /\ call \in [Calls -> CallRecord]
                               /\ Caches(cache)
                               /\ page \in Keys \cup {"none"}
                               /\ form \in [conn : 0..MaxCalls, host : 0..MaxCalls, pending : 0..MaxCalls]
                               /\ aim \in [Calls -> SUBSET Keys] /\ here \subseteq Calls
  BY DEF TypeInv, Caches

\* One list changes to a query whose answers are of its projects.
LEMMA CacheStep ==
  ASSUME Caches(cache), NEW key \in Keys, NEW q \in Query, DOMAIN q.got \subseteq Parts(key),
         cache' = [cache EXCEPT ![key] = q]
  PROVE  Caches(cache')
<1>1. /\ cache' \in [Keys -> Query] /\ cache'[key] = q
      /\ \A x \in Keys : x # key => cache'[x] = cache[x]
  BY DEF Caches
<1>2. ASSUME NEW x \in Keys PROVE DOMAIN cache'[x].got \subseteq Parts(x)
  BY <1>1 DEF Caches
<1> QED
  BY <1>1, <1>2 DEF Caches

\* One list changes to a query that has no answers.
LEMMA CacheEmptied ==
  ASSUME Caches(cache), NEW key \in Keys, NEW q \in Query, q.got = [p \in {} |-> Nothing],
         cache' = [cache EXCEPT ![key] = q]
  PROVE  Caches(cache')
<1>1. DOMAIN q.got \subseteq Parts(key)
  BY NothingFact
<1> QED
  BY <1>1, CacheStep

\* A page that is opened leaves a cache.
LEMMA VisitCache == ASSUME TypeInv, NEW key \in Keys, Visit(key) PROVE Caches(cache')
<1>1. Caches(cache) /\ cache[key] \in Query
  BY TypeParts DEF Caches
<1>2. CASE cache[key].fresh \/ cache[key].busy
  BY <1>1, <1>2 DEF Visit
<1>3. CASE ~(cache[key].fresh \/ cache[key].busy)
  <2>1. cache' = [cache EXCEPT ![key] = Fetching(cache[key])]
    BY <1>3 DEF Visit
  <2> DEFINE q == Fetching(cache[key])
  <2>2. q \in Query /\ q.got = [p \in {} |-> Nothing]
    BY <1>1, FetchingFact
  <2>3. cache' = [cache EXCEPT ![key] = q]
    BY <2>1
  <2> HIDE DEF q
  <2> QED
    BY <1>1, <2>2, <2>3, CacheEmptied
<1> QED
  BY <1>2, <1>3

\* An invalidation leaves a cache.
LEMMA InvalidateCache == ASSUME TypeInv, NEW keys, Invalidate(keys) PROVE Caches(cache')
<1>1. cache' = [key \in Keys |-> IF key \in keys THEN Invalidated(key, cache[key]) ELSE cache[key]]
  BY DEF Invalidate
<1>2. ASSUME NEW key \in Keys
      PROVE  /\ (IF key \in keys THEN Invalidated(key, cache[key]) ELSE cache[key]) \in Query
             /\ DOMAIN (IF key \in keys THEN Invalidated(key, cache[key]) ELSE cache[key]).got \subseteq Parts(key)
  <2>1. cache[key] \in Query /\ DOMAIN cache[key].got \subseteq Parts(key)
    BY DEF TypeInv
  <2>2. CASE key \in keys
    <3> DEFINE i == Invalidated(key, cache[key])
    <3>1. i \in Query /\ (i.got = cache[key].got \/ i.got = [p \in {} |-> Nothing])
      BY <2>1, InvalidatedFact
    <3>2. DOMAIN i.got \subseteq Parts(key)
      BY <2>1, <3>1, NothingFact
    <3> QED
      BY <2>2, <3>1, <3>2
  <2>3. CASE key \notin keys
    BY <2>1, <2>3
  <2> QED
    BY <2>2, <2>3
<1> DEFINE F(key) == IF key \in keys THEN Invalidated(key, cache[key]) ELSE cache[key]
<1>3. cache' = [key \in Keys |-> F(key)] /\ \A key \in Keys : F(key) \in Query /\ DOMAIN F(key).got \subseteq Parts(key)
  BY <1>1, <1>2
<1> HIDE DEF F
<1>4. \A key \in Keys : cache'[key] = F(key)
  BY <1>3
<1> QED
  BY <1>3, <1>4 DEF Caches

\* What a served part leaves: the answers so far and one more.
Served(key, p, found) ==
    cache' = [cache EXCEPT ![key].got = [x \in DOMAIN @ \cup {p} |-> IF x = p THEN found ELSE @[x]]]

\* Served changes one list, by one answer.
LEMMA ServedFact ==
  ASSUME TypeInv, NEW key \in Keys, NEW p \in Parts(key), NEW found \in Snapshot, Served(key, p, found)
  PROVE  /\ Caches(cache')
         /\ \A x \in Keys : x # key => cache'[x] = cache[x]
         /\ cache'[key].got[p] = found /\ cache'[key].busy = cache[key].busy /\ cache'[key].data = cache[key].data
         /\ cache'[key].fresh = cache[key].fresh /\ cache'[key].missed = cache[key].missed
         /\ DOMAIN cache'[key].got = DOMAIN cache[key].got \cup {p}
         /\ \A x \in DOMAIN cache[key].got : x # p => cache'[key].got[x] = cache[key].got[x]
<1> DEFINE D == DOMAIN cache[key].got
           g == [x \in D \cup {p} |-> IF x = p THEN found ELSE cache[key].got[x]]
           q == [cache[key] EXCEPT !.got = g]
<1>1. cache[key] \in Query /\ D \subseteq Parts(key) /\ Parts(key) \subseteq Projects /\ cache \in [Keys -> Query]
  BY DEF TypeInv, Parts, Keys
<1>2. \A x \in D : cache[key].got[x] \in Snapshot
  BY <1>1 DEF Query
<1>3. g \in [D \cup {p} -> Snapshot] /\ D \cup {p} \in SUBSET Projects
  BY <1>1, <1>2
<1>4. g \in Got
  BY <1>3 DEF Got
<1>5. cache' = [cache EXCEPT ![key] = q]
  BY <1>1 DEF Served
<1>6. DOMAIN g = D \cup {p} /\ g[p] = found /\ \A x \in D : x # p => g[x] = cache[key].got[x]
  OBVIOUS
<1> HIDE DEF g
<1>7. q \in Query /\ q.got = g /\ q.busy = cache[key].busy /\ q.data = cache[key].data /\ q.fresh = cache[key].fresh
      /\ q.missed = cache[key].missed
  BY <1>1, <1>4, QueryIs
<1> HIDE DEF q
<1>8. DOMAIN q.got \subseteq Parts(key)
  BY <1>1, <1>6, <1>7
<1>9. Caches(cache) /\ cache'[key] = q /\ \A x \in Keys : x # key => cache'[x] = cache[x]
  BY <1>1, <1>5, TypeParts
<1>10. Caches(cache')
  BY <1>5, <1>7, <1>8, <1>9, CacheStep
<1> QED
  BY <1>6, <1>7, <1>9, <1>10

\* ServeList is Served, by what the table has or, for all projects, by nothing.
LEMMA ServeFact == ASSUME TypeInv, NEW key \in Keys, NEW p \in Parts(key), ServeList(key, p)
                   PROVE  \E found \in Snapshot : Served(key, p, found) /\ (key # "all" => found = Found(p))
                                                  /\ p \notin DOMAIN cache[key].got
<1>1. Found(p) \in Snapshot
  BY FoundFact
<1>2. [Nothing EXCEPT !.seen = OwnCommitted] \in Snapshot
  <2>1. OwnCommitted \in SUBSET Calls
    BY CommittedFact DEF OwnCommitted
  <2> QED
    BY <2>1, NothingFact DEF Snapshot
<1>3. PICK found \in {Found(p)} \cup (IF key = "all" THEN {[Nothing EXCEPT !.seen = OwnCommitted]} ELSE {}) :
            cache' = [cache EXCEPT ![key].got = [x \in DOMAIN @ \cup {p} |-> IF x = p THEN found ELSE @[x]]]
  BY DEF ServeList
<1>4. found \in Snapshot /\ (key # "all" => found = Found(p))
  BY <1>1, <1>2, <1>3
<1>5. Served(key, p, found)
  BY <1>3 DEF Served
<1>6. p \notin DOMAIN cache[key].got
  BY DEF ServeList
<1> QED
  BY <1>4, <1>5, <1>6

\* What an answer that arrives leaves.
LEMMA ReceiveFact ==
  ASSUME TypeInv, NEW key \in Keys, Receive(key)
  PROVE  /\ Caches(cache') /\ \A x \in Keys : x # key => cache'[x] = cache[x]
         /\ cache'[key].data = Joined(cache[key].got) /\ cache'[key].busy = FALSE /\ cache'[key].missed = cache[key].missed
<1> DEFINE d == Joined(cache[key].got)
           i == Idle(cache[key])
           q == [i EXCEPT !.loaded = TRUE, !.fresh = TRUE, !.data = d]
<1>1. cache[key] \in Query /\ cache \in [Keys -> Query]
  BY DEF TypeInv
<1>2. d \in Snapshot
  BY <1>1, QueryIs, JoinedFact
<1>3. i \in Query /\ i.got = [p \in {} |-> Nothing] /\ i.busy = FALSE /\ i.missed = cache[key].missed
  BY <1>1, IdleFact
<1>4. cache' = [cache EXCEPT ![key] = q]
  BY DEF Receive
<1> HIDE DEF d, i
<1>5. q \in Query /\ q.got = i.got /\ q.data = d /\ q.busy = i.busy /\ q.missed = i.missed
  BY <1>2, <1>3, QueryIs
<1> HIDE DEF q
<1>6. Caches(cache) /\ cache'[key] = q /\ \A x \in Keys : x # key => cache'[x] = cache[x]
  BY <1>1, <1>4, TypeParts
<1>7. Caches(cache')
  BY <1>3, <1>4, <1>5, <1>6, CacheEmptied
<1> QED
  BY <1>3, <1>5, <1>6, <1>7 DEF d

\* What a failed list request leaves.
LEMMA ErrorFact ==
  ASSUME TypeInv, NEW key \in Keys, ReceiveError(key)
  PROVE  /\ Caches(cache') /\ \A x \in Keys : x # key => cache'[x] = cache[x]
         /\ cache'[key].data = cache[key].data /\ cache'[key].busy = FALSE
         /\ cache'[key].fresh = cache[key].fresh /\ cache'[key].missed = cache[key].missed
<1> DEFINE i == Idle(cache[key])
<1>1. cache[key] \in Query /\ cache \in [Keys -> Query]
  BY DEF TypeInv
<1>2. /\ i \in Query /\ i.got = [p \in {} |-> Nothing] /\ i.busy = FALSE /\ i.missed = cache[key].missed
      /\ i.data = cache[key].data /\ i.fresh = cache[key].fresh
  BY <1>1, IdleFact
<1>3. cache' = [cache EXCEPT ![key] = i]
  BY DEF ReceiveError
<1> HIDE DEF i
<1>4. Caches(cache) /\ cache'[key] = i /\ \A x \in Keys : x # key => cache'[x] = cache[x]
  BY <1>1, <1>3, TypeParts
<1>5. Caches(cache')
  BY <1>2, <1>3, <1>4, CacheEmptied
<1> QED
  BY <1>2, <1>4, <1>5

Aimed == \A k \in Calls :
    /\ call[k].op = "none" => call[k].step \in {"free", "refused"}
    /\ call[k].op = "create" => call[k].conn = k
    /\ call[k].op \in {"update", "delete"} =>
         /\ call[k].conn \in Conns
         /\ call[k].step \notin {"sent", "refused"} => row[call[k].conn].state # "free"

\* One row of the table becomes r.
OneRow(c, r) == /\ row' \in [Conns -> Row] /\ row'[c] = r
                /\ \A x \in Conns : x # c => row'[x] = row[x]

\* The free row and the deleted one are rows.
LEMMA RowsFact == FreeRow \in Row /\ GoneRow \in Row /\ GoneRow.state = "gone" /\ FreeRow.state = "free"
<1>1. "none" \in Projects \cup {"none"} /\ 0 \in 0..MaxCalls /\ "gone" \in {"free", "live", "gone"}
      /\ "free" \in {"free", "live", "gone"}
  BY CommittedFact
<1>2. FreeRow \in Row /\ FreeRow.state = "free"
  BY <1>1 DEF FreeRow, Row
<1>3. GoneRow \in Row /\ GoneRow.state = "gone"
  BY <1>1, <1>2 DEF GoneRow, Row
<1> QED
  BY <1>2, <1>3

\* Insert puts the row of its request into the table.
LEMMA InsertFact == ASSUME TypeInv, NEW k \in Calls, Insert(k)
                    PROVE  /\ OneRow(k, [state |-> "live", project |-> call[k].project, host |-> k, password |-> k])
                           /\ row'[k].state = "live" /\ row'[k].project = call[k].project /\ row'[k].password = k
                           /\ \A x \in Conns : x # k => row'[x] = row[x]
                           /\ Further(k, "ok", call[k].seen)
<1> DEFINE r == [state |-> "live", project |-> call[k].project, host |-> k, password |-> k]
<1>0. r.state = "live" /\ r.project = call[k].project /\ r.password = k
  OBVIOUS
<1>1. r \in Row
  <2>1. call[k].project \in Projects \cup {"none"} /\ k \in 0..MaxCalls
    BY CommittedFact DEF TypeInv, CallRecord
  <2> QED
    BY <2>1 DEF Row
<1>2. row' = [row EXCEPT ![k] = r] /\ k \in Conns
  BY CommittedFact DEF Insert
<1> HIDE DEF r
<1>3. OneRow(k, r)
  BY <1>1, <1>2 DEF OneRow, TypeInv
<1>4. Further(k, "ok", call[k].seen)
  BY CarriedFact DEF Insert
<1>5. row'[k] = r /\ \A x \in Conns : x # k => row'[x] = row[x]
  BY <1>3 DEF OneRow
<1>6. row'[k].state = "live" /\ row'[k].project = call[k].project /\ row'[k].password = k
  BY <1>0, <1>5
<1> QED
  BY <1>3, <1>4, <1>5, <1>6 DEF r

\* Save writes the row that is still there, or is turned down.
LEMMA SaveFact ==
  ASSUME TypeInv, NEW k \in Calls, Save(k), call[k].conn \in Conns
  PROVE  \/ /\ row[call[k].conn].state = "live"
            /\ Further(k, "ok", call[k].seen)
            /\ OneRow(call[k].conn, [row[call[k].conn] EXCEPT !.host = call[k].host, !.password = Password(k)])
         \/ row' = row /\ Turned(k)
<1>1. CASE row[call[k].conn].state = "live"
  <2> DEFINE c == call[k].conn
             w == Password(k)
             r == [row[c] EXCEPT !.host = call[k].host, !.password = w]
  <2>1. row[c] \in Row /\ call[k].host \in 0..MaxCalls /\ row \in [Conns -> Row]
    BY DEF TypeInv, CallRecord
  <2>2. w \in 0..MaxCalls
    BY CommittedFact DEF TypeInv, CallRecord, Password
  <2>3. row' = [row EXCEPT ![c].host = call[k].host, ![c].password = w] /\ Carried(k)
    BY <1>1 DEF Save, SaveRow
  <2> HIDE DEF w
  <2>4. r \in Row
    BY <2>1, <2>2 DEF Row
  <2>5. row' = [row EXCEPT ![c] = r]
    BY <2>1, <2>3 DEF Row
  <2> HIDE DEF r
  <2>6. OneRow(c, r)
    BY <2>1, <2>4, <2>5 DEF OneRow
  <2>7. Further(k, "ok", call[k].seen)
    BY <2>3, CarriedFact
  <2> QED
    BY <1>1, <2>6, <2>7 DEF r, w
<1>2. CASE row[call[k].conn].state # "live"
  BY <1>2 DEF Save, SaveRow
<1> QED
  BY <1>1, <1>2

\* DeleteRow leaves its row deleted.
LEMMA DeleteFact == ASSUME TypeInv, NEW k \in Calls, DeleteRow(k), call[k].conn \in Conns
                    PROVE  OneRow(call[k].conn, GoneRow) /\ Further(k, "ok", call[k].seen)
<1> DEFINE r == GoneRow
<1>1. row' = [row EXCEPT ![call[k].conn] = r] /\ Carried(k)
  BY DEF DeleteRow
<1>2. r \in Row
  BY RowsFact
<1> HIDE DEF r
<1>3. OneRow(call[k].conn, r)
  BY <1>1, <1>2 DEF OneRow, TypeInv
<1>4. Further(k, "ok", call[k].seen)
  BY <1>1, CarriedFact
<1> QED
  BY <1>3, <1>4 DEF r

\* DeleteProject deletes the rows of the project and no other.
LEMMA CascadeFact == ASSUME TypeInv, NEW p, Cascade(p)
                     PROVE  /\ row' \in [Conns -> Row]
                            /\ \A c \in Conns : IF c \in RowsOf(p) THEN row'[c] = GoneRow ELSE row'[c] = row[c]
<1> DEFINE R == RowsOf(p)
           g == GoneRow
<1>1. row' = [c \in Conns |-> IF c \in R THEN g ELSE row[c]] /\ g \in Row
  BY RowsFact DEF Cascade
<1> HIDE DEF R, g
<1>2. row' \in [Conns -> Row] /\ \A c \in Conns : IF c \in R THEN row'[c] = g ELSE row'[c] = row[c]
  BY <1>1 DEF TypeInv
<1> QED
  BY <1>2 DEF R, g

\* What a request that is sent does to the aims: it may get one of its own.
AimedNew(k) == /\ aim' \in [Calls -> SUBSET Keys] /\ here' \subseteq Calls /\ here' \subseteq here \cup {k}
               /\ \A j \in Calls : j # k => aim'[j] = aim[j]

\* The aim of a request that is sent.
LEMMA AimsFact == ASSUME TypeInv, NEW k \in Calls, NEW keys \in SUBSET Keys, Aims(k, keys),
                         here' = here \/ here' = here \cup {k}
                  PROVE  AimedNew(k)
  BY DEF TypeInv, Aims, AimedNew

\* Every request that is sent does no more to the aims.
LEMMA SubmitAims ==
  ASSUME TypeInv, NEW k \in Calls,
         \/ SubmitOther(k) \/ \E p \in Projects : SubmitCreate(k, p)
         \/ \E typed \in BOOLEAN : SubmitEdit(k, typed)
         \/ \E c \in Conns : SubmitDelete(k, c)
  PROVE  AimedNew(k)
<1>1. CASE SubmitOther(k)
  BY <1>1 DEF SubmitOther, AimedNew, TypeInv
<1>2. ASSUME NEW p \in Projects, SubmitCreate(k, p) PROVE AimedNew(k)
  <2>1. {p} \in SUBSET Keys
    BY DEF Keys
  <2> QED
    BY <1>2, <2>1, AimsFact DEF SubmitCreate
<1>3. ASSUME NEW typed \in BOOLEAN, SubmitEdit(k, typed) PROVE AimedNew(k)
  <2>1. Aims(k, Keys) /\ here' = here
    BY <1>3 DEF SubmitEdit
  <2> QED
    BY <2>1, AimsFact
<1>4. ASSUME NEW c \in Conns, SubmitDelete(k, c) PROVE AimedNew(k)
  <2>1. CASE page = "all"
    <3>1. Aims(k, Keys) /\ here' = here
      BY <1>4, <2>1 DEF SubmitDelete
    <3> QED
      BY <3>1, AimsFact
  <2>2. CASE page # "all"
    <3>1. Aims(k, {page}) /\ here' = here \cup {k}
      BY <1>4, <2>2 DEF SubmitDelete
    <3>2. {page} \in SUBSET Keys
      BY <1>4 DEF SubmitDelete, Shown, TypeInv
    <3> QED
      BY <3>1, <3>2, AimsFact
  <2> QED
    BY <2>1, <2>2
<1> QED
  BY <1>1, <1>2, <1>3, <1>4

\* What a change of page or of filter does to the aims.
Followed(p) == /\ aim' \in [Calls -> SUBSET Keys] /\ here' \subseteq here
               /\ \A j \in Calls : j \notin here => aim'[j] = aim[j]

\* Only the requests that follow the page have another aim.
LEMMA FollowFact == ASSUME TypeInv, NEW p \in Keys, NEW S \in SUBSET here, Follow(S, p) PROVE Followed(p)
  BY DEF TypeInv, Follow, Followed

\* The page that is opened.
LEMMA VisitAims == ASSUME TypeInv, NEW key \in Keys, Visit(key) PROVE Followed(key)
<1>1. PICK S \in Followers(key) : Follow(S, key)
  BY DEF Visit
<1>2. S \in SUBSET here
  BY DEF Followers
<1> QED
  BY <1>1, <1>2, FollowFact

\* The filter.
LEMMA SelectAims == ASSUME TypeInv, NEW p \in Projects, SelectProject(p) PROVE Followed(p)
  BY FollowFact DEF SelectProject, Keys

\* The request that each kind of click sends.
LEMMA SubmitFact ==
  ASSUME TypeInv, NEW k \in Calls,
         \/ SubmitOther(k) \/ \E p \in Projects : SubmitCreate(k, p)
         \/ \E typed \in BOOLEAN : SubmitEdit(k, typed)
         \/ \E c \in Conns : SubmitDelete(k, c)
  PROVE  /\ call[k].step = "free" /\ Blanked(k, "sent") /\ call'[k].op \in {"create", "update", "delete"}
         /\ call'[k].op = "create" => call'[k].conn = k
         /\ call'[k].op # "create" => call'[k].conn \in Conns
         /\ UNCHANGED <<live, racing, row, cache, page>>
<1>0. k \in 0..MaxCalls /\ Conns \subseteq 0..MaxCalls /\ 0 \in 0..MaxCalls /\ "me" \in {"me", "other"} /\ "other" \in {"me", "other"}
      /\ \A c \in Conns : row[c].project \in Projects \cup {"none"}
      /\ "create" \in {"create", "update", "delete"} /\ "update" \in {"create", "update", "delete"}
      /\ "delete" \in {"create", "update", "delete"} /\ TRUE \in BOOLEAN /\ FALSE \in BOOLEAN
  BY CommittedFact DEF TypeInv, Row
<1>1. CASE \E p \in Projects : SubmitCreate(k, p)
  <2>1. PICK p \in Projects : SubmitCreate(k, p)
    BY <1>1
  <2>2. Sent(k, "me", "create", k, p, k, TRUE) /\ p \in Projects \cup {"none"}
    BY <2>1 DEF SubmitCreate
  <2>3. Blanked(k, "sent") /\ call'[k].op = "create" /\ call'[k].conn = k
    BY <1>0, <2>2, SentFact
  <2> QED
    BY <2>1, <2>2, <2>3 DEF SubmitCreate, Sent, Unsent
<1>2. CASE \E typed \in BOOLEAN : SubmitEdit(k, typed)
  <2>1. PICK typed \in BOOLEAN : SubmitEdit(k, typed)
    BY <1>2
  <2>2. form.conn \in Conns /\ form.host \in 0..MaxCalls
    BY <2>1, ConnectionsAssumption DEF SubmitEdit, TypeInv, Conns, Calls
  <2> DEFINE c == form.conn
             p == row[c].project
  <2>3. PICK h \in {form.host, k} : Sent(k, "me", "update", c, p, h, typed)
    BY <2>1 DEF SubmitEdit
  <2>4. h \in 0..MaxCalls /\ c \in 0..MaxCalls /\ p \in Projects \cup {"none"}
    BY <1>0, <2>2, <2>3
  <2> HIDE DEF c, p
  <2>5. Blanked(k, "sent") /\ call'[k].op = "update" /\ call'[k].conn = c
    BY <1>0, <2>3, <2>4, SentFact
  <2> QED
    BY <2>1, <2>2, <2>3, <2>5 DEF SubmitEdit, Sent, Unsent, c
<1>3. CASE \E c \in Conns : SubmitDelete(k, c)
  <2>1. PICK c \in Conns : SubmitDelete(k, c)
    BY <1>3
  <2>2. Sent(k, "me", "delete", c, row[c].project, 0, FALSE)
    BY <2>1 DEF SubmitDelete
  <2>3. Blanked(k, "sent") /\ call'[k].op = "delete" /\ call'[k].conn = c
    BY <1>0, <2>2, SentFact
  <2> QED
    BY <2>1, <2>2, <2>3 DEF SubmitDelete, Sent, Unsent
<1>4. CASE SubmitOther(k)
  <2>0. UNCHANGED <<live, racing, row, cache, page>> /\ live \subseteq Projects \cup {"none"}
    BY <1>4 DEF SubmitOther, TypeInv
  <2>1. CASE \E p \in live : Sent(k, "other", "create", k, p, k, TRUE)
    <3>1. PICK p \in live : Sent(k, "other", "create", k, p, k, TRUE)
      BY <2>1
    <3>2. Blanked(k, "sent") /\ call'[k].op = "create" /\ call'[k].conn = k
      BY <1>0, <2>0, <3>1, SentFact
    <3> QED
      BY <2>0, <3>1, <3>2 DEF Sent, Unsent
  <2>2. CASE \E c \in Conns, typed \in BOOLEAN : Sent(k, "other", "update", c, row[c].project, k, typed)
    <3>1. PICK c \in Conns, typed \in BOOLEAN : Sent(k, "other", "update", c, row[c].project, k, typed)
      BY <2>2
    <3>2. Blanked(k, "sent") /\ call'[k].op = "update" /\ call'[k].conn = c
      BY <1>0, <3>1, SentFact
    <3> QED
      BY <2>0, <3>1, <3>2 DEF Sent, Unsent
  <2>3. CASE \E c \in Conns : Sent(k, "other", "delete", c, row[c].project, 0, FALSE)
    <3>1. PICK c \in Conns : Sent(k, "other", "delete", c, row[c].project, 0, FALSE)
      BY <2>3
    <3>2. Blanked(k, "sent") /\ call'[k].op = "delete" /\ call'[k].conn = c
      BY <1>0, <3>1, SentFact
    <3> QED
      BY <2>0, <3>1, <3>2 DEF Sent, Unsent
  <2> QED
    BY <1>4, <2>1, <2>2, <2>3 DEF SubmitOther
<1> QED
  BY <1>1, <1>2, <1>3, <1>4

\* The one connection that there is, and the request that made it.
LEMMA InitFact ==
  ASSUME Init
  PROVE  /\ call \in [Calls -> CallRecord] /\ row \in [Conns -> Row] /\ 1 \in Calls
         /\ call[1].by = "other" /\ call[1].op = "create" /\ call[1].step = "ok" /\ call[1].conn = 1
         /\ call[1].typed = TRUE /\ call[1].seen = {} /\ call[1].project = row[1].project
         /\ \A k \in Calls : k # 1 => call[k] = Unused
         /\ row[1].state = "live" /\ row[1].password = 1 /\ row[1].project \in Projects
         /\ \A c \in Conns : c # 1 => row[c].state = "free"
<1>1. 1 \in Calls /\ 1 \in Conns /\ 1 \in 0..MaxCalls /\ 0 \in 0..MaxCalls
  BY ConnectionsAssumption DEF Calls, Conns
<1>2. PICK p \in Projects :
              /\ row = [c \in Conns |-> IF c = 1 THEN [state |-> "live", project |-> p, host |-> 1, password |-> 1]
                                        ELSE FreeRow]
              /\ call = [k \in Calls |-> IF k = 1
                                         THEN [Unused EXCEPT !.by = "other", !.op = "create", !.step = "ok",
                                                             !.project = p, !.conn = 1, !.typed = TRUE]
                                         ELSE Unused]
  BY DEF Init
<1> DEFINE r == [state |-> "live", project |-> p, host |-> 1, password |-> 1]
           f == FreeRow
           u == Unused
           q == [u EXCEPT !.by = "other", !.op = "create", !.step = "ok", !.project = p, !.conn = 1, !.typed = TRUE]
<1>3. r \in Row /\ f \in Row /\ f.state = "free"
  BY <1>1, RowsFact DEF Row
<1>4. row = [c \in Conns |-> IF c = 1 THEN r ELSE f]
  BY <1>2
<1>5. call = [k \in Calls |-> IF k = 1 THEN q ELSE u]
  BY <1>2
<1>6. u \in CallRecord /\ u.seen = {}
  BY UnusedFact DEF Unused
<1>7. "other" \in {"none", "me", "other"} /\ "create" \in {"none", "create", "update", "delete"}
      /\ "ok" \in {"free", "sent", "checked", "ok", "refused", "lost", "done"} /\ p \in Projects \cup {"none"} /\ TRUE \in BOOLEAN
  OBVIOUS
<1> HIDE DEF u, f
<1>8. q \in CallRecord
  BY <1>1, <1>6, <1>7 DEF CallRecord
<1>9. q.by = "other" /\ q.op = "create" /\ q.step = "ok" /\ q.project = p /\ q.conn = 1 /\ q.typed = TRUE /\ q.seen = {}
  BY <1>6 DEF CallRecord
<1>10. r.state = "live" /\ r.password = 1 /\ r.project = p
  OBVIOUS
<1> HIDE DEF q, r
<1>11. call \in [Calls -> CallRecord] /\ call[1] = q /\ \A k \in Calls : k # 1 => call[k] = u
  BY <1>1, <1>5, <1>6, <1>8
<1>12. row \in [Conns -> Row] /\ row[1] = r /\ \A c \in Conns : c # 1 => row[c] = f
  BY <1>1, <1>3, <1>4
<1> QED
  BY <1>1, <1>3, <1>9, <1>10, <1>11, <1>12 DEF u

\* The types hold in the beginning.
LEMMA TypeInit == Init => TypeInv
<1> SUFFICES ASSUME Init PROVE TypeInv
  OBVIOUS
<1>1. row \in [Conns -> Row] /\ call \in [Calls -> CallRecord]
  BY InitFact
<1>2. live \subseteq Projects /\ racing \subseteq Calls /\ page \in Keys \cup {"none"}
      /\ aim \in [Calls -> SUBSET Keys] /\ here \subseteq Calls
      /\ form \in [conn : 0..MaxCalls, host : 0..MaxCalls, pending : 0..MaxCalls]
  BY CommittedFact DEF Init
<1>3. Caches(cache)
  <2> DEFINE u == Unloaded
  <2>1. u \in Query
    BY NothingFact, QueryIs DEF Unloaded
  <2>2. u.got = [p \in {} |-> Nothing]
    BY DEF Unloaded
  <2>3. cache = [key \in Keys |-> u]
    BY DEF Init
  <2> HIDE DEF u
  <2>4. cache \in [Keys -> Query] /\ \A key \in Keys : cache[key].got = [p \in {} |-> Nothing]
    BY <2>1, <2>2, <2>3
  <2>5. \A key \in Keys : DOMAIN cache[key].got = {}
    BY <2>4, NothingFact
  <2> QED
    BY <2>4, <2>5 DEF Caches
<1> QED
  BY <1>1, <1>2, <1>3, TypeParts

\* The type invariant of the module follows.
LEMMA TypeSound == TypeInv => TypeOK
<1> SUFFICES ASSUME TypeInv PROVE TypeOK
  OBVIOUS
<1>1. \A k \in Calls : call[k] \in CallRecord
  BY DEF TypeInv
<1>2. ASSUME NEW key \in Keys
      PROVE  /\ cache[key].data \in Snapshot
             /\ DOMAIN cache[key].got \subseteq Parts(key)
             /\ \A p \in DOMAIN cache[key].got : cache[key].got[p] \in Snapshot
  BY DEF TypeInv, Query
<1> QED
  BY <1>1, <1>2 DEF TypeOK, TypeInv, CallRecord

\* The types of a step of the handlers, of the requests, and of the lists.
LEMMA TypeHandle == ASSUME TypeInv, Aimed, NEW k \in Calls, Handle(k) \/ LoseAnswer(k) PROVE TypeInv'
<1> USE DEF Server
<1>0. Caches(cache) /\ (call[k].op \in {"update", "delete"} => call[k].conn \in Conns)
  BY TypeParts DEF Aimed
<1>1. row' \in [Conns -> Row] /\ call' \in [Calls -> CallRecord] /\ Server(k)
  <2>1. CASE CheckCreate(k)
    BY <2>1, GoesFact DEF CheckCreate, TypeInv, Further
  <2>2. CASE Insert(k)
    BY <2>2, InsertFact DEF Insert, OneRow, Further
  <2>3. CASE ReadRow(k)
    BY <1>0, <2>3, ReadFact DEF ReadRow, TypeInv, Further
  <2>4. CASE Save(k)
    <3>1. call[k].conn \in Conns
      BY <1>0, <2>4 DEF Save
    <3>2. row' \in [Conns -> Row] /\ call' \in [Calls -> CallRecord]
      BY <2>4, <3>1, SaveFact, TurnedFact DEF OneRow, Further, TypeInv, Blanked
    <3> QED
      BY <2>4, <3>2 DEF Save
  <2>5. CASE DeleteRow(k)
    BY <1>0, <2>5, DeleteFact DEF DeleteRow, OneRow, Further
  <2>6. CASE Refuse(k)
    BY <2>6, TurnedFact DEF Refuse, TypeInv, Blanked
  <2>7. CASE LoseAnswer(k)
    BY <2>7, EndFact DEF LoseAnswer, TypeInv, Further
  <2> QED
    BY <2>1, <2>2, <2>3, <2>4, <2>5, <2>6, <2>7 DEF Handle
<1> QED
  BY <1>1 DEF TypeInv

\* The types of a step that sends a request.
LEMMA TypeSubmit ==
  ASSUME TypeInv, NEW k \in Calls,
         \/ SubmitOther(k) \/ \E p \in Projects : SubmitCreate(k, p)
         \/ \E typed \in BOOLEAN : SubmitEdit(k, typed)
         \/ \E c \in Conns : SubmitDelete(k, c)
  PROVE  TypeInv'
<1>1. Blanked(k, "sent") /\ UNCHANGED <<live, racing, row, cache, page>>
  BY SubmitFact
<1>3. aim' \in [Calls -> SUBSET Keys] /\ here' \subseteq Calls
  BY SubmitAims DEF AimedNew
<1>2. form' \in [conn : 0..MaxCalls, host : 0..MaxCalls, pending : 0..MaxCalls]
  <2>1. form \in [conn : 0..MaxCalls, host : 0..MaxCalls, pending : 0..MaxCalls] /\ k \in 0..MaxCalls
    BY CommittedFact DEF TypeInv
  <2>2. form' = form \/ form' = [form EXCEPT !.pending = k]
    BY DEF SubmitOther, SubmitCreate, SubmitEdit, SubmitDelete
  <2> QED
    BY <2>1, <2>2
<1> QED
  BY <1>1, <1>2, <1>3 DEF TypeInv, Blanked

\* The types of a step of a list.
LEMMA TypeBrowser ==
  ASSUME TypeInv, NEW key \in Keys,
         Visit(key) \/ Receive(key) \/ ReceiveError(key) \/ \E p \in Parts(key) : ServeList(key, p)
  PROVE  TypeInv'
<1> DEFINE F == [conn : 0..MaxCalls, host : 0..MaxCalls, pending : 0..MaxCalls]
<1>0. [conn |-> 0, host |-> 0, pending |-> 0] \in F /\ form \in F
  BY CommittedFact DEF TypeInv
<1>1. /\ Caches(cache') /\ page' \in Keys \cup {"none"} /\ form' \in F
      /\ UNCHANGED <<live, racing, row, call>> /\ aim' \in [Calls -> SUBSET Keys] /\ here' \subseteq Calls
  <2>1. CASE Visit(key)
    BY <1>0, <2>1, VisitCache, VisitAims DEF Visit, Followed, TypeInv
  <2>2. CASE Receive(key)
    BY <1>0, <2>2, ReceiveFact DEF Receive, Kept, TypeInv
  <2>3. CASE ReceiveError(key)
    BY <1>0, <2>3, ErrorFact DEF ReceiveError, TypeInv
  <2>4. ASSUME NEW p \in Parts(key), ServeList(key, p)
        PROVE /\ Caches(cache') /\ page' \in Keys \cup {"none"} /\ form' \in F
              /\ UNCHANGED <<live, racing, row, call>> /\ aim' \in [Calls -> SUBSET Keys] /\ here' \subseteq Calls
    <3>1. PICK found \in Snapshot : Served(key, p, found)
      BY <2>4, ServeFact
    <3>2. Caches(cache')
      BY <3>1, ServedFact
    <3> QED
      BY <1>0, <2>4, <3>2 DEF ServeList, TypeInv
  <2> QED
    BY <2>1, <2>2, <2>3, <2>4
<1> QED
  BY <1>1 DEF TypeInv, Caches

\* The types of the other steps.
LEMMA TypeRest ==
  ASSUME TypeInv,
         \/ CloseEdit \/ \E c \in Conns : OpenEdit(c)
         \/ \E k \in Calls : FinishOk(k) \/ FinishError(k)
         \/ \E p \in Projects : DeleteProject(p) \/ SelectProject(p)
         \/ UNCHANGED vars
  PROVE  TypeInv'
<1> DEFINE F == [conn : 0..MaxCalls, host : 0..MaxCalls, pending : 0..MaxCalls]
<1>0. [conn |-> 0, host |-> 0, pending |-> 0] \in F /\ form \in F /\ 0 \in 0..MaxCalls /\ Conns \subseteq 0..MaxCalls
  BY CommittedFact DEF TypeInv
<1>1. CASE CloseEdit
  BY <1>0, <1>1 DEF CloseEdit, TypeInv
<1>2. ASSUME NEW c \in Conns, OpenEdit(c) PROVE TypeInv'
  <2>1. page \in Keys /\ cache[page] \in Query
    BY <1>2 DEF OpenEdit, Shown, TypeInv
  <2>2. cache[page].data.host[c] \in 0..MaxCalls
    BY <2>1 DEF Query, Snapshot
  <2>3. form' \in F
    BY <1>0, <1>2, <2>2 DEF OpenEdit
  <2> QED
    BY <1>2, <2>3 DEF OpenEdit, TypeInv
<1>3. ASSUME NEW k \in Calls, FinishOk(k) PROVE TypeInv'
  <2>1. Further(k, "done", call[k].seen)
    BY <1>3, EndFact DEF FinishOk, Answered
  <2>2. Caches(cache')
    BY <1>3, InvalidateCache DEF FinishOk
  <2>3. form' \in F
    BY <1>0, <1>3 DEF FinishOk
  <2> QED
    BY <1>3, <2>1, <2>2, <2>3 DEF FinishOk, TypeInv, Caches, Further
<1>4. ASSUME NEW k \in Calls, FinishError(k) PROVE TypeInv'
  <2>1. form' \in F
    BY <1>0, <1>4 DEF FinishError
  <2> QED
    BY <1>4, <2>1 DEF FinishError, TypeInv
<1>5. ASSUME NEW p \in Projects, DeleteProject(p) PROVE TypeInv'
  <2>1. row' \in [Conns -> Row]
    BY <1>5, CascadeFact DEF DeleteProject
  <2>2. live' \subseteq Projects /\ racing' \subseteq Calls
    BY <1>5 DEF DeleteProject, TypeInv
  <2> QED
    BY <1>5, <2>1, <2>2 DEF DeleteProject, TypeInv
<1>6. CASE UNCHANGED vars
  BY <1>6 DEF vars, TypeInv
<1>7. ASSUME NEW p \in Projects, SelectProject(p) PROVE TypeInv'
  BY <1>7, SelectAims DEF SelectProject, Followed, TypeInv
<1> QED
  BY <1>1, <1>2, <1>3, <1>4, <1>5, <1>6, <1>7

\* Every step keeps the types, where requests name rows.
LEMMA TypeNext == TypeInv /\ Aimed /\ [Next]_vars => TypeInv'
  BY TypeHandle, TypeSubmit, TypeBrowser, TypeRest DEF Next

\* A row is the work of the one request it is named after.
Made == \A c \in Conns : row[c].state # "free" =>
            /\ c \in Committed /\ call[c].op = "create"
            /\ row[c].state = "live" => row[c].project = call[c].project

\* What a request has found carried out, has been.
Seen == \A k \in Calls : call[k].seen \subseteq Committed

\* Of what a creation has counted there is not more now than there was then.
Room == \A k \in Calls : call[k].op = "create" /\ call[k].step = "checked" =>
            Cardinality(RowsOf(call[k].project) \cap call[k].seen) < MaxConnectionsPerProject

Raced == /\ \A k \in Calls : call[k].op = "create" /\ call[k].step = "checked" /\ call[k].project \notin live
                             => k \in racing
         /\ \A c \in Conns : row[c].state = "live" /\ row[c].project \notin live => c \in racing

\* Another request accounts for the password of k not being the connection's.
Excused(k) == \E j \in Committed : /\ call[j].conn = call[k].conn
                                   /\ (call[j].typed /\ k \in call[j].seen) \/ Overlap(j, k)

\* What an update has read is the password of the last who saved one, or excused.
Reads == \A j \in Calls : call[j].op = "update" /\ call[j].step = "checked" =>
            \A k \in call[j].seen : call[k].typed /\ call[k].conn = call[j].conn /\ k # call[j].read => Excused(k)

TableInv == Aimed /\ Made /\ Seen /\ Room /\ Raced /\ Reads /\ QuotaRaceOnly /\ PasswordKept

\* What no step takes back: a request that was carried out, a row that was used.
Lasting ==
    /\ TypeInv'
    /\ Committed \subseteq Committed'
    /\ \A j \in Committed : /\ call'[j].conn = call[j].conn /\ call'[j].typed = call[j].typed /\ call'[j].op = call[j].op
                            /\ call'[j].seen = call[j].seen /\ call'[j].project = call[j].project
    /\ \A c \in Conns : row[c].state # "free" => row'[c].state # "free"
    /\ \A c \in Committed : row'[c].state = "live" => row[c].state = "live" /\ row'[c].project = row[c].project

\* What excuses an old password goes on to excuse it.
LEMMA ExcusedStays == ASSUME TypeInv, Lasting, NEW k \in Committed, Excused(k) PROVE Excused(k)'
<1>1. PICK j \in Committed : call[j].conn = call[k].conn /\ ((call[j].typed /\ k \in call[j].seen) \/ Overlap(j, k))
  BY DEF Excused
<1>2. j \in Committed' /\ call'[j].conn = call[j].conn /\ call'[j].typed = call[j].typed /\ call'[j].seen = call[j].seen
      /\ call'[k].conn = call[k].conn /\ call'[k].seen = call[k].seen
  BY <1>1 DEF Lasting
<1>3. call'[j].conn = call'[k].conn /\ ((call'[j].typed /\ k \in call'[j].seen) \/ (j # k /\ j \notin call'[k].seen /\ k \notin call'[j].seen))
  BY <1>1, <1>2 DEF Overlap
<1> QED
  BY <1>2, <1>3 DEF Excused, Overlap

\* The rows of a project are finitely many.
LEMMA FiniteFact == /\ IsFiniteSet(Calls) /\ IsFiniteSet(Conns)
                    /\ \A p : RowsOf(p) \subseteq Calls /\ IsFiniteSet(RowsOf(p)) /\ Cardinality(RowsOf(p)) \in Nat
<1>1. IsFiniteSet(Calls)
  BY ConnectionsAssumption, FS_Interval DEF Calls
<1>2. ASSUME NEW p PROVE RowsOf(p) \subseteq Calls /\ IsFiniteSet(RowsOf(p)) /\ Cardinality(RowsOf(p)) \in Nat
  BY <1>1, FS_Subset, FS_CardinalityType DEF RowsOf, Conns
<1> QED
  BY <1>1, <1>2 DEF Conns

\* The rows of a project are finitely many after a step.
LEMMA FiniteNext == \A p : RowsOf(p)' \subseteq Calls /\ IsFiniteSet(RowsOf(p)') /\ Cardinality(RowsOf(p)') \in Nat
<1>1. IsFiniteSet(Calls)
  BY FiniteFact
<1>2. ASSUME NEW p PROVE RowsOf(p)' \subseteq Calls /\ IsFiniteSet(RowsOf(p)') /\ Cardinality(RowsOf(p)') \in Nat
  BY <1>1, FS_Subset, FS_CardinalityType DEF RowsOf, Conns
<1> QED
  BY <1>2

AimedAt(k) ==
    /\ call[k].op = "none" => call[k].step \in {"free", "refused"}
    /\ call[k].op = "create" => call[k].conn = k
    /\ call[k].op \in {"update", "delete"} =>
         /\ call[k].conn \in Conns
         /\ call[k].step \notin {"sent", "refused"} => row[call[k].conn].state # "free"
RoomOf(k) == call[k].op = "create" /\ call[k].step = "checked" =>
                Cardinality(RowsOf(call[k].project) \cap call[k].seen) < MaxConnectionsPerProject
ReadsOf(j) == call[j].op = "update" /\ call[j].step = "checked" =>
            \A k \in call[j].seen : call[k].typed /\ call[k].conn = call[j].conn /\ k # call[j].read => Excused(k)

\* A request that the step leaves as it is.
LEMMA OthersStay ==
  ASSUME TypeInv, TableInv, Lasting, NEW j \in Calls, call'[j] = call[j]
  PROVE  AimedAt(j)' /\ call'[j].seen \subseteq Committed' /\ RoomOf(j)' /\ ReadsOf(j)'
<1>1. AimedAt(j)'
  BY DEF TableInv, Aimed, Lasting, AimedAt, Conns
<1>2. call'[j].seen \subseteq Committed'
  BY DEF TableInv, Seen, Lasting
<1>3. RoomOf(j)'
  <2> SUFFICES ASSUME call[j].op = "create", call[j].step = "checked"
               PROVE  (Cardinality(RowsOf(call[j].project) \cap call[j].seen) < MaxConnectionsPerProject)'
    BY DEF RoomOf
  <2>1. PICK p : p = call[j].project
    OBVIOUS
  <2>2. PICK S : S = call[j].seen
    OBVIOUS
  <2>3. Cardinality(RowsOf(p) \cap S) < MaxConnectionsPerProject
    BY <2>1, <2>2 DEF TableInv, Room
  <2>4. S \subseteq Committed
    BY <2>2 DEF TableInv, Seen
  <2>5. RowsOf(p)' \cap S \subseteq RowsOf(p) \cap S
    BY <2>4 DEF Lasting, RowsOf, Conns
  <2>6. IsFiniteSet(RowsOf(p) \cap S)
    BY FiniteFact, FS_Subset
  <2>7. Cardinality(RowsOf(p)' \cap S) <= Cardinality(RowsOf(p) \cap S) /\ Cardinality(RowsOf(p)' \cap S) \in Nat
        /\ Cardinality(RowsOf(p) \cap S) \in Nat
    BY <2>5, <2>6, FS_Subset, FS_CardinalityType
  <2>8. Cardinality(RowsOf(p)' \cap S) < MaxConnectionsPerProject
    BY <2>3, <2>7, ConnectionsAssumption
  <2>9. call'[j].project = p /\ call'[j].seen = S
    BY <2>1, <2>2
  <2> QED
    BY <2>8, <2>9
<1>4. ReadsOf(j)'
  <2> SUFFICES ASSUME call[j].op = "update", call[j].step = "checked",
                      NEW k \in call[j].seen, call'[k].typed, call'[k].conn = call[j].conn, k # call[j].read
               PROVE  Excused(k)'
    BY DEF ReadsOf
  <2>1. k \in Committed
    BY DEF TableInv, Seen
  <2>2. call[k].typed /\ call[k].conn = call[j].conn
    BY <2>1 DEF Lasting
  <2>3. Excused(k)
    BY <2>2 DEF TableInv, Reads
  <2> QED
    BY <2>1, <2>3, ExcusedStays
<1> QED
  BY <1>1, <1>2, <1>3, <1>4

\* A step that changes one request alone, which is not carried out by it.
Quiet(k) == /\ UNCHANGED <<live, racing, row>> /\ TypeInv' /\ Committed' = Committed
            /\ \A j \in Calls : j # k => call'[j] = call[j]
            /\ k \in Committed => /\ call'[k].conn = call[k].conn /\ call'[k].typed = call[k].typed
                                  /\ call'[k].op = call[k].op /\ call'[k].seen = call[k].seen
                                  /\ call'[k].project = call[k].project

\* A quiet step takes nothing back.
LEMMA QuietLasts == ASSUME TypeInv, TableInv, NEW k \in Calls, Quiet(k) PROVE Lasting
<1>1. \A j \in Committed : /\ call'[j].conn = call[j].conn /\ call'[j].typed = call[j].typed /\ call'[j].op = call[j].op
                           /\ call'[j].seen = call[j].seen /\ call'[j].project = call[j].project
  BY CommittedFact DEF Quiet
<1> QED
  BY <1>1 DEF Quiet, Lasting

\* The conjuncts that are about the table: they hold where its live rows are some of those there
\* were.
Shrinks == \A c \in Conns : row'[c].state = "live" => row'[c] = row[c]

\* Where a project gains no row, the creations that raced account for what is over its quota.
LEMMA QuotaStays ==
  ASSUME TypeInv, TableInv, Lasting, NEW p \in Projects, RowsOf(p)' \subseteq RowsOf(p),
         Cardinality(RowsOf(p)') > MaxConnectionsPerProject
  PROVE  \E j, k \in Committed' : /\ call'[j].op = "create" /\ call'[k].op = "create"
                                  /\ call'[j].project = p /\ call'[k].project = p
                                  /\ j # k /\ j \notin call'[k].seen /\ k \notin call'[j].seen
<1>1. Cardinality(RowsOf(p)') <= Cardinality(RowsOf(p)) /\ Cardinality(RowsOf(p)') \in Nat /\ Cardinality(RowsOf(p)) \in Nat
  BY FiniteFact, FiniteNext, FS_Subset
<1>2. Cardinality(RowsOf(p)) > MaxConnectionsPerProject
  BY <1>1, ConnectionsAssumption
<1>3. PICK j, k \in Committed : /\ call[j].op = "create" /\ call[k].op = "create"
                                /\ call[j].project = p /\ call[k].project = p /\ Overlap(j, k)
  BY <1>2 DEF TableInv, QuotaRaceOnly
<1> QED
  BY <1>3 DEF Lasting, Overlap

\* The quota, where no project gains a row.
LEMMA QuotaShrinks == ASSUME TypeInv, TableInv, Lasting, \A p \in Projects : RowsOf(p)' \subseteq RowsOf(p)
                      PROVE  QuotaRaceOnly'
  BY QuotaStays DEF QuotaRaceOnly, Overlap

\* A password in a row that did not change.
LEMMA KeptStays ==
  ASSUME TypeInv, TableInv, Lasting, NEW k \in Committed, NEW c, c = call[k].conn, row'[c] = row[c],
         call'[k].typed, row'[c].state = "live", row'[c].password # k
  PROVE  Excused(k)'
<1>1. call[k].typed
  BY DEF Lasting
<1>2. Excused(k)
  BY <1>1 DEF TableInv, PasswordKept, Excused
<1> QED
  BY <1>2, ExcusedStays

\* The request that made a row goes on to be the one that made it.
LEMMA MadeStays == ASSUME TypeInv, TableInv, Lasting, NEW c \in Conns, row[c].state # "free"
                   PROVE  /\ c \in Committed' /\ call'[c].op = "create"
                          /\ row'[c].state = "live" => row'[c].project = call'[c].project
<1>1. c \in Committed /\ call[c].op = "create" /\ (row[c].state = "live" => row[c].project = call[c].project)
  BY DEF TableInv, Made
<1> QED
  BY <1>1 DEF Lasting

\* The invariant, from its parts for the request that changed and for the table.
LEMMA Assembled ==
  ASSUME TypeInv, TableInv, Lasting, NEW k,
         \A j \in Calls : j # k => call'[j] = call[j],
         k \in Calls => AimedAt(k)' /\ call'[k].seen \subseteq Committed' /\ RoomOf(k)' /\ ReadsOf(k)',
         Made', Raced', QuotaRaceOnly', PasswordKept'
  PROVE  TableInv'
<1>1. ASSUME NEW j \in Calls PROVE AimedAt(j)' /\ call'[j].seen \subseteq Committed' /\ RoomOf(j)' /\ ReadsOf(j)'
  <2>1. CASE j = k
    BY <2>1
  <2>2. CASE j # k
    BY <2>2, OthersStay
  <2> QED
    BY <2>1, <2>2
<1>2. Aimed'
  BY <1>1 DEF Aimed, AimedAt
<1>3. Seen'
  BY <1>1 DEF Seen
<1>4. Room'
  BY <1>1 DEF Room, RoomOf
<1>5. Reads'
  BY <1>1 DEF Reads, ReadsOf
<1> QED
  BY <1>2, <1>3, <1>4, <1>5 DEF TableInv

\* A quiet step keeps the table sound where it does for the request that changed.
LEMMA QuietStep ==
  ASSUME TypeInv, TableInv, NEW k \in Calls, Quiet(k),
         AimedAt(k)', call'[k].seen \subseteq Committed', RoomOf(k)', ReadsOf(k)',
         call'[k].op = "create" /\ call'[k].step = "checked" => call'[k].project \in live
  PROVE  TableInv'
<1>0. Lasting /\ row' = row /\ live' = live /\ racing' = racing
  BY QuietLasts DEF Quiet
<1>1. Made'
  BY <1>0, MadeStays DEF Made
<1>2. Raced'
  <2>1. ASSUME NEW j \in Calls, call'[j].op = "create", call'[j].step = "checked", call'[j].project \notin live
        PROVE  j \in racing
    BY <2>1 DEF Quiet, TableInv, Raced
  <2>2. \A c \in Conns : row[c].state = "live" /\ row[c].project \notin live => c \in racing
    BY DEF TableInv, Raced
  <2> QED
    BY <1>0, <2>1, <2>2 DEF Raced
<1>3. QuotaRaceOnly'
  BY <1>0, QuotaShrinks DEF RowsOf
<1>4. PasswordKept'
  <2> SUFFICES ASSUME NEW j \in Committed', call'[j].typed, row'[call'[j].conn].state = "live",
                      row'[call'[j].conn].password # j
               PROVE  Excused(j)'
    BY DEF PasswordKept, Excused
  <2>1. j \in Committed
    BY DEF Quiet
  <2>2. call'[j].conn = call[j].conn
    BY <1>0, <2>1 DEF Lasting
  <2> QED
    BY <1>0, <2>1, <2>2, KeptStays
<1>5. \A j \in Calls : j # k => call'[j] = call[j]
  BY DEF Quiet
<1> QED
  BY <1>0, <1>1, <1>2, <1>3, <1>4, <1>5, Assembled

\* Which requests are committed after a step of k.
LEMMA CommitsNot == ASSUME NEW k \in Calls, \A j \in Calls : j # k => call'[j] = call[j],
                           k \in Committed <=> call'[k].step \in {"ok", "done", "lost"}
                    PROVE  Committed' = Committed
  BY DEF Committed

\* A request that is carried out is committed and no other becomes so.
LEMMA CommitsToo == ASSUME NEW k \in Calls, \A j \in Calls : j # k => call'[j] = call[j], call'[k].step = "ok"
                    PROVE  Committed' = Committed \cup {k}
  BY DEF Committed

\* Sending a request keeps the table sound.
LEMMA SubmitStep ==
  ASSUME TypeInv, TableInv, TypeInv', NEW k \in Calls,
         \/ SubmitOther(k) \/ \E p \in Projects : SubmitCreate(k, p)
         \/ \E typed \in BOOLEAN : SubmitEdit(k, typed)
         \/ \E c \in Conns : SubmitDelete(k, c)
  PROVE  TableInv'
<1>1. /\ call[k].step = "free" /\ Blanked(k, "sent") /\ call'[k].op \in {"create", "update", "delete"}
      /\ call'[k].op = "create" => call'[k].conn = k
      /\ call'[k].op # "create" => call'[k].conn \in Conns
      /\ UNCHANGED <<live, racing, row>>
  BY SubmitFact
<1>2. k \notin Committed /\ call'[k].step = "sent" /\ call'[k].seen = {} /\ \A j \in Calls : j # k => call'[j] = call[j]
  BY <1>1 DEF Committed, Blanked
<1>3. Committed' = Committed
  BY <1>2, CommitsNot
<1>4. Quiet(k)
  BY <1>1, <1>2, <1>3 DEF Quiet
<1>5. AimedAt(k)' /\ call'[k].seen \subseteq Committed' /\ RoomOf(k)' /\ ReadsOf(k)'
  BY <1>1, <1>2 DEF AimedAt, RoomOf, ReadsOf, Conns
<1> QED
  BY <1>2, <1>4, <1>5, QuietStep

\* Turning a request down keeps the table sound.
LEMMA TurnedStep ==
  ASSUME TypeInv, TableInv, TypeInv', NEW k \in Calls, Turned(k), k \notin Committed, UNCHANGED <<live, racing, row>>
  PROVE  TableInv'
<1>1. /\ call'[k].step = "refused" /\ call'[k].seen = {} /\ call'[k].op = "none"
      /\ \A j \in Calls : j # k => call'[j] = call[j]
  BY TurnedFact DEF Blanked
<1>2. Committed' = Committed
  BY <1>1, CommitsNot
<1>3. Quiet(k)
  BY <1>1, <1>2 DEF Quiet
<1>4. AimedAt(k)' /\ call'[k].seen \subseteq Committed' /\ RoomOf(k)' /\ ReadsOf(k)'
  BY <1>1 DEF AimedAt, RoomOf, ReadsOf, Conns
<1> QED
  BY <1>1, <1>3, <1>4, QuietStep

\* A request that was carried out stays so when its answer arrives or is lost.
LEMMA EndStep ==
  ASSUME TypeInv, TableInv, TypeInv', NEW k \in Calls, NEW st \in {"done", "lost"}, call[k].step = "ok",
         Further(k, st, call[k].seen), UNCHANGED <<live, racing, row>>
  PROVE  TableInv'
<1>1. k \in Committed /\ call'[k].step \in {"done", "lost"} /\ \A j \in Calls : j # k => call'[j] = call[j]
  BY DEF Committed, Further
<1>2. Committed' = Committed
  BY <1>1, CommitsNot
<1>3. Quiet(k)
  BY <1>1, <1>2 DEF Quiet, Further
<1>4. AimedAt(k)'
  <2>1. AimedAt(k) /\ call[k].step = "ok"
    BY DEF TableInv, Aimed, AimedAt
  <2> QED
    BY <1>1, <2>1 DEF AimedAt, Further, Conns
<1>5. call'[k].seen \subseteq Committed' /\ RoomOf(k)' /\ ReadsOf(k)'
  BY <1>1, <1>2 DEF TableInv, Seen, RoomOf, ReadsOf, Further
<1> QED
  BY <1>1, <1>3, <1>4, <1>5, QuietStep

\* The check of a creation keeps the table sound: Room holds of what was counted.
LEMMA CheckStep == ASSUME TypeInv, TableInv, TypeInv', NEW k \in Calls, CheckCreate(k) PROVE TableInv'
<1>1. Further(k, "checked", Committed) /\ UNCHANGED <<live, racing, row>>
  BY GoesFact DEF CheckCreate, Server
<1>2. call[k].op = "create" /\ call[k].step = "sent" /\ call[k].project \in live /\ BelowQuota(call[k].project)
  BY DEF CheckCreate
<1>3. k \notin Committed /\ call'[k].step = "checked" /\ \A j \in Calls : j # k => call'[j] = call[j]
  BY <1>1, <1>2 DEF Committed, Further
<1>4. Committed' = Committed
  BY <1>3, CommitsNot
<1>5. Quiet(k)
  BY <1>1, <1>3, <1>4 DEF Quiet
<1>6. AimedAt(k)'
  BY <1>1, <1>2 DEF TableInv, Aimed, AimedAt, Further
<1>7. RoomOf(k)'
  <2>1. PICK p : p = call[k].project
    OBVIOUS
  <2>2. PICK S : S = Committed
    OBVIOUS
  <2>3. IsFiniteSet(RowsOf(p)) /\ Cardinality(RowsOf(p)) \in Nat /\ Cardinality(RowsOf(p)) < MaxConnectionsPerProject
    BY <1>2, <2>1, FiniteFact DEF BelowQuota
  <2>4. Cardinality(RowsOf(p) \cap S) <= Cardinality(RowsOf(p)) /\ Cardinality(RowsOf(p) \cap S) \in Nat
    BY <2>3, FS_Subset, FS_CardinalityType
  <2>5. Cardinality(RowsOf(p) \cap S) < MaxConnectionsPerProject
    BY <2>3, <2>4, ConnectionsAssumption
  <2>6. RowsOf(p)' = RowsOf(p)
    BY <1>1 DEF RowsOf
  <2>7. call'[k].project = p /\ call'[k].seen = S
    BY <1>1, <2>1, <2>2 DEF Further
  <2>8. (Cardinality(RowsOf(p) \cap S) < MaxConnectionsPerProject)'
    BY <2>5, <2>6
  <2> QED
    BY <2>7, <2>8 DEF RoomOf
<1>8. call'[k].seen \subseteq Committed' /\ ReadsOf(k)'
  BY <1>1, <1>2, <1>4 DEF ReadsOf, Further
<1> QED
  BY <1>1, <1>2, <1>3, <1>5, <1>6, <1>7, <1>8, QuietStep DEF Further

\* The read of an update keeps the table sound: Reads is PasswordKept at that moment.
LEMMA ReadStep == ASSUME TypeInv, TableInv, TypeInv', NEW k \in Calls, ReadRow(k) PROVE TableInv'
<1>1. call[k].op \in {"update", "delete"} /\ call[k].step = "sent" /\ row[call[k].conn].state = "live"
      /\ UNCHANGED <<live, racing, row>>
  BY DEF ReadRow, Server
<1>2. call[k].conn \in Conns
  BY <1>1 DEF TableInv, Aimed
<1>3. \/ Further(k, "checked", Committed) /\ call'[k].read = row[call[k].conn].password
      \/ Further(k, "checked", {}) /\ call[k].op = "delete"
  BY <1>2, ReadFact
<1>4. k \notin Committed /\ call'[k].step = "checked" /\ \A j \in Calls : j # k => call'[j] = call[j]
  BY <1>1, <1>3 DEF Committed, Further
<1>5. Committed' = Committed
  BY <1>4, CommitsNot
<1>6. Quiet(k)
  BY <1>1, <1>4, <1>5 DEF Quiet
<1>7. AimedAt(k)'
  <2>1. call'[k].op = call[k].op /\ call'[k].conn = call[k].conn
    BY <1>3 DEF Further
  <2> QED
    BY <1>1, <1>2, <2>1 DEF AimedAt, Conns
<1>8. call'[k].seen \subseteq Committed' /\ RoomOf(k)'
  BY <1>1, <1>3, <1>5 DEF RoomOf, Further
<1>9. ReadsOf(k)'
  <2>1. CASE Further(k, "checked", {}) /\ call[k].op = "delete"
    BY <2>1 DEF ReadsOf, Further
  <2>2. CASE Further(k, "checked", Committed) /\ call'[k].read = row[call[k].conn].password
    <3> SUFFICES ASSUME NEW j \in call'[k].seen, call'[j].typed, call'[j].conn = call'[k].conn, j # call'[k].read
                 PROVE  Excused(j)'
      BY DEF ReadsOf
    <3>1. j \in Committed /\ call'[k].conn = call[k].conn /\ j # k
      BY <1>4, <2>2 DEF Further
    <3>2. call[j].typed /\ call[j].conn = call[k].conn /\ row[call[j].conn].state = "live" /\ row[call[j].conn].password # j
      BY <1>1, <1>4, <2>2, <3>1, CommittedFact
    <3>3. Excused(j)
      BY <3>1, <3>2 DEF TableInv, PasswordKept, Excused
    <3> QED
      BY <1>6, <3>1, <3>3, QuietLasts, ExcusedStays
  <2> QED
    BY <1>3, <2>1, <2>2
<1> QED
  BY <1>1, <1>3, <1>4, <1>6, <1>7, <1>8, <1>9, QuietStep DEF Further

\* A request that is carried out, and leaves its row used and not a new one in the table.
Commits(k) == /\ TypeInv' /\ k \notin Committed /\ Further(k, "ok", call[k].seen)
              /\ UNCHANGED <<live, racing>>

\* A request that is carried out takes nothing back.
LEMMA CommitLasts ==
  ASSUME TypeInv, TableInv, NEW k \in Calls, Commits(k),
         \A c \in Conns : row[c].state # "free" => row'[c].state # "free",
         \A c \in Committed : row'[c].state = "live" => row[c].state = "live" /\ row'[c].project = row[c].project
  PROVE  Lasting /\ Committed' = Committed \cup {k} /\ \A j \in Calls : j # k => call'[j] = call[j]
<1>1. (\A j \in Calls : j # k => call'[j] = call[j]) /\ call'[k].step = "ok"
  BY DEF Commits, Further
<1>2. Committed' = Committed \cup {k}
  BY <1>1, CommitsToo
<1>3. \A j \in Committed : call'[j] = call[j]
  BY <1>1, CommittedFact DEF Commits
<1> QED
  BY <1>1, <1>2, <1>3 DEF Lasting, Commits

\* A request that has been carried out meets the invariant's parts about requests.
LEMMA CommitParts ==
  ASSUME TypeInv, TableInv, NEW k \in Calls, Commits(k), Committed' = Committed \cup {k},
         call[k].op # "none", call[k].op # "create" => row'[call[k].conn].state # "free"
  PROVE  AimedAt(k)' /\ call'[k].seen \subseteq Committed' /\ RoomOf(k)' /\ ReadsOf(k)'
<1>1. call'[k].step = "ok" /\ call'[k].seen = call[k].seen /\ call'[k].op = call[k].op /\ call'[k].conn = call[k].conn
  BY DEF Commits, Further
<1>2. AimedAt(k)'
  BY <1>1 DEF TableInv, Aimed, AimedAt, Conns
<1>3. call'[k].seen \subseteq Committed' /\ RoomOf(k)' /\ ReadsOf(k)'
  BY <1>1 DEF TableInv, Seen, RoomOf, ReadsOf
<1> QED
  BY <1>2, <1>3

\* Creations of one project that did not count each other.
LEMMA InsertQuota ==
  ASSUME TypeInv, TableInv, NEW k \in Calls, Insert(k), Lasting, Committed' = Committed \cup {k}, k \notin Committed,
         \A j \in Calls : j # k => call'[j] = call[j],
         call'[k].op = "create", call'[k].seen = call[k].seen, call'[k].project = call[k].project,
         \A c \in Conns : c # k => row'[c] = row[c]
  PROVE  QuotaRaceOnly'
<1> SUFFICES ASSUME NEW p \in Projects, Cardinality(RowsOf(p)') > MaxConnectionsPerProject
             PROVE  \E i, j \in Committed' : /\ call'[i].op = "create" /\ call'[j].op = "create"
                                             /\ call'[i].project = p /\ call'[j].project = p
                                             /\ i # j /\ i \notin call'[j].seen /\ j \notin call'[i].seen
  BY DEF QuotaRaceOnly, Overlap
<1>1. CASE RowsOf(p)' \subseteq RowsOf(p)
  BY <1>1, QuotaStays
<1>2. CASE ~(RowsOf(p)' \subseteq RowsOf(p))
  <2>1. RowsOf(p)' \subseteq RowsOf(p) \cup {k}
    BY DEF RowsOf
  <2>2. k \in RowsOf(p)'
    BY <1>2, <2>1
  <2>3. call[k].project = p /\ call[k].op = "create" /\ call[k].step = "checked"
    <3>1. row'[k].project = call[k].project
      BY InsertFact
    <3> QED
      BY <2>2, <3>1 DEF RowsOf, Insert
  <2>4. PICK S : S = RowsOf(p) \cap call[k].seen
    OBVIOUS
  <2>5. Cardinality(S) < MaxConnectionsPerProject /\ IsFiniteSet(S) /\ Cardinality(S) \in Nat
    BY <2>3, <2>4, FiniteFact, FS_Subset, FS_CardinalityType DEF TableInv, Room
  <2>6. PICK c \in RowsOf(p)' : c # k /\ c \notin call[k].seen
    <3> SUFFICES ASSUME \A c \in RowsOf(p)' : c = k \/ c \in call[k].seen
                 PROVE  FALSE
      OBVIOUS
    <3>1. RowsOf(p)' \subseteq S \cup {k}
      BY <2>1, <2>4
    <3>4. IsFiniteSet(S \cup {k}) /\ Cardinality(S \cup {k}) = IF k \in S THEN Cardinality(S) ELSE Cardinality(S) + 1
      BY <2>5, FS_AddElement
    <3>2. Cardinality(S \cup {k}) \in Nat /\ Cardinality(S \cup {k}) <= Cardinality(S) + 1 /\ IsFiniteSet(S \cup {k})
      BY <2>5, <3>4
    <3>3. Cardinality(RowsOf(p)') <= Cardinality(S \cup {k})
      BY <3>1, <3>2, FS_Subset
    <3> QED
      BY <2>5, <3>2, <3>3, FiniteNext, ConnectionsAssumption
  <2>7. c \in Conns /\ row[c].state = "live" /\ row[c].project = p
    BY <2>6 DEF RowsOf
  <2>8. c \in Committed /\ call[c].op = "create" /\ call[c].project = p
    BY <2>7 DEF TableInv, Made
  <2>9. call'[c] = call[c] /\ k \notin call[c].seen
    BY <2>6, <2>8, CommittedFact DEF TableInv, Seen
  <2> QED
    BY <2>3, <2>6, <2>8, <2>9
<1> QED
  BY <1>1, <1>2

\* The insert of a creation keeps the table sound.
LEMMA InsertStep == ASSUME TypeInv, TableInv, TypeInv', NEW k \in Calls, Insert(k) PROVE TableInv'
<1>1. call[k].op = "create" /\ call[k].step = "checked" /\ UNCHANGED <<live, racing>> /\ k \in Conns
      /\ Further(k, "ok", call[k].seen)
  BY InsertFact, CommittedFact DEF Insert, Server
<1>2. /\ row'[k].state = "live" /\ row'[k].project = call[k].project /\ row'[k].password = k
      /\ \A c \in Conns : c # k => row'[c] = row[c]
  BY InsertFact
<1>3. Commits(k) /\ k \notin Committed
  BY <1>1 DEF Commits, Committed
<1>4. row[k].state = "free"
  BY <1>1, <1>3 DEF TableInv, Made
<1>5. /\ \A c \in Conns : row[c].state # "free" => row'[c].state # "free"
      /\ \A c \in Committed : row'[c].state = "live" => row[c].state = "live" /\ row'[c].project = row[c].project
  BY <1>2, <1>3, <1>4, CommittedFact
<1>6. Lasting /\ Committed' = Committed \cup {k} /\ \A j \in Calls : j # k => call'[j] = call[j]
  BY <1>3, <1>5, CommitLasts
<1>7. AimedAt(k)' /\ call'[k].seen \subseteq Committed' /\ RoomOf(k)' /\ ReadsOf(k)'
  BY <1>1, <1>3, <1>6, CommitParts
<1>8. call'[k].op = "create" /\ call'[k].conn = k /\ call'[k].project = call[k].project /\ call'[k].seen = call[k].seen
  BY <1>1 DEF Further, TableInv, Aimed
<1>9. Made'
  <2> SUFFICES ASSUME NEW c \in Conns, row'[c].state # "free"
               PROVE  c \in Committed' /\ call'[c].op = "create" /\ (row'[c].state = "live" => row'[c].project = call'[c].project)
    BY DEF Made, Conns
  <2>1. CASE c = k
    BY <1>2, <1>6, <1>8, <2>1
  <2>2. CASE c # k
    BY <1>2, <1>6, <2>2, MadeStays
  <2> QED
    BY <2>1, <2>2
<1>10. Raced'
  <2>1. ASSUME NEW j \in Calls, call'[j].op = "create", call'[j].step = "checked", call'[j].project \notin live
        PROVE  j \in racing
    BY <1>1, <1>6, <2>1 DEF TableInv, Raced, Further
  <2>2. ASSUME NEW c \in Conns, row'[c].state = "live", row'[c].project \notin live
        PROVE  c \in racing
    BY <1>1, <1>2, <2>2 DEF TableInv, Raced
  <2> QED
    BY <1>1, <2>1, <2>2 DEF Raced, Conns
<1>11. QuotaRaceOnly'
  BY <1>2, <1>3, <1>6, <1>8, InsertQuota
<1>12. PasswordKept'
  <2> SUFFICES ASSUME NEW j \in Committed', call'[j].typed, row'[call'[j].conn].state = "live",
                      row'[call'[j].conn].password # j
               PROVE  Excused(j)'
    BY DEF PasswordKept, Excused
  <2>1. j # k
    BY <1>2, <1>8
  <2>2. j \in Committed /\ call'[j] = call[j]
    BY <1>6, <2>1, CommittedFact
  <2>3. call[j].conn \in Conns /\ row[call[j].conn].state # "free"
    <3>1. AimedAt(j) /\ call[j].step \in {"ok", "done", "lost"} /\ call[j] \in CallRecord
      BY <2>2 DEF TableInv, Aimed, AimedAt, Committed, TypeInv
    <3>2. CASE call[j].op = "create"
      <4>1. call[j].conn = j /\ j \in Conns
        BY <2>2, <3>1, <3>2, CommittedFact DEF AimedAt
      <4>2. row'[j] = row[j]
        BY <1>2, <2>1, <4>1
      <4> QED
        BY <2>2, <4>1, <4>2
    <3>3. CASE call[j].op # "create"
      BY <3>1, <3>3 DEF AimedAt, CallRecord
    <3> QED
      BY <3>2, <3>3
  <2>4. call[j].conn # k
    BY <1>4, <2>3
  <2>5. row'[call[j].conn] = row[call[j].conn]
    BY <1>2, <2>3, <2>4
  <2> QED
    BY <1>6, <2>2, <2>5, KeptStays
<1> QED
  BY <1>6, <1>7, <1>9, <1>10, <1>11, <1>12, Assembled

\* An update or a deletion, which touches one used row and makes none.
LEMMA TouchStep ==
  ASSUME TypeInv, TableInv, NEW k \in Calls, Commits(k), NEW c \in Conns, c = call[k].conn, NEW r, OneRow(c, r),
         call[k].op \in {"update", "delete"}, call[k].step = "checked", r.state # "free",
         r.state = "live" => row[c].state = "live" /\ r.project = row[c].project,
         \A j \in Committed' : call'[j].typed /\ call'[j].conn = c /\ r.state = "live" /\ r.password # j /\ Lasting
                               /\ Committed' = Committed \cup {k} /\ (\A i \in Calls : i # k => call'[i] = call[i])
                               => Excused(j)'
  PROVE  TableInv'
<1>1. row'[c] = r /\ (\A x \in Conns : x # c => row'[x] = row[x]) /\ UNCHANGED <<live, racing>>
      /\ Further(k, "ok", call[k].seen) /\ k \notin Committed
  BY DEF OneRow, Commits
<1>2. row[c].state # "free"
  BY DEF TableInv, Aimed
<1>3. /\ \A x \in Conns : row[x].state # "free" => row'[x].state # "free"
      /\ \A x \in Conns : row'[x].state = "live" => row[x].state = "live" /\ row'[x].project = row[x].project
  BY <1>1
<1>4. Lasting /\ Committed' = Committed \cup {k} /\ \A j \in Calls : j # k => call'[j] = call[j]
  BY <1>3, CommitLasts, CommittedFact
<1>5. AimedAt(k)' /\ call'[k].seen \subseteq Committed' /\ RoomOf(k)' /\ ReadsOf(k)'
  BY <1>1, <1>4, CommitParts
<1>6. Made'
  <2> SUFFICES ASSUME NEW x \in Conns, row'[x].state # "free"
               PROVE  x \in Committed' /\ call'[x].op = "create" /\ (row'[x].state = "live" => row'[x].project = call'[x].project)
    BY DEF Made, Conns
  <2>1. row[x].state # "free"
    BY <1>1, <1>2
  <2> QED
    BY <1>4, <2>1, MadeStays
<1>7. Raced'
  <2>1. ASSUME NEW j \in Calls, call'[j].op = "create", call'[j].step = "checked", call'[j].project \notin live
        PROVE  j \in racing
    BY <1>1, <1>4, <2>1 DEF TableInv, Raced, Further
  <2>2. ASSUME NEW x \in Conns, row'[x].state = "live", row'[x].project \notin live
        PROVE  x \in racing
    BY <1>3, <2>2 DEF TableInv, Raced
  <2> QED
    BY <1>1, <2>1, <2>2 DEF Raced, Conns
<1>8. QuotaRaceOnly'
  BY <1>3, <1>4, QuotaShrinks DEF RowsOf, Conns
<1>9. PasswordKept'
  <2> SUFFICES ASSUME NEW j \in Committed', call'[j].typed, row'[call'[j].conn].state = "live",
                      row'[call'[j].conn].password # j
               PROVE  Excused(j)'
    BY DEF PasswordKept, Excused
  <2>1. CASE call'[j].conn = c
    BY <1>1, <1>4, <2>1
  <2>2. CASE call'[j].conn # c
    <3>1. j # k
      BY <1>1, <2>2 DEF Further
    <3>2. j \in Committed /\ call'[j] = call[j]
      BY <1>4, <3>1, CommittedFact
    <3>3. call[j].conn \in Conns
      BY <3>2, CommittedFact DEF TableInv, Aimed, TypeInv, CallRecord, Committed
    <3>4. row'[call[j].conn] = row[call[j].conn]
      BY <1>1, <2>2, <3>2, <3>3
    <3> QED
      BY <1>4, <3>2, <3>4, KeptStays
  <2> QED
    BY <2>1, <2>2
<1> QED
  BY <1>4, <1>5, <1>6, <1>7, <1>8, <1>9, Assembled

\* The write of an update keeps the table sound: it is itself to blame for the passwords it
\* replaces.
LEMMA SaveStep == ASSUME TypeInv, TableInv, TypeInv', NEW k \in Calls, Save(k) PROVE TableInv'
<1>1. call[k].op = "update" /\ call[k].step = "checked" /\ UNCHANGED <<live, racing>> /\ k \notin Committed
  BY DEF Save, Server, Committed
<1>2. call[k].conn \in Conns
  BY <1>1 DEF TableInv, Aimed
<1>3. CASE row' = row /\ Turned(k)
  BY <1>1, <1>3, TurnedStep
<1>4. CASE /\ row[call[k].conn].state = "live"
           /\ Further(k, "ok", call[k].seen)
           /\ OneRow(call[k].conn, [row[call[k].conn] EXCEPT !.host = call[k].host, !.password = Password(k)])
  <2>1. PICK c \in Conns : c = call[k].conn
    BY <1>2
  <2> DEFINE w == Password(k)
             r == [row[c] EXCEPT !.host = call[k].host, !.password = w]
  <2>2. OneRow(c, r)
    BY <1>4, <2>1
  <2>3. row[c] \in Row
    BY DEF TypeInv
  <2>4. w = IF call[k].typed THEN k ELSE call[k].read
    BY DEF Password
  <2> HIDE DEF w
  <2>5. r.state = row[c].state /\ r.project = row[c].project /\ r.password = w
    BY <2>3 DEF Row
  <2> HIDE DEF r
  <2>6. Commits(k)
    BY <1>1, <1>4 DEF Commits
  <2>7. ASSUME NEW j \in Committed', call'[j].typed, call'[j].conn = c, r.password # j, Lasting,
               Committed' = Committed \cup {k}, \A i \in Calls : i # k => call'[i] = call[i]
        PROVE  Excused(j)'
    <3>1. call'[k].conn = c /\ call'[k].typed = call[k].typed /\ call'[k].seen = call[k].seen /\ k \in Committed'
      BY <1>4, <2>1, <2>7 DEF Further
    <3>2. j # k
      BY <2>4, <2>5, <2>7, <3>1
    <3>3. j \in Committed /\ call'[j] = call[j] /\ k \notin call[j].seen
      BY <1>1, <2>7, <3>2, CommittedFact DEF TableInv, Seen
    <3>4. CASE j \notin call[k].seen
      <4>1. k # j /\ k \notin call'[j].seen /\ j \notin call'[k].seen
        BY <3>1, <3>2, <3>3, <3>4
      <4> QED
        BY <2>7, <3>1, <4>1 DEF Excused, Overlap
    <3>5. CASE j \in call[k].seen /\ call[k].typed
      BY <2>7, <3>1, <3>5 DEF Excused
    <3>6. CASE j \in call[k].seen /\ ~call[k].typed
      <4>1. j # call[k].read
        BY <2>4, <2>5, <2>7, <3>6
      <4>2. Excused(j)
        BY <1>1, <2>1, <2>7, <3>3, <3>6, <4>1 DEF TableInv, Reads
      <4> QED
        BY <2>7, <3>3, <4>2, ExcusedStays
    <3> QED
      BY <3>4, <3>5, <3>6
  <2>8. r.state = "live" /\ row[c].state = "live"
    BY <1>4, <2>1, <2>5
  <2> QED
    BY <1>1, <2>1, <2>2, <2>5, <2>6, <2>7, <2>8, TouchStep
<1> QED
  BY <1>2, <1>3, <1>4, SaveFact

\* A deletion keeps the table sound.
LEMMA DeleteStep == ASSUME TypeInv, TableInv, TypeInv', NEW k \in Calls, DeleteRow(k) PROVE TableInv'
<1>1. call[k].op = "delete" /\ call[k].step = "checked" /\ UNCHANGED <<live, racing>> /\ k \notin Committed
  BY DEF DeleteRow, Server, Committed
<1>2. PICK c \in Conns : c = call[k].conn
  BY <1>1 DEF TableInv, Aimed
<1>3. OneRow(c, GoneRow) /\ Further(k, "ok", call[k].seen)
  BY <1>2, DeleteFact
<1>4. PICK r : r = GoneRow
  OBVIOUS
<1>5. OneRow(c, r) /\ r.state = "gone"
  BY <1>3, <1>4, RowsFact
<1>6. Commits(k)
  BY <1>1, <1>3 DEF Commits
<1> QED
  BY <1>1, <1>2, <1>5, <1>6, TouchStep

\* The deletion of a project keeps the table sound.
LEMMA CascadeStep == ASSUME TypeInv, TableInv, TypeInv', NEW p \in Projects, DeleteProject(p) PROVE TableInv'
<1>1. PICK g : g = GoneRow
  OBVIOUS
<1>2. \A c \in Conns : IF c \in RowsOf(p) THEN row'[c] = g ELSE row'[c] = row[c]
  BY <1>1, CascadeFact DEF DeleteProject
<1>3. g.state = "gone"
  BY <1>1, RowsFact
<1>4. call' = call /\ Committed' = Committed
  BY DEF DeleteProject, Committed
<1>5. /\ \A c \in Conns : row[c].state # "free" => row'[c].state # "free"
      /\ \A c \in Conns : row'[c].state = "live" => row'[c] = row[c] /\ c \notin RowsOf(p)
      /\ \A c \in Conns : row'[c].state # "free" => row[c].state # "free"
  BY <1>2, <1>3 DEF RowsOf
<1>6. Lasting
  BY <1>4, <1>5, CommittedFact DEF Lasting
<1>7. Made'
  BY <1>5, <1>6, MadeStays DEF Made, Conns
<1>8. Raced'
  <2>0. live' = live \ {p}
        /\ racing' = racing \cup {k \in Calls : call[k].op = "create" /\ call[k].project = p /\ call[k].step = "checked"}
    BY DEF DeleteProject
  <2>1. ASSUME NEW j \in Calls, call[j].op = "create", call[j].step = "checked", call[j].project \notin live'
        PROVE  j \in racing'
    BY <2>0, <2>1 DEF TableInv, Raced
  <2>2. ASSUME NEW c \in Conns, row'[c].state = "live", row'[c].project \notin live'
        PROVE  c \in racing'
    <3>1. row[c].state = "live" /\ row'[c].project = row[c].project /\ c \notin RowsOf(p)
      BY <1>5, <2>2
    <3>2. row[c].project # p
      BY <3>1 DEF RowsOf
    <3>3. row[c].project \notin live
      BY <2>0, <2>2, <3>1, <3>2
    <3> QED
      BY <2>0, <3>1, <3>3 DEF TableInv, Raced
  <2> QED
    BY <1>4, <2>1, <2>2 DEF Raced, Conns
<1>9. QuotaRaceOnly'
  BY <1>5, <1>6, QuotaShrinks DEF RowsOf, Conns
<1>10. PasswordKept'
  <2> SUFFICES ASSUME NEW j \in Committed', call'[j].typed, row'[call'[j].conn].state = "live",
                      row'[call'[j].conn].password # j
               PROVE  Excused(j)'
    BY DEF PasswordKept, Excused
  <2>1. j \in Committed /\ call'[j].conn = call[j].conn
    BY <1>4
  <2>2. call[j].conn \in Conns
    BY <2>1, CommittedFact DEF TableInv, Aimed, TypeInv, CallRecord, Committed
  <2>3. row'[call[j].conn] = row[call[j].conn]
    BY <1>5, <2>1, <2>2
  <2> QED
    BY <1>6, <2>1, <2>3, KeptStays
<1>11. (\A j \in Calls : j # 0 => call'[j] = call[j]) /\ 0 \notin Calls
  BY <1>4 DEF Calls
<1> QED
  BY <1>6, <1>7, <1>8, <1>9, <1>10, <1>11, Assembled

\* Every step keeps the table sound.
LEMMA TableNext == TypeInv /\ TableInv /\ TypeInv' /\ [Next]_vars => TableInv'
<1> SUFFICES ASSUME TypeInv, TableInv, TypeInv', [Next]_vars
             PROVE  TableInv'
  OBVIOUS
<1>1. ASSUME NEW k \in Calls, Handle(k) \/ LoseAnswer(k) \/ FinishOk(k) PROVE TableInv'
  <2>1. CASE Refuse(k)
    BY <2>1, TurnedStep DEF Refuse, Server, Committed
  <2>2. CASE LoseAnswer(k)
    BY <2>2, EndFact, EndStep DEF LoseAnswer, Server
  <2>3. CASE FinishOk(k)
    BY <2>3, EndFact, EndStep DEF FinishOk, Answered
  <2> QED
    BY <1>1, <2>1, <2>2, <2>3, CheckStep, InsertStep, ReadStep, SaveStep, DeleteStep DEF Handle
<1>2. CASE UNCHANGED <<live, racing, row, call>>
  BY <1>2 DEF TableInv, Aimed, Made, Seen, Room, Raced, Reads, Excused, QuotaRaceOnly, PasswordKept, Overlap, Committed, RowsOf
<1>3. \A k \in Calls : FinishError(k) => UNCHANGED <<live, racing, row, call>>
  BY DEF FinishError
<1>4. \A key \in Keys : Visit(key) \/ Receive(key) \/ ReceiveError(key) => UNCHANGED <<live, racing, row, call>>
  BY DEF Visit, Receive, ReceiveError
<1>5. \A key \in Keys : \A p \in Parts(key) : ServeList(key, p) => UNCHANGED <<live, racing, row, call>>
  BY DEF ServeList
<1>6. \A c \in Conns : OpenEdit(c) => UNCHANGED <<live, racing, row, call>>
  BY DEF OpenEdit
<1>7. CloseEdit \/ UNCHANGED vars => UNCHANGED <<live, racing, row, call>>
  BY DEF CloseEdit, vars
<1>8. \A p \in Projects : SelectProject(p) => UNCHANGED <<live, racing, row, call>>
  BY DEF SelectProject
<1> QED
  BY <1>1, <1>2, <1>3, <1>4, <1>5, <1>6, <1>7, <1>8, SubmitStep, CascadeStep DEF Next

\* The table is sound in the beginning.
LEMMA TableInit == Init => TableInv
<1> SUFFICES ASSUME Init PROVE TableInv
  OBVIOUS
<1>1. /\ 1 \in Calls /\ call[1].op = "create" /\ call[1].step = "ok" /\ call[1].conn = 1
      /\ call[1].seen = {} /\ call[1].project = row[1].project
      /\ row[1].state = "live" /\ row[1].password = 1 /\ row[1].project \in Projects
      /\ \A c \in Conns : c # 1 => row[c].state = "free"
  BY InitFact
<1>2. \A k \in Calls : k # 1 => call[k].op = "none" /\ call[k].step = "free" /\ call[k].seen = {}
  BY InitFact DEF Unused
<1>3. Committed = {1} /\ live = Projects
  BY <1>1, <1>2 DEF Committed, Init
<1>4. Aimed /\ Made /\ Seen /\ Room /\ Reads /\ PasswordKept
  BY <1>1, <1>2, <1>3 DEF Aimed, Made, Seen, Room, Reads, PasswordKept, Conns
<1>5. Raced
  BY <1>1, <1>2, <1>3 DEF Raced
<1>6. QuotaRaceOnly
  <2> SUFFICES ASSUME NEW p \in Projects PROVE ~(Cardinality(RowsOf(p)) > MaxConnectionsPerProject)
    BY DEF QuotaRaceOnly
  <2>1. RowsOf(p) \subseteq {1}
    BY <1>1 DEF RowsOf
  <2>2. Cardinality({1}) = 1 /\ IsFiniteSet({1})
    BY FS_Singleton
  <2>3. Cardinality(RowsOf(p)) <= 1
    BY <2>1, <2>2, FS_Subset
  <2> QED
    BY <2>3, FiniteFact, ConnectionsAssumption
<1> QED
  BY <1>4, <1>5, <1>6 DEF TableInv

\* The types and the table's invariant hold in every reachable state.
LEMMA TableHolds == Spec => [](TypeInv /\ TableInv)
<1>1. Init => TypeInv /\ TableInv
  BY TypeInit, TableInit
<1>2. TypeInv /\ TableInv /\ [Next]_vars => (TypeInv /\ TableInv)'
  <2>1. TableInv => Aimed
    BY DEF TableInv
  <2> QED
    BY <2>1, TypeNext, TableNext
<1> QED
  BY <1>1, <1>2, PTL DEF Spec

\* A project is over its quota, a row outlives its project and an older password comes back only
\* through the races that ConnectionsSound names (CreateConnection, UpdateConnection,
\* DeleteProject), for every quota and number of requests.
THEOREM ConnectionsAreSound == Spec => []ConnectionsSound
<1>1. TypeInv /\ TableInv => ConnectionsSound
  <2>1. TypeInv /\ TableInv => OrphanRaceOnly
    <3> SUFFICES ASSUME TypeInv, TableInv, NEW c \in Conns, row[c].state = "live", row[c].project \notin live
                 PROVE  \E k \in racing : call[k].conn = c
      BY DEF OrphanRaceOnly
    <3>1. c \in racing /\ call[c].op = "create" /\ c \in Calls
      BY DEF TableInv, Raced, Made, Conns
    <3>2. call[c].conn = c
      BY <3>1 DEF TableInv, Aimed
    <3> QED
      BY <3>1, <3>2
  <2> QED
    BY <2>1, TypeSound DEF ConnectionsSound, TableInv
<1> QED
  BY <1>1, TableHolds, PTL

\* A deleted connection never comes back, whatever updates of it are under way
\* (UpdateConnection's write by id).
THEOREM GoneIsGone == Spec => GoneForGood
<1>1. TypeInv /\ TableInv /\ [Next]_vars => [\A c \in Conns : row[c].state = "gone" => row'[c].state = "gone"]_vars
  <2> SUFFICES ASSUME TypeInv, TableInv, Next, NEW c \in Conns, row[c].state = "gone"
               PROVE  row'[c].state = "gone"
    OBVIOUS
  <2>1. ASSUME NEW k \in Calls, Handle(k) PROVE row'[c].state = "gone"
    <3>0. (call[k].op \in {"update", "delete"} => call[k].conn \in Conns)
          /\ c \in Committed /\ (k \in Committed => call[k].step \in {"ok", "done", "lost"})
      BY DEF TableInv, Aimed, Made, Committed
    <3>1. CASE Insert(k)
      <4>1. k # c
        BY <3>0, <3>1 DEF Insert
      <4>2. row'[c] = row[c]
        BY <3>1, <4>1, InsertFact
      <4> QED
        BY <4>2
    <3>2. CASE Save(k)
      <4>1. call[k].conn \in Conns
        BY <3>0, <3>2 DEF Save
      <4>2. row'[c] = row[c]
        BY <3>2, <4>1, SaveFact DEF OneRow
      <4> QED
        BY <4>2
    <3>3. CASE DeleteRow(k)
      <4>1. PICK g : g = GoneRow
        OBVIOUS
      <4>2. OneRow(call[k].conn, g)
        BY <3>0, <3>3, <4>1, DeleteFact DEF DeleteRow
      <4>3. row'[c] = g \/ row'[c] = row[c]
        BY <4>2 DEF OneRow
      <4> QED
        BY <4>1, <4>3, RowsFact
    <3>4. CASE CheckCreate(k) \/ ReadRow(k) \/ Refuse(k)
      BY <3>4 DEF CheckCreate, ReadRow, Refuse
    <3> QED
      BY <2>1, <3>1, <3>2, <3>3, <3>4 DEF Handle
  <2>2. ASSUME NEW p \in Projects, DeleteProject(p) PROVE row'[c].state = "gone"
    <3>1. c \notin RowsOf(p)
      BY DEF RowsOf
    <3>2. row'[c] = row[c]
      BY <2>2, <3>1, CascadeFact DEF DeleteProject
    <3> QED
      BY <3>2
  <2>3. ASSUME row' = row PROVE row'[c].state = "gone"
    BY <2>3
  <2>4. \A k \in Calls : LoseAnswer(k) \/ FinishOk(k) \/ FinishError(k) => row' = row
    BY DEF LoseAnswer, FinishOk, FinishError
  <2>5. \A key \in Keys : Visit(key) \/ Receive(key) \/ ReceiveError(key) => row' = row
    BY DEF Visit, Receive, ReceiveError
  <2>6. \A key \in Keys : \A p \in Parts(key) : ServeList(key, p) => row' = row
    BY DEF ServeList
  <2>7. (\A x \in Conns : OpenEdit(x) => row' = row) /\ (CloseEdit => row' = row)
        /\ (\A p \in Projects : SelectProject(p) => row' = row)
    BY DEF OpenEdit, CloseEdit, SelectProject
  <2>8. ASSUME NEW k \in Calls,
               \/ SubmitOther(k) \/ \E p \in Projects : SubmitCreate(k, p)
               \/ \E typed \in BOOLEAN : SubmitEdit(k, typed)
               \/ \E x \in Conns : SubmitDelete(k, x)
        PROVE  row' = row
    BY <2>8, SubmitFact
  <2> QED
    BY <2>1, <2>2, <2>3, <2>4, <2>5, <2>6, <2>7, <2>8 DEF Next
<1> QED
  BY <1>1, TableHolds, PTL DEF Spec, GoneForGood

\* The changes of project p that have their answer, where the answer has named its list.
DoneOf(p) == {k \in Calls : call[k].by = "me" /\ call[k].step = "done" /\ call[k].project = p /\ p \in aim[k]}

\* The list of project p, and what has been fetched for it, hold what was done before.
UpToDate(p) == ~cache[p].missed =>
                  /\ cache[p].fresh => DoneOf(p) \subseteq cache[p].data.seen
                  /\ cache[p].busy /\ p \in DOMAIN cache[p].got => DoneOf(p) \subseteq cache[p].got[p].seen
ListInv == \A p \in Projects : UpToDate(p)

\* What has its answer keeps the aim it had.
AimStays == \A k \in here : call[k].step # "done"

\* A list that stays as it is stays up to date, where no answer has come.
LEMMA ListOf == ASSUME NEW p, UpToDate(p), cache'[p] = cache[p], DoneOf(p)' \subseteq DoneOf(p) PROVE UpToDate(p)'
  BY DEF UpToDate

\* No answer comes where the requests stay as they are.
LEMMA DoneSame == ASSUME AimStays, call' = call, aim' = aim \/ (\A j \in Calls : j \notin here => aim'[j] = aim[j]), NEW p
                  PROVE  DoneOf(p)' = DoneOf(p)
  BY DEF DoneOf, AimStays

\* No answer comes where the one request that changes has none.
LEMMA DoneOne == ASSUME NEW k \in Calls, \A j \in Calls : j # k => call'[j] = call[j] /\ aim'[j] = aim[j],
                        call'[k].step # "done", NEW p
                 PROVE  DoneOf(p)' \subseteq DoneOf(p)
  BY DEF DoneOf

\* What has its answer has been carried out.
LEMMA DoneCommitted == \A p : DoneOf(p) \subseteq OwnCommitted
  BY DEF DoneOf, OwnCommitted, Committed

\* The handlers, and the requests, leave the lists up to date.
LEMMA ListHandle ==
  ASSUME TypeInv, Aimed, ListInv, NEW k \in Calls,
         \/ Handle(k) \/ LoseAnswer(k) \/ SubmitOther(k) \/ \E p \in Projects : SubmitCreate(k, p)
         \/ \E typed \in BOOLEAN : SubmitEdit(k, typed)
         \/ \E c \in Conns : SubmitDelete(k, c)
  PROVE  ListInv' /\ (AimStays => AimStays')
<1>0. call[k].op \in {"update", "delete"} => call[k].conn \in Conns
  BY DEF Aimed
<1>1. cache' = cache /\ (\A j \in Calls : j # k => call'[j] = call[j]) /\ call'[k].step # "done"
      /\ (\A j \in Calls : j # k => aim'[j] = aim[j]) /\ here' \subseteq here \cup {k}
  <2>1. CASE CheckCreate(k)
    BY <2>1, GoesFact DEF CheckCreate, Server, Further
  <2>2. CASE Insert(k)
    BY <2>2, InsertFact DEF Insert, Server, Further
  <2>3. CASE ReadRow(k)
    BY <1>0, <2>3, ReadFact DEF ReadRow, Server, Further
  <2>4. CASE Save(k)
    <3>1. call[k].conn \in Conns
      BY <1>0, <2>4 DEF Save
    <3> QED
      BY <2>4, <3>1, SaveFact, TurnedFact DEF Save, Server, Further, Blanked
  <2>5. CASE DeleteRow(k)
    BY <1>0, <2>5, DeleteFact DEF DeleteRow, Server, Further
  <2>6. CASE Refuse(k)
    BY <2>6, TurnedFact DEF Refuse, Server, Blanked
  <2>7. CASE LoseAnswer(k)
    BY <2>7, EndFact DEF LoseAnswer, Server, Further
  <2>8. CASE \/ SubmitOther(k) \/ \E p \in Projects : SubmitCreate(k, p)
             \/ \E typed \in BOOLEAN : SubmitEdit(k, typed)
             \/ \E c \in Conns : SubmitDelete(k, c)
    BY <2>8, SubmitFact, SubmitAims DEF Blanked, AimedNew
  <2> QED
    BY <2>1, <2>2, <2>3, <2>4, <2>5, <2>6, <2>7, <2>8 DEF Handle
<1>2. AimStays => AimStays'
  BY <1>1 DEF AimStays, TypeInv
<1> QED
  BY <1>1, <1>2, DoneOne, ListOf DEF ListInv

\* An answer leaves the lists up to date: those that it names are invalidated.
LEMMA ListFinish == ASSUME TypeInv, ListInv, NEW k \in Calls, FinishOk(k) PROVE ListInv' /\ (AimStays => AimStays')
<1>1. Further(k, "done", call[k].seen) /\ aim' = aim
      /\ cache' = [key \in Keys |-> IF key \in aim[k] THEN Invalidated(key, cache[key]) ELSE cache[key]]
  BY EndFact DEF FinishOk, Answered, Invalidate
<1>2. PICK T : T = aim[k]
  OBVIOUS
<1>6. AimStays => AimStays'
  <2>1. here' = here \ {k}
    BY DEF FinishOk
  <2> QED
    BY <1>1, <2>1 DEF AimStays, Further, TypeInv
<1> SUFFICES ASSUME NEW p \in Projects PROVE UpToDate(p)'
  BY <1>6 DEF ListInv
<1>3. p \in Keys /\ cache[p] \in Query /\ UpToDate(p)
  BY DEF Keys, TypeInv, ListInv
<1>4. CASE p \in T
  <2> DEFINE i == Invalidated(p, cache[p])
  <2>1. cache'[p] = i
    BY <1>1, <1>2, <1>3, <1>4
  <2>2. \/ i.fresh = FALSE /\ i.missed = TRUE
        \/ i.fresh = FALSE /\ i.got = [x \in {} |-> Nothing]
        \/ i.fresh = FALSE /\ i.busy = FALSE
    BY <1>3, InvalidatedFact
  <2> HIDE DEF i
  <2>3. i.got = [x \in {} |-> Nothing] => p \notin DOMAIN i.got
    BY NothingFact
  <2> QED
    BY <2>1, <2>2, <2>3 DEF UpToDate
<1>5. CASE p \notin T
  <2>1. cache'[p] = cache[p]
    BY <1>1, <1>2, <1>3, <1>5
  <2>3. DoneOf(p)' \subseteq DoneOf(p)
    BY <1>1, <1>2, <1>5 DEF DoneOf, Further
  <2> QED
    BY <1>3, <2>1, <2>3, ListOf
<1> QED
  BY <1>4, <1>5

\* The list requests leave the lists up to date.
LEMMA ListBrowser ==
  ASSUME TypeInv, ListInv, AimStays, NEW key \in Keys,
         Visit(key) \/ Receive(key) \/ ReceiveError(key) \/ \E p \in Parts(key) : ServeList(key, p)
  PROVE  ListInv' /\ AimStays'
<1>7. /\ call' = call /\ here' \subseteq here
      /\ aim' = aim \/ (\A j \in Calls : j \notin here => aim'[j] = aim[j])
  BY VisitAims DEF Visit, Receive, ReceiveError, ServeList, Followed
<1>8. AimStays'
  BY <1>7 DEF AimStays
<1> SUFFICES ASSUME NEW p \in Projects PROVE UpToDate(p)'
  BY <1>8 DEF ListInv
<1>1. p \in Keys /\ cache[p] \in Query /\ cache \in [Keys -> Query] /\ UpToDate(p) /\ p # "all"
  BY ConnectionsAssumption DEF Keys, TypeInv, ListInv
<1>2. call' = call /\ DoneOf(p)' = DoneOf(p)
  BY <1>7, DoneSame
<1>3. CASE Visit(key)
  <2>1. CASE cache'[p] = cache[p]
    BY <1>1, <1>2, <2>1, ListOf
  <2>2. CASE cache'[p] # cache[p]
    <3> DEFINE f == Fetching(cache[p])
    <3>1. cache'[p] = f
      BY <1>1, <1>3, <2>2 DEF Visit
    <3>2. f.fresh = FALSE /\ f.got = [x \in {} |-> Nothing]
      BY <1>1, FetchingFact
    <3> HIDE DEF f
    <3>3. p \notin DOMAIN f.got
      BY <3>2, NothingFact
    <3> QED
      BY <3>1, <3>2, <3>3 DEF UpToDate
  <2> QED
    BY <2>1, <2>2
<1>4. CASE Receive(key)
  <2>1. CASE key # p
    BY <1>1, <1>2, <1>4, <2>1, ReceiveFact, ListOf
  <2>2. CASE key = p
    <3>1. cache[p].busy /\ DOMAIN cache[p].got = {p}
      BY <1>1, <1>4, <2>2 DEF Receive, Parts
    <3>2. cache'[p].data = Joined(cache[p].got) /\ cache'[p].busy = FALSE /\ cache'[p].missed = cache[p].missed
      BY <1>4, <2>2, ReceiveFact
    <3>3. Joined(cache[p].got).seen = {k \in Calls : call[k].project \in DOMAIN cache[p].got
                                                     /\ k \in cache[p].got[call[k].project].seen}
      BY DEF Joined
    <3>4. ~cache[p].missed => DoneOf(p) \subseteq Joined(cache[p].got).seen
      BY <1>1, <3>1, <3>3 DEF UpToDate, DoneOf
    <3> QED
      BY <1>2, <3>2, <3>4 DEF UpToDate
  <2> QED
    BY <2>1, <2>2
<1>5. CASE ReceiveError(key)
  <2>1. CASE key # p
    BY <1>1, <1>2, <1>5, <2>1, ErrorFact, ListOf
  <2>2. CASE key = p
    BY <1>1, <1>2, <1>5, <2>2, ErrorFact DEF UpToDate
  <2> QED
    BY <2>1, <2>2
<1>6. ASSUME NEW x \in Parts(key), ServeList(key, x) PROVE UpToDate(p)'
  <2>1. PICK found \in Snapshot : Served(key, x, found) /\ (key # "all" => found = Found(x))
    BY <1>6, ServeFact
  <2>2. CASE key # p
    BY <1>1, <1>2, <2>1, <2>2, ServedFact, ListOf
  <2>3. CASE key = p
    <3>1. x = p /\ found = Found(p)
      BY <1>1, <2>1, <2>3 DEF Parts
    <3>2. found.seen = OwnCommitted
      BY <3>1 DEF Found
    <3>3. DoneOf(p) \subseteq found.seen
      BY <3>2, DoneCommitted
    <3>4. /\ cache'[p].got[p] = found /\ cache'[p].data = cache[p].data
          /\ cache'[p].fresh = cache[p].fresh /\ cache'[p].missed = cache[p].missed
      BY <2>1, <2>3, <3>1, ServedFact
    <3> QED
      BY <1>1, <1>2, <3>3, <3>4 DEF UpToDate
  <2> QED
    BY <2>2, <2>3
<1> QED
  BY <1>3, <1>4, <1>5, <1>6

\* Every step leaves the lists up to date.
LEMMA ListNext == TypeInv /\ Aimed /\ ListInv /\ AimStays /\ [Next]_vars => ListInv' /\ AimStays'
<1> SUFFICES ASSUME TypeInv, Aimed, ListInv, AimStays, [Next]_vars PROVE ListInv' /\ AimStays'
  OBVIOUS
<1>1. CASE UNCHANGED <<call, cache, aim, here>>
  BY <1>1, DoneSame, ListOf DEF ListInv, AimStays
<1>2. \A k \in Calls : FinishError(k) => UNCHANGED <<call, cache, aim, here>>
  BY DEF FinishError
<1>3. \A p \in Projects : DeleteProject(p) => UNCHANGED <<call, cache, aim, here>>
  BY DEF DeleteProject
<1>4. \A c \in Conns : OpenEdit(c) => UNCHANGED <<call, cache, aim, here>>
  BY DEF OpenEdit
<1>5. CloseEdit \/ UNCHANGED vars => UNCHANGED <<call, cache, aim, here>>
  BY DEF CloseEdit, vars
<1>6. ASSUME NEW p \in Projects, SelectProject(p) PROVE ListInv' /\ AimStays'
  <2>1. UNCHANGED <<call, cache>> /\ here' \subseteq here /\ \A j \in Calls : j \notin here => aim'[j] = aim[j]
    BY <1>6, SelectAims DEF SelectProject, Followed
  <2> QED
    BY <2>1, DoneSame, ListOf DEF ListInv, AimStays
<1> QED
  BY <1>1, <1>2, <1>3, <1>4, <1>5, <1>6, ListHandle, ListFinish, ListBrowser DEF Next

\* The list of a project shows every change of the user whose answer has named it, whatever pages
\* and projects were opened since, unless the fetch it is fresh by could not be replaced when
\* the answer came (the callbacks of useConnectionWizard, ProjectDetailsPage, ConnectionsPage
\* and EditConnectionModal), for every number of projects and requests.
THEOREM WritesAreShown == Spec => []OwnWritesShown
<1>1. Init => ListInv /\ AimStays
  <2>1. ASSUME Init, NEW p \in Projects PROVE UpToDate(p)
    <3>1. cache[p] = Unloaded
      BY <2>1 DEF Init, Keys
    <3>2. Unloaded.fresh = FALSE /\ Unloaded.busy = FALSE
      BY DEF Unloaded
    <3> QED
      BY <3>1, <3>2 DEF UpToDate
  <2> QED
    BY <2>1 DEF ListInv, AimStays, Init
<1>2. (TypeInv /\ TableInv) /\ (ListInv /\ AimStays) /\ [Next]_vars => (ListInv /\ AimStays)'
  BY ListNext DEF TableInv
<1>3. ListInv => OwnWritesShown
  <2> SUFFICES ASSUME ListInv, NEW p \in Projects, NEW k \in Calls, call[k].by = "me", call[k].step = "done",
                      p \in aim[k], call[k].project \in Parts(p), cache[p].fresh, ~cache[p].missed
               PROVE  k \in cache[p].data.seen
    BY DEF OwnWritesShown, CurrentFor
  <2>1. call[k].project = p
    BY ConnectionsAssumption DEF Parts
  <2>2. k \in DoneOf(p)
    BY <2>1 DEF DoneOf
  <2> QED
    BY <2>2 DEF ListInv, UpToDate
<1> QED
  BY <1>1, <1>2, <1>3, TableHolds, PTL DEF Spec
===============================================================================
