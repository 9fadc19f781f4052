--------------------------- MODULE SchemaDiffProofs ---------------------------
(***************************************************************************)
(* Proofs about SchemaDiff.                                                 *)
(*                                                                          *)
(* The first part is about the comparison and the exported SQL alone: what  *)
(* they promise holds for any two schemas, and so for those of any two      *)
(* connections.  The second part is about the page: PageInv, the inductive  *)
(* invariant, adds to PageSound that a request or an answer kept under a    *)
(* pair was asked with that pair, and that a press not yet answered has a   *)
(* request which has read, and will read, nothing older than the press saw. *)
(***************************************************************************)
EXTENDS SchemaDiff, TLAPS

\* A partial function, its domain and its values.
LEMMA PartialFact ==
  ASSUME NEW D, NEW R, NEW f \in Partial(D, R)
  PROVE  /\ DOMAIN f \subseteq D
         /\ f = [x \in DOMAIN f |-> f[x]]
         /\ \A x \in DOMAIN f : f[x] \in R
  BY DEF Partial

\* Two partial functions with the same arguments and values are the same.
LEMMA PartialEqual ==
  ASSUME NEW D, NEW R, NEW f \in Partial(D, R), NEW g \in Partial(D, R),
         DOMAIN f = DOMAIN g, \A x \in DOMAIN f : f[x] = g[x]
  PROVE  f = g
<1>1. f = [x \in DOMAIN f |-> f[x]] /\ g = [x \in DOMAIN g |-> g[x]]
  BY PartialFact
<1>2. [x \in DOMAIN f |-> f[x]] = [x \in DOMAIN g |-> g[x]]
  OBVIOUS
<1> QED
  BY <1>1, <1>2

\* Two columns are equal when nothing the comparison looks at differs.
LEMMA DifferFact ==
  ASSUME NEW s \in AnyTable, NEW d \in AnyTable
  PROVE  Differ(s, d) <=> s # d
<1>1. s = d => ~Differ(s, d)
  BY DEF Differ, ColumnsAdded, ColumnsRemoved, ColumnsAltered, Common
<1>2. ASSUME ~Differ(s, d) PROVE s = d
  <2>1. DOMAIN s = DOMAIN d
    BY <1>2 DEF Differ, ColumnsAdded, ColumnsRemoved
  <2>2. ASSUME NEW c \in DOMAIN s PROVE s[c] = d[c]
    <3>1. s[c] \in AnyColumn /\ d[c] \in AnyColumn
      BY <2>1, PartialFact DEF AnyTable
    <3>2. s[c].type = d[c].type /\ s[c].mark = d[c].mark
      BY <1>2, <2>1 DEF Differ, ColumnsAltered, Common
    <3> QED
      BY <3>1, <3>2 DEF AnyColumn
  <2> QED
    BY <2>1, <2>2, PartialEqual DEF AnyTable
<1> QED
  BY <1>1, <1>2

\* CalculateSchemaDiff, whatever the two schemas: every table of either is in one
\* class, and nothing is found exactly when the schemas are the same.
THEOREM ComparisonIsExact ==
  ASSUME NEW a \in AnySchema, NEW b \in AnySchema
  PROVE  Exact(a, b)
<1>1. \A t \in Common(a, b) : a[t] \in AnyTable /\ b[t] \in AnyTable
  BY PartialFact DEF AnySchema, Common
<1>2. TablesAdded(a, b) \cup TablesRemoved(a, b) \cup TablesAltered(a, b) \cup TablesSame(a, b) = DOMAIN a \cup DOMAIN b
  BY DEF TablesAdded, TablesRemoved, TablesAltered, TablesSame, Common
<1>3. ASSUME a = b PROVE TablesAdded(a, b) \cup TablesRemoved(a, b) \cup TablesAltered(a, b) = {}
  <2>1. \A t \in DOMAIN a : ~Differ(a[t], b[t])
    BY <1>1, <1>3, DifferFact DEF Common
  <2> QED
    BY <1>3, <2>1 DEF TablesAdded, TablesRemoved, TablesAltered, Common
<1>4. ASSUME TablesAdded(a, b) \cup TablesRemoved(a, b) \cup TablesAltered(a, b) = {} PROVE a = b
  <2>1. DOMAIN a = DOMAIN b
    BY <1>4 DEF TablesAdded, TablesRemoved
  <2>2. \A t \in DOMAIN a : a[t] = b[t]
    BY <1>1, <1>4, <2>1, DifferFact DEF TablesAltered, Common
  <2> QED
    BY <2>1, <2>2, PartialEqual DEF AnySchema
<1> QED
  BY <1>2, <1>3, <1>4 DEF Exact

\* A table altered as the exported SQL says has the source's columns, with their types.
LEMMA AlteredFact ==
  ASSUME NEW s \in AnyTable, NEW d \in AnyTable, NEW c \in DOMAIN s
  PROVE  c \in DOMAIN AlteredTable(s, d) /\ AlteredTable(s, d)[c].type = s[c].type
<1>1. c \in DOMAIN d \cup ColumnsAdded(s, d)
  BY DEF ColumnsAdded
<1>2. AlteredTable(s, d)[c] = IF c \in ColumnsAdded(s, d) THEN s[c]
                              ELSE IF c \in ColumnsAltered(s, d) THEN [type |-> s[c].type, mark |-> d[c].mark]
                              ELSE d[c]
  BY <1>1 DEF AlteredTable
<1>3. c \in ColumnsAdded(s, d) \/ c \in ColumnsAltered(s, d) \/ (c \in DOMAIN d /\ s[c].type = d[c].type)
  BY DEF ColumnsAdded, ColumnsAltered, Common
<1>4. c \in DOMAIN AlteredTable(s, d)
  BY <1>1 DEF AlteredTable
<1>5. CASE c \in ColumnsAdded(s, d)
  BY <1>2, <1>4, <1>5
<1>6. CASE c \notin ColumnsAdded(s, d) /\ c \in ColumnsAltered(s, d)
  BY <1>2, <1>4, <1>6
<1>7. CASE c \notin ColumnsAdded(s, d) /\ c \notin ColumnsAltered(s, d)
  BY <1>2, <1>3, <1>4, <1>7
<1> QED
  BY <1>5, <1>6, <1>7

\* The SQL the viewer exports, whatever the two schemas: once it has run the target
\* lacks none of the source's tables, and what both had has all of the columns.
THEOREM ExportDoesClose ==
  ASSUME NEW a \in AnySchema, NEW b \in AnySchema
  PROVE  Closes(a, b)
<1> DEFINE after == Exported(a, b)
<1>1. DOMAIN after = DOMAIN a \cup DOMAIN b
  BY DEF Exported
<1>2. ASSUME NEW t \in Common(a, b), NEW c \in DOMAIN a[t]
      PROVE  c \in DOMAIN after[t] /\ after[t][c].type = a[t][c].type
  <2>1. a[t] \in AnyTable /\ b[t] \in AnyTable
    BY PartialFact DEF AnySchema, Common
  <2>2. after[t] = IF t \in TablesAltered(a, b) THEN AlteredTable(a[t], b[t]) ELSE b[t]
    BY DEF Exported, TablesAdded, Common
  <2>3. CASE t \in TablesAltered(a, b)
    BY <2>1, <2>2, <2>3, AlteredFact
  <2>4. CASE t \notin TablesAltered(a, b)
    <3>1. a[t] = b[t]
      BY <2>1, <2>4, DifferFact DEF TablesAltered
    <3> QED
      BY <2>2, <2>4, <3>1
  <2> QED
    BY <2>3, <2>4
<1> HIDE DEF after
<1>3. TablesAdded(a, after) = {}
  BY <1>1 DEF TablesAdded
<1> QED
  BY <1>2, <1>3 DEF Closes, after

\* Others may change a schema, but into a schema.
LEMMA SchemasTyped == Spec => [](schema \in [Conns -> AnySchema])
<1> DEFINE Typed == schema \in [Conns -> AnySchema]
<1>1. Init => Typed
  BY DEF Init
<1>2. Typed /\ [Next]_vars => Typed'
  <2> SUFFICES ASSUME Typed, [Next]_vars PROVE Typed'
    OBVIOUS
  <2>1. ASSUME NEW c \in Conns, NEW t \in Tables, Change(c, t) PROVE Typed'
    BY <2>1 DEF Change
  <2>2. CASE UNCHANGED schema
    BY <2>2
  <2> QED
    BY <2>1, <2>2 DEF Next, vars, ChooseSource, ChooseTarget, Inspect, Compare, Return, ReadSource, ReadTarget, Receive, Fail
<1> QED
  BY <1>1, <1>2, PTL DEF Spec

\* In every state the comparison of any two databases, and the SQL made from it,
\* are what they should be.
THEOREM DiffIsSound == Spec => []DiffSound
<1>1. schema \in [Conns -> AnySchema] => DiffSound
  <2> SUFFICES ASSUME schema \in [Conns -> AnySchema], NEW c \in Conns, NEW d \in Conns
               PROVE  Exact(schema[c], schema[d]) /\ Closes(schema[c], schema[d])
    BY DEF DiffSound, DiffExact, ExportCloses
  <2>1. schema[c] \in AnySchema /\ schema[d] \in AnySchema
    OBVIOUS
  <2> QED
    BY <2>1, ComparisonIsExact, ExportDoesClose
<1> QED
  BY <1>1, SchemasTyped, PTL

ConnPairs == Conns \X Conns

\* The requests under way, by how far the server has read.
Fetches ==
         [pair : ConnPairs, of : ConnPairs, step : {"sent"}, src : {<<>>}, at : {<<0, 0>>}]
    \cup [pair : ConnPairs, of : ConnPairs, step : {"half"}, src : AnySchema, at : Nat \X {0}]
    \cup [pair : ConnPairs, of : ConnPairs, step : {"read"}, src : AnySchema, dst : AnySchema, at : Nat \X Nat]
Answers == [pair : ConnPairs, of : ConnPairs, src : AnySchema, dst : AnySchema, at : Nat \X Nat]

\* What is kept under a pair was asked with that pair, and a pair has one request
\* under way and one answer.
Keyed(S) == /\ \A f \in S : f.of = f.pair
            /\ \A f, g \in S : f.pair = g.pair => f = g

\* f reads nothing older than what p saw.
Later(f, p) == /\ f.pair = p.pair
               /\ f.step \in {"half", "read"} => p.at[1] <= f.at[1]
               /\ f.step = "read" => p.at[2] <= f.at[2]

Chosen == source \in Conns \cup {None} /\ target \in Conns \cup {None}

\* The press that is not yet answered has a request that will answer it.
Awaited == \A p \in pressed : /\ p.pair \in ConnPairs /\ p.at \in Nat \X Nat
                              /\ p.at[1] <= version[p.pair[1]] /\ p.at[2] <= version[p.pair[2]]
                              /\ \E f \in fetching : Later(f, p)

Counted == /\ choices \in 0..MaxChoices /\ presses \in 0..MaxPresses
           /\ changes \in 0..MaxChanges /\ faults \in 0..MaxFaults
           /\ \A c \in Conns : version[c] <= changes

Viewed == viewer \in [there : BOOLEAN, shows : {viewer.shows}] /\ (viewer.there <=> EntryOf(Pair) # {})

PageInv == /\ schema \in [Conns -> AnySchema] /\ version \in [Conns -> Nat]
           /\ Chosen /\ Counted
           /\ fetching \subseteq Fetches /\ Keyed(fetching)
           /\ cached \subseteq Answers /\ Keyed(cached)
           /\ Awaited /\ Viewed

\* The chosen pair is of the project's connections.
LEMMA PairType == Chosen => EffectiveSource \in Conns /\ (Asks => EffectiveTarget \in Conns /\ Pair \in ConnPairs)
<1> SUFFICES ASSUME Chosen PROVE EffectiveSource \in Conns /\ (Asks => EffectiveTarget \in Conns /\ Pair \in ConnPairs)
  OBVIOUS
<1>1. \A S \in SUBSET Conns : S # {} => FirstOf(S) \in Conns
  BY DEF FirstOf
<1>2. EffectiveSource \in Conns
  BY <1>1, DiffAssumption DEF EffectiveSource, Chosen
<1>3. Asks => EffectiveTarget \in Conns
  <2>1. \A S \in SUBSET Conns : FirstOf(S) \in Conns \cup {None}
    BY DEF FirstOf
  <2> QED
    BY <2>1 DEF EffectiveTarget, Chosen, Asks
<1> QED
  BY <1>2, <1>3 DEF Pair, ConnPairs

\* The cache and the requests under way, one request or answer more.
LEMMA KeyedFact ==
  ASSUME NEW S, Keyed(S), NEW x, x.of = x.pair, \A f \in S : f.pair # x.pair
  PROVE  Keyed(S \cup {x})
  BY DEF Keyed

\* Asking for a pair, if it has no request under way.
LEMMA ObserveFact ==
  ASSUME PageInv, NEW q \in ConnPairs, \A f \in fetching : f.pair # q
  PROVE  LET s == [pair |-> q, of |-> q, step |-> "sent", src |-> <<>>, at |-> <<0, 0>>]
         IN  fetching \cup {s} \subseteq Fetches /\ Keyed(fetching \cup {s})
<1> DEFINE s == [pair |-> q, of |-> q, step |-> "sent", src |-> <<>>, at |-> <<0, 0>>]
<1>1. s \in Fetches
  BY DEF Fetches
<1>2. s.of = s.pair /\ s.pair = q
  OBVIOUS
<1> HIDE DEF s
<1> QED
  BY <1>1, <1>2, KeyedFact DEF PageInv, s

\* The viewer as it begins with an answer.
LEMMA BegunFact == \A e : \A v \in Begun(e) : v.there = TRUE /\ v = [there |-> v.there, shows |-> v.shows]
<1> SUFFICES ASSUME NEW e, NEW v \in Begun(e)
             PROVE  v.there = TRUE /\ v = [there |-> v.there, shows |-> v.shows]
  OBVIOUS
<1> DEFINE X == IF TablesAltered(e.src, e.dst) = {} THEN {NoTable} ELSE {TableOf(e, t) : t \in TablesAltered(e.src, e.dst)}
<1>1. Begun(e) = [there : {TRUE}, shows : X]
  BY DEF Begun
<1> HIDE DEF X
<1>2. v \in [there : {TRUE}, shows : X]
  BY <1>1
<1>3. v.there = TRUE
  BY <1>2
<1>4. v = [there |-> v.there, shows |-> v.shows]
  BY <1>2, Zenon
<1> QED
  BY <1>3, <1>4

\* The viewer as it is when the user comes back to the page.
LEMMA ComeFact ==
  ASSUME viewer' \in IF EntryOf(Pair)' = {} THEN {Absent} ELSE UNION {Begun(e) : e \in EntryOf(Pair)'}
  PROVE  Viewed'
<1>1. Absent.there = FALSE /\ Absent = [there |-> Absent.there, shows |-> Absent.shows]
  BY DEF Absent
<1>2. /\ viewer' = [there |-> viewer'.there, shows |-> viewer'.shows] /\ viewer'.there \in BOOLEAN
      /\ viewer'.there <=> EntryOf(Pair)' # {}
  BY <1>1, BegunFact
<1> QED
  BY <1>2 DEF Viewed

\* Whatever the viewer shows, it is there exactly when there is something to show.
LEMMA ShowFact ==
  ASSUME Viewed, Show PROVE Viewed'
<1>2. Absent.there = FALSE /\ Absent = [there |-> Absent.there, shows |-> Absent.shows]
  BY DEF Absent
<1>3. viewer = [there |-> viewer.there, shows |-> viewer.shows] /\ viewer.there \in BOOLEAN
  BY DEF Viewed
<1>4. /\ viewer' = [there |-> viewer'.there, shows |-> viewer'.shows] /\ viewer'.there \in BOOLEAN
      /\ viewer'.there <=> EntryOf(Pair)' # {}
  BY BegunFact, <1>2, <1>3 DEF Show
<1> QED
  BY <1>4 DEF Viewed

\* Init establishes the invariant.
LEMMA PageInit == Init => PageInv
<1> SUFFICES ASSUME Init PROVE PageInv
  OBVIOUS
<1>1. Chosen /\ Counted
  BY DiffAssumption DEF Init, Chosen, Counted
<1>2. cached = {} /\ pressed = {} /\ viewer = Absent /\ version = [c \in Conns |-> 0]
      /\ schema \in [Conns -> AnySchema]
  BY DEF Init
<1>3. Viewed
  BY <1>2 DEF Viewed, EntryOf, Absent
<1>4. fetching \subseteq Fetches /\ Keyed(fetching)
  <2>1. CASE Asks
    <3> DEFINE s == [pair |-> Pair, of |-> <<EffectiveSource, EffectiveTarget>>, step |-> "sent", src |-> <<>>, at |-> <<0, 0>>]
    <3>1. fetching = {s}
      BY <2>1 DEF Init
    <3>2. s.pair \in ConnPairs /\ s.of = s.pair
      BY <1>1, <2>1, PairType DEF Pair
    <3>3. s \in Fetches
      BY <1>1, <2>1, PairType DEF Pair, Fetches
    <3> HIDE DEF s
    <3> QED
      BY <3>1, <3>2, <3>3 DEF Keyed
  <2>2. CASE ~Asks
    BY <2>2 DEF Init, Keyed
  <2> QED
    BY <2>1, <2>2
<1> QED
  BY <1>1, <1>2, <1>3, <1>4 DEF PageInv, Keyed, Awaited

\* Coming to a pair of connections, by a choice or by coming back to the page.
LEMMA ArriveInv ==
  PageInv /\ ((\E c \in Conns : ChooseSource(c) \/ ChooseTarget(c)) \/ Return) => PageInv'
<1> SUFFICES ASSUME PageInv, (\E c \in Conns : ChooseSource(c) \/ ChooseTarget(c)) \/ Return PROVE PageInv'
  OBVIOUS
<1>1. /\ UNCHANGED <<schema, version, cached, pressed, presses, changes, faults>>
      /\ choices < MaxChoices /\ choices' = choices + 1
      /\ Observe(fetching)
      /\ Show \/ viewer' \in IF EntryOf(Pair)' = {} THEN {Absent} ELSE UNION {Begun(e) : e \in EntryOf(Pair)'}
  BY DEF ChooseSource, ChooseTarget, Return, Choice
<1>2. Chosen'
  BY DEF PageInv, ChooseSource, ChooseTarget, Return, Chosen
<1>3. Counted'
  BY <1>1, DiffAssumption DEF PageInv, Counted
<1>4. EffectiveSource' \in Conns /\ (Asks' => EffectiveTarget' \in Conns /\ Pair' \in ConnPairs)
  <2>1. (Chosen => EffectiveSource \in Conns /\ (Asks => EffectiveTarget \in Conns /\ Pair \in ConnPairs))'
    BY PairType, PTL
  <2> QED
    BY <1>2, <2>1
<1>5. fetching' \subseteq Fetches /\ Keyed(fetching') /\ fetching \subseteq fetching'
  <2> DEFINE s == [pair |-> Pair', of |-> Pair', step |-> "sent", src |-> <<>>, at |-> <<0, 0>>]
  <2>1. CASE Asks' /\ EntryOf(Pair)' = {} /\ ~(\E f \in fetching : f.pair = Pair')
    <3>1. fetching' = fetching \cup {s}
      BY <1>1, <2>1 DEF Observe, Sent, Pair
    <3> QED
      BY <1>4, <2>1, <3>1, ObserveFact
  <2>2. CASE ~(Asks' /\ EntryOf(Pair)' = {} /\ ~(\E f \in fetching : f.pair = Pair'))
    BY <1>1, <2>2 DEF Observe, PageInv
  <2> QED
    BY <2>1, <2>2
<1>6. Awaited'
  BY <1>1, <1>5 DEF PageInv, Awaited, Later
<1>7. Viewed'
  BY <1>1, ShowFact, ComeFact DEF PageInv
<1> QED
  BY <1>1, <1>2, <1>3, <1>5, <1>6, <1>7 DEF PageInv, Keyed

\* What is on screen depends on the choices and the cache.
LEMMA SameScreen ==
  ASSUME UNCHANGED <<source, target, cached>>
  PROVE  UNCHANGED <<EffectiveSource, EffectiveTarget, Pair, EntryOf(Pair)>>
  BY DEF EffectiveSource, EffectiveTarget, Pair, EntryOf

\* Looking at another table changes what the viewer shows only.
LEMMA InspectInv == ASSUME PageInv, NEW t \in Tables, Inspect(t) PROVE PageInv'
<1>1. /\ UNCHANGED <<schema, version, source, target, cached, fetching, pressed, bounds>>
      /\ viewer.there
      /\ \E e \in EntryOf(Pair) : viewer' = [viewer EXCEPT !.shows = TableOf(e, t)]
  BY DEF Inspect
<1>2. Viewed'
  <2>1. PICK x : viewer' = [viewer EXCEPT !.shows = x]
    BY <1>1
  <2>2. viewer = [there |-> viewer.there, shows |-> viewer.shows]
    BY DEF PageInv, Viewed
  <2>3. viewer' = [there |-> viewer.there, shows |-> x]
    BY <2>1, <2>2
  <2>4. viewer.there \in BOOLEAN /\ (viewer.there <=> EntryOf(Pair) # {})
    BY DEF PageInv, Viewed
  <2> QED
    BY <1>1, <2>3, <2>4, SameScreen DEF Viewed
<1> QED
  BY <1>1, <1>2 DEF PageInv, Chosen, Counted, Awaited, Later, Keyed, bounds

\* The press takes the place of an earlier one, and so does its request.
LEMMA CompareInv == PageInv /\ Compare => PageInv'
<1> SUFFICES ASSUME PageInv, Compare PROVE PageInv'
  OBVIOUS
<1>1. /\ UNCHANGED <<schema, version, source, target, cached, viewer, choices, changes, faults>>
      /\ presses < MaxPresses /\ presses' = presses + 1 /\ Asks
      /\ fetching' = Again(fetching, Pair)
      /\ pressed' = {[pair |-> Pair, at |-> <<version[EffectiveSource], version[EffectiveTarget]>>]}
  BY DEF Compare
<1>2. EffectiveSource \in Conns /\ EffectiveTarget \in Conns /\ Pair \in ConnPairs
  BY <1>1, PairType DEF PageInv
<1> DEFINE s == [pair |-> Pair, of |-> Pair, step |-> "sent", src |-> <<>>, at |-> <<0, 0>>]
           p == [pair |-> Pair, at |-> <<version[EffectiveSource], version[EffectiveTarget]>>]
           rest == {f \in fetching : f.pair # Pair}
<1>3. fetching' = rest \cup {s}
  BY <1>1, SameScreen DEF Again, Sent, Pair
<1>4. s \in Fetches /\ s.of = s.pair /\ s.pair = Pair /\ s.step = "sent"
  BY <1>2 DEF Fetches
<1>5. p.pair = Pair /\ p.at \in Nat \X Nat /\ p.at[1] = version[Pair[1]] /\ p.at[2] = version[Pair[2]]
  BY <1>2 DEF PageInv, Pair
<1>p. pressed' = {p}
  BY <1>1
<1> HIDE DEF s, p
<1>6. fetching' \subseteq Fetches /\ Keyed(fetching')
  BY <1>3, <1>4 DEF PageInv, Keyed
<1>7. Later(s, p)
  BY <1>4, <1>5 DEF Later
<1>8. Awaited'
  <2>1. version[Pair[1]] \in Nat /\ version[Pair[2]] \in Nat
    BY <1>2 DEF PageInv, ConnPairs
  <2>2. s \in fetching'
    BY <1>3
  <2>3. \E f \in fetching' : Later(f, p)
    BY <1>7, <2>2
  <2>4. p.at[1] <= version'[p.pair[1]] /\ p.at[2] <= version'[p.pair[2]] /\ p.pair \in ConnPairs /\ p.at \in Nat \X Nat
    BY <1>1, <1>2, <1>5, <2>1
  <2> QED
    BY <1>p, <2>3, <2>4 DEF Awaited, Later
<1>9. Counted'
  BY <1>1, DiffAssumption DEF PageInv, Counted
<1> QED
  BY <1>1, <1>6, <1>8, <1>9, SameScreen DEF PageInv, Chosen, Viewed, Keyed

\* The server goes on with one request: it reads no older version than before.
LEMMA ReadFact ==
  ASSUME PageInv, NEW f \in fetching, NEW g \in Fetches, g.of = f.of, g.pair = f.pair,
         \A p \in pressed : Later(f, p) => Later(g, p),
         UNCHANGED <<schema, version, source, target, cached, viewer, pressed, bounds>>,
         fetching' = (fetching \ {f}) \cup {g}
  PROVE  PageInv'
<1>1. fetching' \subseteq Fetches /\ Keyed(fetching')
  BY DEF PageInv, Keyed
<1>2. Awaited'
  <2> SUFFICES ASSUME NEW p \in pressed PROVE \E h \in fetching' : Later(h, p)
    BY DEF PageInv, Awaited, Later
  <2>1. PICK h \in fetching : Later(h, p)
    BY DEF PageInv, Awaited
  <2>2. CASE h = f
    BY <2>1, <2>2
  <2>3. CASE h # f
    BY <2>1, <2>3
  <2> QED
    BY <2>2, <2>3
<1> QED
  BY <1>1, <1>2, SameScreen DEF PageInv, Chosen, Counted, Viewed, Keyed, bounds

\* A request under way, by how far the server has read.
LEMMA FetchFact ==
  ASSUME PageInv, NEW f \in fetching
  PROVE  /\ f.pair \in ConnPairs /\ f.of = f.pair /\ f.of[1] \in Conns /\ f.of[2] \in Conns
         /\ f.step = "sent" => f = [pair |-> f.pair, of |-> f.of, step |-> "sent", src |-> <<>>, at |-> <<0, 0>>]
         /\ f.step = "half" => f.src \in AnySchema /\ f.at \in Nat \X {0}
         /\ f.step = "read" => f.src \in AnySchema /\ f.dst \in AnySchema /\ f.at \in Nat \X Nat
         /\ f.step \in {"sent", "half", "read"}
<1>1. f \in Fetches /\ f.of = f.pair
  BY DEF PageInv, Keyed
<1>2. f.pair \in ConnPairs /\ f.step \in {"sent", "half", "read"}
  BY <1>1 DEF Fetches
<1>3. f.step = "sent" => f = [pair |-> f.pair, of |-> f.of, step |-> "sent", src |-> <<>>, at |-> <<0, 0>>]
  BY <1>1 DEF Fetches
<1>4. f.step = "half" => f.src \in AnySchema /\ f.at \in Nat \X {0}
  BY <1>1 DEF Fetches
<1>5. f.step = "read" => f.src \in AnySchema /\ f.dst \in AnySchema /\ f.at \in Nat \X Nat
  BY <1>1 DEF Fetches
<1> QED
  BY <1>1, <1>2, <1>3, <1>4, <1>5 DEF ConnPairs

\* The first of the two databases is read.
LEMMA ReadSourceInv == ASSUME PageInv, NEW f \in fetching, ReadSource(f) PROVE PageInv'
<1> DEFINE v == version[f.of[1]]
           g == [pair |-> f.pair, of |-> f.of, step |-> "half", src |-> schema[f.of[1]], at |-> <<v, 0>>]
<1>1. f.step = "sent" /\ UNCHANGED <<schema, version, source, target, cached, viewer, pressed, bounds>>
  BY DEF ReadSource
<1>2. f = [pair |-> f.pair, of |-> f.of, step |-> "sent", src |-> <<>>, at |-> <<0, 0>>] /\ f.of = f.pair
      /\ f.pair \in ConnPairs /\ f.of[1] \in Conns
  BY <1>1, FetchFact
<1>4. fetching' = (fetching \ {f}) \cup {g}
  BY DEF ReadSource
<1>5. v \in Nat /\ schema[f.of[1]] \in AnySchema
  BY <1>2 DEF PageInv
<1>6. g \in Fetches /\ g.of = f.of /\ g.pair = f.pair /\ g.step = "half" /\ g.at[1] = v
  BY <1>2, <1>5 DEF Fetches
<1> HIDE DEF g
<1>7. \A p \in pressed : Later(f, p) => Later(g, p)
  BY <1>2, <1>6 DEF PageInv, Awaited, Later
<1> QED
  BY <1>1, <1>4, <1>6, <1>7, ReadFact

\* The second is.
LEMMA ReadTargetInv == ASSUME PageInv, NEW f \in fetching, ReadTarget(f) PROVE PageInv'
<1> DEFINE v == version[f.of[2]]
           g == [pair |-> f.pair, of |-> f.of, step |-> "read", src |-> f.src,
                 dst |-> schema[f.of[2]], at |-> <<f.at[1], v>>]
<1>1. f.step = "half" /\ UNCHANGED <<schema, version, source, target, cached, viewer, pressed, bounds>>
      /\ fetching' = (fetching \ {f}) \cup {g}
  BY DEF ReadTarget
<1>2. f.of = f.pair /\ f.pair \in ConnPairs /\ f.of[2] \in Conns /\ f.src \in AnySchema /\ f.at[1] \in Nat
  BY <1>1, FetchFact
<1>5. v \in Nat /\ schema[f.of[2]] \in AnySchema
  BY <1>2 DEF PageInv
<1>6. g \in Fetches /\ g.of = f.of /\ g.pair = f.pair /\ g.step = "read" /\ g.at[1] = f.at[1] /\ g.at[2] = v
  BY <1>2, <1>5 DEF Fetches
<1> HIDE DEF g
<1>7. \A p \in pressed : Later(f, p) => Later(g, p)
  BY <1>1, <1>2, <1>6 DEF PageInv, Awaited, Later
<1> QED
  BY <1>1, <1>6, <1>7, ReadFact

\* An answer takes the place of an older one, and answers no press that saw more.
LEMMA ReceiveInv == ASSUME PageInv, NEW f \in fetching, Receive(f) PROVE PageInv'
<1> DEFINE a == [pair |-> f.pair, of |-> f.of, src |-> f.src, dst |-> f.dst, at |-> f.at]
           kept == {e \in cached : e.pair # f.pair}
<1>1. /\ f.step = "read" /\ UNCHANGED <<schema, version, source, target, bounds>>
      /\ cached' = kept \cup {a} /\ fetching' = fetching \ {f}
      /\ pressed' = {p \in pressed : p.pair # f.pair \/ p.at[1] > f.at[1] \/ p.at[2] > f.at[2]}
      /\ Show
  BY DEF Receive
<1>2. /\ f.of = f.pair /\ f.pair \in ConnPairs /\ f.src \in AnySchema /\ f.dst \in AnySchema
      /\ f.at \in Nat \X Nat
  BY <1>1, FetchFact
<1>3. a \in Answers /\ a.of = a.pair /\ a.pair = f.pair
  BY <1>2 DEF Answers
<1> HIDE DEF a
<1>4. cached' \subseteq Answers /\ Keyed(cached')
  BY <1>1, <1>3 DEF PageInv, Keyed
<1>5. fetching' \subseteq Fetches /\ Keyed(fetching')
  BY <1>1 DEF PageInv, Keyed
<1>6. Awaited'
  <2> SUFFICES ASSUME NEW p \in pressed' PROVE \E h \in fetching' : Later(h, p)
    BY <1>1 DEF PageInv, Awaited, Later
  <2>1. p \in pressed /\ p.at \in Nat \X Nat
    BY <1>1 DEF PageInv, Awaited
  <2>2. PICK h \in fetching : Later(h, p)
    BY <2>1 DEF PageInv, Awaited
  <2>3. ASSUME h = f PROVE FALSE
    <3>1. f.pair = p.pair /\ p.at[1] <= f.at[1] /\ p.at[2] <= f.at[2]
      BY <1>1, <2>2, <2>3 DEF Later
    <3>2. p.at[1] > f.at[1] \/ p.at[2] > f.at[2]
      BY <1>1, <3>1
    <3> QED
      BY <1>2, <2>1, <3>1, <3>2
  <2> QED
    BY <1>1, <2>2, <2>3
<1>7. Viewed'
  BY <1>1, ShowFact DEF PageInv
<1> QED
  BY <1>1, <1>4, <1>5, <1>6, <1>7 DEF PageInv, Chosen, Counted, bounds

\* With a request that fails, the press it was to answer is given up.
LEMMA FailInv == ASSUME PageInv, NEW f \in fetching, Fail(f) PROVE PageInv'
<1>1. /\ UNCHANGED <<schema, version, source, target, cached, viewer, choices, presses, changes>>
      /\ faults < MaxFaults /\ faults' = faults + 1
      /\ fetching' = fetching \ {f} /\ pressed' = {p \in pressed : p.pair # f.pair}
  BY DEF Fail
<1>2. fetching' \subseteq Fetches /\ Keyed(fetching')
  BY <1>1 DEF PageInv, Keyed
<1>3. Awaited'
  <2> SUFFICES ASSUME NEW p \in pressed' PROVE \E h \in fetching' : Later(h, p)
    BY <1>1 DEF PageInv, Awaited, Later
  <2>1. p \in pressed /\ p.pair # f.pair
    BY <1>1
  <2>2. PICK h \in fetching : Later(h, p)
    BY <2>1 DEF PageInv, Awaited
  <2> QED
    BY <1>1, <2>1, <2>2 DEF Later
<1>4. Counted'
  BY <1>1, DiffAssumption DEF PageInv, Counted
<1> QED
  BY <1>1, <1>2, <1>3, <1>4, SameScreen DEF PageInv, Chosen, Viewed, Keyed

\* Versions only grow, so what a press saw is still no newer than they are.
LEMMA ChangeInv == ASSUME PageInv, NEW c \in Conns, NEW t \in Tables, Change(c, t) PROVE PageInv'
<1>1. /\ UNCHANGED <<source, target, cached, fetching, viewer, pressed, choices, presses, faults>>
      /\ changes < MaxChanges /\ changes' = changes + 1
      /\ \E s \in AnySchema : schema' = [schema EXCEPT ![c] = s]
      /\ version' = [version EXCEPT ![c] = @ + 1]
  BY DEF Change
<1>2. schema' \in [Conns -> AnySchema] /\ version' \in [Conns -> Nat]
  BY <1>1 DEF PageInv
<1>3. \A d \in Conns : version[d] <= version'[d] /\ version'[d] <= version[d] + 1
  BY <1>1 DEF PageInv
<1>4. Counted'
  <2>1. changes \in Nat /\ changes' \in 0..MaxChanges /\ (\A d \in Conns : version[d] <= changes)
    BY <1>1, DiffAssumption DEF PageInv, Counted
  <2>2. \A d \in Conns : version'[d] <= changes'
    <3> SUFFICES ASSUME NEW d \in Conns PROVE version'[d] <= changes'
      OBVIOUS
    <3>1. version[d] \in Nat /\ version'[d] \in Nat
      BY <1>2 DEF PageInv
    <3> QED
      BY <1>1, <1>3, <2>1, <3>1
  <2> QED
    BY <1>1, <2>1, <2>2 DEF PageInv, Counted
<1>5. Awaited'
  <2> SUFFICES ASSUME NEW p \in pressed
               PROVE  p.at[1] <= version'[p.pair[1]] /\ p.at[2] <= version'[p.pair[2]]
    BY <1>1 DEF PageInv, Awaited, Later
  <2>1. /\ p.pair[1] \in Conns /\ p.pair[2] \in Conns /\ p.at[1] \in Nat /\ p.at[2] \in Nat
        /\ p.at[1] <= version[p.pair[1]] /\ p.at[2] <= version[p.pair[2]]
    BY DEF PageInv, Awaited, ConnPairs
  <2>2. \A d \in Conns : version[d] \in Nat /\ version'[d] \in Nat
    BY <1>2 DEF PageInv
  <2> QED
    BY <1>3, <2>1, <2>2
<1> QED
  BY <1>1, <1>2, <1>4, <1>5, SameScreen DEF PageInv, Chosen, Viewed, Keyed

\* Every step keeps the invariant.
LEMMA PageNext == PageInv /\ [Next]_vars => PageInv'
<1> SUFFICES ASSUME PageInv, [Next]_vars PROVE PageInv'
  OBVIOUS
<1>1. CASE (\E c \in Conns : ChooseSource(c) \/ ChooseTarget(c)) \/ Return
  BY <1>1, ArriveInv
<1>2. ASSUME NEW t \in Tables, Inspect(t) PROVE PageInv'
  BY <1>2, InspectInv
<1>3. CASE Compare
  BY <1>3, CompareInv
<1>4. ASSUME NEW f \in fetching, ReadSource(f) \/ ReadTarget(f) \/ Receive(f) \/ Fail(f)
      PROVE  PageInv'
  BY <1>4, ReadSourceInv, ReadTargetInv, ReceiveInv, FailInv
<1>5. ASSUME NEW c \in Conns, NEW t \in Tables, Change(c, t) PROVE PageInv'
  BY <1>5, ChangeInv
<1>6. CASE UNCHANGED vars
  BY <1>6, SameScreen DEF vars, bounds, PageInv, Chosen, Counted, Awaited, Later, Viewed, Keyed
<1> QED
  BY <1>1, <1>2, <1>3, <1>4, <1>5, <1>6 DEF Next

\* The invariant implies what the run checks.
LEMMA PageInvSound == PageInv => PageSound
<1> SUFFICES ASSUME PageInv PROVE PageSound
  OBVIOUS
<1>1. ShownIsOfPair
  BY DEF PageInv, ShownIsOfPair, EntryOf, Pair, Keyed
<1>2. CompareShowsNow
  BY DEF PageInv, CompareShowsNow, Awaited, Later
<1>3. version \in [Conns -> 0..MaxChanges]
  <2>1. \A d \in Conns : version[d] \in Nat /\ version[d] <= changes /\ changes \in 0..MaxChanges
    BY DEF PageInv, Counted
  <2>2. \A d \in Conns : version[d] \in 0..MaxChanges
    BY <2>1, DiffAssumption
  <2> QED
    BY <2>2 DEF PageInv
<1>4. \A f \in fetching : /\ f.step \in {"sent", "half", "read"}
                          /\ \A g \in fetching : g.pair = f.pair => g = f
  BY FetchFact DEF PageInv, Keyed
<1>5. \A e \in cached : e.src \in AnySchema /\ e.dst \in AnySchema /\ EntryOf(e.pair) = {e}
  BY DEF PageInv, Keyed, Answers, EntryOf
<1>6. TypeOK
  BY <1>3, <1>4, <1>5 DEF TypeOK, PageInv, Chosen, Counted, Viewed
<1> QED
  BY <1>1, <1>2, <1>6 DEF PageSound

\* The page's shape, what it shows and the promise of its button hold always.
THEOREM PageIsSound == Spec => []PageSound
<1>1. Init => PageInv
  BY PageInit
<1>2. PageInv /\ [Next]_vars => PageInv'
  BY PageNext
<1> QED
  BY <1>1, <1>2, PageInvSound, PTL DEF Spec
===============================================================================
