------------------------------ MODULE SchemaDiff ------------------------------
(***************************************************************************)
(* The comparison of two databases' schemas: the algorithm of the server,   *)
(* the SQL the viewer exports, and the page where two connections are       *)
(* chosen and the answer is looked at, table by table.                      *)
(*                                                                          *)
(* A schema maps the names of its tables to tables, a table the names of    *)
(* its columns to columns. Of a column, the comparison looks at the SEASYN  *)
(* type and at what else is declared of it (nullable, primary key): two     *)
(* values here.                                                             *)
(*                                                                          *)
(* A definition whose name ends in "_" and a word is not part of the        *)
(* specification: it is the definition after it with a bug a programmer     *)
(* could have made, and the properties must tell the two apart.             *)
(***************************************************************************)
EXTENDS Naturals, FiniteSets

CONSTANTS Conns,       \* the project's connections
          First,       \* the first of them in the list
          Sources,     \* those registered as a source
          Tables,      \* names of tables
          Columns,     \* names of columns
          Types,       \* SEASYN types
          Marks,       \* what else is declared of a column
          KeyColumn,   \* the columns of a table the exported SQL creates
          KeyType,     \* and their type
          KeyMark,     \* and mark
          MaxChoices,  \* bound on what the user chooses
          MaxPresses,  \* bound on pressed comparisons
          MaxChanges,  \* bound on changes of a schema by others
          MaxFaults    \* bound on failed requests

ASSUME DiffAssumption ==
    /\ First \in Conns /\ Sources \subseteq Conns
    /\ KeyColumn \in Columns /\ KeyType \in Types /\ KeyMark \in Marks
    /\ {MaxChoices, MaxPresses, MaxChanges, MaxFaults} \subseteq Nat

-----------------------------------------------------------------------------
(***************************************************************************)
(* CalculateSchemaDiff                                                      *)
(***************************************************************************)
Partial(D, R) == UNION {[S -> R] : S \in SUBSET D}
AnyColumn == [type : Types, mark : Marks]
AnyTable == Partial(Columns, AnyColumn)
AnySchema == Partial(Tables, AnyTable)

Common(f, g) == DOMAIN f \cap DOMAIN g

\* compareTableSchemas: the columns it finds a difference in.
ColumnsAdded(s, d) == DOMAIN s \ DOMAIN d
ColumnsRemoved_None(s, d) == {}
ColumnsRemoved(s, d) == DOMAIN d \ DOMAIN s
ColumnsAltered(s, d) == {c \in Common(s, d) : s[c].type # d[c].type \/ s[c].mark # d[c].mark}

Differ(s, d) == ColumnsAdded(s, d) \cup ColumnsRemoved(s, d) \cup ColumnsAltered(s, d) # {}

TablesAdded(src, dst) == DOMAIN src \ DOMAIN dst
TablesRemoved(src, dst) == DOMAIN dst \ DOMAIN src
TablesAltered(src, dst) == {t \in Common(src, dst) : Differ(src[t], dst[t])}
TablesSame(src, dst) == {t \in Common(src, dst) : ~Differ(src[t], dst[t])}

-----------------------------------------------------------------------------
(***************************************************************************)
(* The SQL for the target, and what the target is once it has run, if it    *)
(* knows the source's names of types                                        *)
(***************************************************************************)
\* Only the type is altered, and nothing is ever dropped.
AlteredTable_Target(s, d) ==
    [c \in DOMAIN d \cup ColumnsAdded(s, d) |-> IF c \in DOMAIN d THEN d[c] ELSE s[c]]
AlteredTable(s, d) ==
    [c \in DOMAIN d \cup ColumnsAdded(s, d) |->
       IF c \in ColumnsAdded(s, d) THEN s[c]
       ELSE IF c \in ColumnsAltered(s, d) THEN [type |-> s[c].type, mark |-> d[c].mark]
       ELSE d[c]]

\* A table the target lacks is created with columns of the viewer's own.
CreatedTable == [c \in {KeyColumn} |-> [type |-> KeyType, mark |-> KeyMark]]

Exported(src, dst) ==
    [t \in DOMAIN src \cup DOMAIN dst |->
       IF t \in TablesAdded(src, dst) THEN CreatedTable
       ELSE IF t \in TablesAltered(src, dst) THEN AlteredTable(src[t], dst[t])
       ELSE dst[t]]

\* What the inspector writes beside a column of an altered table.
Label(s, d, c) == IF c \in ColumnsAdded(s, d) THEN "added"
                  ELSE IF c \in ColumnsAltered(s, d) THEN "altered" ELSE "identical"

-----------------------------------------------------------------------------
VARIABLES schema,     \* of each database
          version,    \* how often others have changed it
          source, target,   \* the chosen connections, or None
          cached,     \* the cache of answers, by pair
          fetching,   \* the request under way for each pair that has one
          viewer,     \* the viewer: whether it is there, and the table difference it shows
          pressed,    \* what the last press of the button is to show, until it does
          choices, presses, changes, faults

bounds == <<choices, presses, changes, faults>>
vars == <<schema, version, source, target, cached, fetching, viewer, pressed, bounds>>

None == "none"

\* The head of a filtered list of connections.
FirstOf(S) == IF S = {} THEN None ELSE IF First \in S THEN First ELSE CHOOSE c \in S : TRUE

EffectiveSource == IF source # None THEN source
                   ELSE IF Sources # {} THEN FirstOf(Sources) ELSE FirstOf(Conns)

EffectiveTarget == IF target # None THEN target
                   ELSE IF Sources # Conns THEN FirstOf(Conns \ Sources)
                   ELSE FirstOf(Conns \ {EffectiveSource})

\* schemaKeys.diff: the order matters.
Pair_Unordered == IF First = EffectiveSource THEN <<First, EffectiveTarget>>
                  ELSE <<EffectiveTarget, EffectiveSource>>
Pair == <<EffectiveSource, EffectiveTarget>>

Asks == EffectiveTarget # None
EntryOf(p) == {e \in cached : e.pair = p}
Loading(p) == EntryOf(p) = {} /\ \E f \in fetching : f.pair = p

NoTable == [pair |-> <<None, None>>, table |-> None, old |-> <<>>, new |-> <<>>]
Absent == [there |-> FALSE, shows |-> NoTable]

\* The inspector's table of an answer: what it was in both schemas.
TableOf(e, t) == [pair |-> e.pair, table |-> t, old |-> e.dst[t], new |-> e.src[t]]

\* The viewer begins with the first altered table; the server lists them in the
\* order of a map of Go, which is any.
Begun(e) == LET altered == TablesAltered(e.src, e.dst)
            IN  [there : {TRUE},
                 shows : IF altered = {} THEN {NoTable} ELSE {TableOf(e, t) : t \in altered}]

\* As long as there is an answer to show, the viewer stays.
Show_Stay == viewer' \in IF viewer.there THEN {viewer}
                         ELSE IF EntryOf(Pair)' # {}
                         THEN UNION {Begun(e) : e \in EntryOf(Pair)'} ELSE {Absent}
Show == viewer' \in IF EntryOf(Pair)' = {} THEN {Absent}
                    ELSE IF viewer.there THEN {viewer}
                    ELSE UNION {Begun(e) : e \in EntryOf(Pair)'}

\* The request goes with the pair on screen, whatever it is kept under.
Sent(p) == [pair |-> p, of |-> <<EffectiveSource', EffectiveTarget'>>,
            step |-> "sent", src |-> <<>>, at |-> <<0, 0>>]

\* A pair that comes on screen is asked for unless its answer is there or under way.
Observe(fs) == fetching' = IF Asks' /\ EntryOf(Pair)' = {} /\ ~(\E f \in fs : f.pair = Pair')
                           THEN fs \cup {Sent(Pair')} ELSE fs

Init ==
    /\ schema \in [Conns -> AnySchema] /\ version = [c \in Conns |-> 0]
    /\ source = None /\ target = None
    /\ cached = {} /\ viewer = Absent /\ pressed = {}
    /\ fetching = IF Asks THEN {[pair |-> Pair, of |-> <<EffectiveSource, EffectiveTarget>>,
                                 step |-> "sent", src |-> <<>>, at |-> <<0, 0>>]} ELSE {}
    /\ choices = 0 /\ presses = 0 /\ changes = 0 /\ faults = 0

-----------------------------------------------------------------------------
Choice == choices < MaxChoices /\ choices' = choices + 1

ChooseSource(c) ==
    /\ Choice /\ c # EffectiveSource
    /\ source' = c
    /\ UNCHANGED <<schema, version, target, cached, pressed, presses, changes, faults>>
    /\ Observe(fetching) /\ Show

\* The source is not offered.
ChooseTarget(c) ==
    /\ Choice /\ c \notin {EffectiveSource, EffectiveTarget}
    /\ target' = c
    /\ UNCHANGED <<schema, version, source, cached, pressed, presses, changes, faults>>
    /\ Observe(fetching) /\ Show

\* A difference of the answer on screen.
Inspect(t) ==
    /\ viewer.there
    /\ \E e \in EntryOf(Pair) : /\ t \in TablesAltered(e.src, e.dst)
                                /\ viewer' = [viewer EXCEPT !.shows = TableOf(e, t)]
    /\ UNCHANGED <<schema, version, source, target, cached, fetching, pressed, bounds>>

\* The button asks again, and what was under way is forgotten.
Again_Join(fs, p) == IF \E f \in fs : f.pair = p THEN fs ELSE fs \cup {Sent(p)}
Again(fs, p) == {f \in fs : f.pair # p} \cup {Sent(p)}

Compare ==
    /\ presses < MaxPresses /\ presses' = presses + 1
    /\ Asks /\ ~Loading(Pair)
    /\ UNCHANGED <<schema, version, source, target, cached, viewer, choices, changes, faults>>
    /\ fetching' = Again(fetching, Pair)
    /\ pressed' = {[pair |-> Pair, at |-> <<version[EffectiveSource], version[EffectiveTarget]>>]}

\* The user leaves the page and comes back to it.
Return ==
    /\ Choice
    /\ source' = None /\ target' = None
    /\ UNCHANGED <<schema, version, cached, pressed, presses, changes, faults>>
    /\ Observe(fetching)
    /\ viewer' \in IF EntryOf(Pair)' = {} THEN {Absent}
                   ELSE UNION {Begun(e) : e \in EntryOf(Pair)'}

-----------------------------------------------------------------------------
(***************************************************************************)
(* CompareSchemas reads one database and then the other                     *)
(***************************************************************************)
ReadSource(f) ==
    /\ f.step = "sent"
    /\ fetching' = (fetching \ {f})
         \cup {[pair |-> f.pair, of |-> f.of, step |-> "half",
                src |-> schema[f.of[1]], at |-> <<version[f.of[1]], 0>>]}
    /\ UNCHANGED <<schema, version, source, target, cached, viewer, pressed, bounds>>

ReadTarget(f) ==
    /\ f.step = "half"
    /\ fetching' = (fetching \ {f})
         \cup {[pair |-> f.pair, of |-> f.of, step |-> "read", src |-> f.src,
                dst |-> schema[f.of[2]], at |-> <<f.at[1], version[f.of[2]]>>]}
    /\ UNCHANGED <<schema, version, source, target, cached, viewer, pressed, bounds>>

Receive(f) ==
    /\ f.step = "read"
    /\ cached' = {e \in cached : e.pair # f.pair}
                   \cup {[pair |-> f.pair, of |-> f.of, src |-> f.src, dst |-> f.dst, at |-> f.at]}
    /\ fetching' = fetching \ {f}
    /\ pressed' = {p \in pressed : p.pair # f.pair \/ p.at[1] > f.at[1] \/ p.at[2] > f.at[2]}
    /\ UNCHANGED <<schema, version, source, target, bounds>>
    /\ Show

Fail(f) ==
    /\ faults < MaxFaults /\ faults' = faults + 1
    /\ f.step # "read"
    /\ fetching' = fetching \ {f}
    /\ pressed' = {p \in pressed : p.pair # f.pair}
    /\ UNCHANGED <<schema, version, source, target, cached, viewer, choices, presses, changes>>

\* Others create, drop or alter a table.
Change(c, t) ==
    /\ changes < MaxChanges /\ changes' = changes + 1
    /\ \E s \in AnySchema :
         /\ s # schema[c] /\ \A u \in Tables \ {t} : u \in DOMAIN s <=> u \in DOMAIN schema[c]
         /\ \A u \in Common(s, schema[c]) \ {t} : s[u] = schema[c][u]
         /\ schema' = [schema EXCEPT ![c] = s]
    /\ version' = [version EXCEPT ![c] = @ + 1]
    /\ UNCHANGED <<source, target, cached, fetching, viewer, pressed, choices, presses, faults>>

Next == \/ \E c \in Conns : ChooseSource(c) \/ ChooseTarget(c)
        \/ \E t \in Tables : Inspect(t)
        \/ Compare \/ Return
        \/ \E f \in fetching : ReadSource(f) \/ ReadTarget(f) \/ Receive(f) \/ Fail(f)
        \/ \E c \in Conns, t \in Tables : Change(c, t)

Spec == Init /\ [][Next]_vars

-----------------------------------------------------------------------------
(***************************************************************************)
(* Properties                                                               *)
(***************************************************************************)
\* The state has its shape, and the viewer is there exactly when there is an
\* answer for the pair on screen.
TypeOK ==
    /\ schema \in [Conns -> AnySchema] /\ version \in [Conns -> 0..MaxChanges]
    /\ source \in Conns \cup {None} /\ target \in Conns \cup {None}
    /\ \A f \in fetching : /\ f.step \in {"sent", "half", "read"}
                           /\ \A g \in fetching : g.pair = f.pair => g = f
    /\ \A e \in cached : e.src \in AnySchema /\ e.dst \in AnySchema /\ EntryOf(e.pair) = {e}
    /\ viewer.there <=> EntryOf(Pair) # {}
    /\ choices \in 0..MaxChoices /\ presses \in 0..MaxPresses
    /\ changes \in 0..MaxChanges /\ faults \in 0..MaxFaults

\* What is on screen was asked with the source as source and the target as
\* target: a comparison the other way round has additions for removals.
ShownIsOfPair == \A e \in EntryOf(Pair) : Asks => e.of = <<EffectiveSource, EffectiveTarget>>

\* Once its answer is there, a pressed comparison shows both schemas as they were
\* when the button was pressed, or later; answers to earlier requests that are
\* still on their way are not taken for it.
CompareShowsNow == \A p \in pressed : \E f \in fetching : f.pair = p.pair

\* The classes of tables cover both schemas without overlap, and the comparison
\* finds nothing exactly when the two schemas are the same.
Exact(a, b) ==
    /\ TablesAdded(a, b) \cup TablesRemoved(a, b) \cup TablesAltered(a, b) \cup TablesSame(a, b)
         = DOMAIN a \cup DOMAIN b
    /\ TablesAdded(a, b) \cup TablesRemoved(a, b) \cup TablesAltered(a, b) = {} <=> a = b
DiffExact == \A c, d \in Conns : Exact(schema[c], schema[d])

\* Once the target has run the exported SQL it lacks none of the source's tables,
\* and a table both had before has all of the source's columns, with their types.
Closes(a, b) ==
    LET after == Exported(a, b) IN
    /\ TablesAdded(a, after) = {}
    /\ \A t \in Common(a, b) : \A c \in DOMAIN a[t] :
         c \in DOMAIN after[t] /\ after[t][c].type = a[t][c].type
ExportCloses == \A c, d \in Conns : Closes(schema[c], schema[d])

\* The algorithm's result and the SQL made from it are sound for all schemas met.
DiffSound == DiffExact /\ ExportCloses

\* What the page shows is of the chosen pair and not older than the last press.
PageSound == TypeOK /\ ShownIsOfPair /\ CompareShowsNow

\* Refuted: marks are never altered, nothing is dropped, and a created table has
\* none of the source's columns.
ExportSuffices == \A c, d \in Conns : LET after == Exported(schema[c], schema[d])
                                      IN  TablesAltered(schema[c], after) = {}

\* Refuted: a column only the target has is labelled as identical.
DifferenceLabelled == \A e \in cached : \A t \in TablesAltered(e.src, e.dst) :
    \A c \in DOMAIN e.src[t] \cup DOMAIN e.dst[t] :
      Label(e.src[t], e.dst[t], c) = "identical" => c \in Common(e.src[t], e.dst[t])

\* Refuted: the inspector keeps the table it began with when another pair's answer,
\* or a newer one, takes the place of the one on screen.
InspectorOfDiff == viewer.shows # NoTable =>
    \E e \in EntryOf(Pair) : \E t \in TablesAltered(e.src, e.dst) : viewer.shows = TableOf(e, t)

\* Refuted: the source may be chosen to be what the target already is, and a
\* database is the same as itself.
TwoDatabases == Asks => EffectiveSource # EffectiveTarget

===============================================================================
