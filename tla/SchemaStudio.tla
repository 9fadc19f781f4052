----------------------------- MODULE SchemaStudio -----------------------------
(***************************************************************************)
(* The schema studio: one database's tables and the rows of one of them, a  *)
(* page at a time, with dialogs that insert, edit and delete rows.          *)
(*                                                                          *)
(* Rows are not modelled one by one. A table is the number of its rows and  *)
(* a version, which every write of anyone's raises; a page is the version   *)
(* it was read at. What the pages tell apart is which query is on screen,   *)
(* what the query cache holds for it and which fetch is under way.          *)
(*                                                                          *)
(* A cached query is refetched when it comes back on screen after five      *)
(* minutes; the model's user may press Refresh there instead.               *)
(*                                                                          *)
(* A definition whose name ends in "_" and a word is not part of the        *)
(* specification: it is the definition after it with a bug a programmer     *)
(* could have made, and the properties must tell the two apart.             *)
(***************************************************************************)
EXTENDS Naturals, FiniteSets

CONSTANTS Conns,       \* the project's connections
          First,       \* the first of them in the list
          Documents,   \* those of document databases; the others are SQL
          Shared,      \* those that others write to as well
          Tables,      \* names of tables, of any of the databases
          Leading,     \* the first of them in a schema
          Keyless,     \* tables without a primary key
          Limits,      \* page sizes, the smallest the first one
          MaxTableRows, \* bound on the rows of a table
          MaxMoves,    \* bound on what the user turns to
          MaxSaves,    \* bound on the requests that write
          MaxTroubles  \* bound on what others do to the databases and on requests
                       \* that fail on the way, together

ASSUME StudioAssumption ==
    /\ First \in Conns /\ Documents \subseteq Conns /\ Shared \subseteq Conns
    /\ Leading \in Tables /\ Keyless \subseteq Tables /\ {"none", "whole schema"} \cap Tables = {}
    /\ Limits \subseteq Nat \ {0} /\ Limits # {} /\ IsFiniteSet(Limits)
    /\ {MaxTableRows, MaxMoves, MaxSaves, MaxTroubles} \subseteq Nat /\ MaxTableRows # 0

VARIABLES present,   \* the tables of each database
          version,   \* how many writes each table has seen
          rows,      \* how many rows it had after each of them
          conn, table, tab, page, limit, sort, search,
          cached,    \* the query cache: what was read, by query
          fetching,  \* the fetches under way, got empty until the server has read
          failed,    \* queries on screen whose fetch has failed
          leaving,   \* the rows' viewer on its way out, as it was last rendered
          dialog,    \* the open dialog of the rows' viewer
          saves,     \* every request that writes
          owed,      \* own writes that the queries fetched for them have yet to show
          moves, troubles

serverVars == <<present, version, rows>>
viewVars == <<conn, table, tab, page, limit, sort, search>>
cacheVars == <<cached, fetching, failed>>
bounds == <<moves, troubles>>
studioVars == <<serverVars, viewVars, cacheVars, leaving, dialog, saves, owed, bounds>>

None == "none"
Whole == "whole schema"
Tabs == {"structure", "data", "diff"}
WriteKinds == {"insert", "edit", "delete"}
Saves == 1..MaxSaves
Writes == 0..(MaxSaves + MaxTroubles)
Smallest == CHOOSE l \in Limits : \A m \in Limits : l <= m

\* left: the user has left the studio meanwhile; again: what was on screen there.
Unsent == [step |-> None, kind |-> None, conn |-> None, table |-> None,
           mounted |-> FALSE, left |-> FALSE, again |-> {}, made |-> 0]
Closed == [kind |-> None, conn |-> None, table |-> None, save |-> 0]

\* schemaKeys: a query's key has everything the request depends on.
SchemaOf(c) == [conn |-> c, table |-> Whole, page |-> 0, limit |-> 0, sort |-> None, search |-> FALSE]

\* What was read of query q, if it is in the cache.
EntryOf(q) == {e \in cached : e.query = q}
Has(q) == EntryOf(q) # {}
Fetching(q) == \E f \in fetching : f.query = q

\* The tables of the schema on screen.
Listed == UNION {e.tables : e \in EntryOf(SchemaOf(conn))}

FirstOf(S) == IF Leading \in S THEN Leading ELSE CHOOSE t \in S : TRUE

\* effectiveTableName
Table == LET L == Listed IN IF table \in L THEN table ELSE IF L # {} THEN FirstOf(L) ELSE None

RowsQuery == [conn |-> conn, table |-> Table, page |-> page, limit |-> limit, sort |-> sort, search |-> search]

OnScreen == {SchemaOf(conn)} \cup (IF tab = "data" /\ Table # None THEN {RowsQuery} ELSE {})

\* AnimatePresence keeps what is shown as long as this stays.
GridKey_Tab == <<tab>>
GridKey == <<tab, Table>>

OnGrid == tab = "data" /\ Table # None

\* The rows' viewer that is mounted, if one is: one on its way out is left as it
\* was last rendered, and what it calls is the page's.
Viewer == IF leaving # {} THEN leaving
          ELSE IF OnGrid THEN {[query |-> RowsQuery, rows |-> EntryOf(RowsQuery)]} ELSE {}

StudioInit ==
    /\ present = [c \in Conns |-> Tables]
    /\ version = [c \in Conns |-> [t \in Tables |-> 0]]
    /\ rows = [c \in Conns |-> [t \in Tables |-> [w \in Writes |-> 1]]]
    /\ conn = First /\ table = None /\ tab = "structure"
    /\ page = 1 /\ limit = Smallest /\ sort = None /\ search = FALSE
    /\ cached = {} /\ failed = {}
    /\ fetching = {[query |-> SchemaOf(First), since |-> 0, got |-> {}]}
    /\ leaving = {} /\ dialog = Closed /\ saves = [i \in Saves |-> Unsent] /\ owed = {}
    /\ moves = 0 /\ troubles = 0

-----------------------------------------------------------------------------
(***************************************************************************)
(* What follows a change of the view                                        *)
(***************************************************************************)
\* The writes a table has seen; a schema's answer carries none.
SeenBy(q) == IF q.table = Whole THEN 0 ELSE version[q.conn][q.table]

Sent(q) == [query |-> q, since |-> SeenBy(q), got |-> {}]

\* A query that comes on screen is fetched unless it is cached or under way.
\* fs are the fetches the step itself leaves.
Observe_Tab(fs) == /\ fetching' = fs \cup {Sent(q) : q \in {r \in OnScreen' \ OnScreen :
                                     tab' # tab /\ ~Has(r)' /\ ~\E f \in fs : f.query = r}}
                   /\ failed' = failed \cap OnScreen'
Observe(fs) == /\ fetching' = fs \cup {Sent(q) : q \in {r \in OnScreen' \ OnScreen :
                                     ~Has(r)' /\ ~\E f \in fs : f.query = r}}
               /\ failed' = failed \cap OnScreen'

\* refetch: it cancels a fetch under way, but the first one of a query it joins.
Refetched_Beside(fs, q) == fs \cup {Sent(q)}
Refetched_Join(fs, q) == IF \E f \in fs : f.query = q THEN fs ELSE fs \cup {Sent(q)}
Refetched(fs, q) ==
    IF ~Has(q) /\ \E f \in fs : f.query = q THEN fs
    ELSE {f \in fs : f.query # q} \cup {Sent(q)}

Unmounted(sv) == [i \in Saves |-> [sv[i] EXCEPT !.mounted = FALSE]]

\* With another key the viewer is on its way out, for as long as the animation
\* takes, and the next one waits; when the key comes back, so does the viewer.  Its
\* view of documents and that of a table are not the same.  (The other tabs have
\* nothing that writes, and are taken to go at once.)
Stays == IF leaving = {} THEN GridKey' = GridKey ELSE \E v \in leaving : GridKey' = <<"data", v.query.table>>
Replaced == Stays /\ \E v \in Viewer : (v.query.conn \in Documents) # (conn' \in Documents)

Mount == /\ leaving' = IF Stays THEN {} ELSE Viewer
         /\ dialog' = IF Replaced THEN Closed ELSE dialog
         /\ saves' = IF Replaced THEN Unmounted(saves) ELSE saves

\* Then it is unmounted: its dialog is gone, and answers to its requests find
\* nothing to close.
Vanish == /\ leaving # {}
          /\ leaving' = {} /\ dialog' = Closed /\ saves' = Unmounted(saves)
          /\ UNCHANGED <<serverVars, viewVars, cacheVars, owed, bounds>>

\* An open dialog covers the page.
Uncovered == dialog = Closed
Move == Uncovered /\ moves < MaxMoves /\ moves' = moves + 1

Turn == /\ UNCHANGED <<serverVars, cached, owed, troubles>>
        /\ Observe(fetching) /\ Mount

-----------------------------------------------------------------------------
(***************************************************************************)
(* What the user turns to                                                   *)
(***************************************************************************)
\* Neither the page nor the order changes with the database.
ShowConnection(c) == conn' = c /\ table' = None /\ UNCHANGED <<tab, page, limit, sort, search>>

SelectConnection(c) == c # conn /\ Move /\ ShowConnection(c) /\ Turn

ShowTable(t) == table' = t /\ page' = 1 /\ UNCHANGED <<conn, tab, limit, sort, search>>

\* The tree is not there on the diff's tab.
SelectTable(t) == Move /\ t \in Listed /\ tab # "diff" /\ ShowTable(t) /\ Turn

\* The bound counts the ways out of the rows, not the way to them.
SelectTab(s) ==
    /\ s # tab /\ Uncovered /\ moves < MaxMoves
    /\ tab' = s
    /\ UNCHANGED <<conn, table, page, limit, sort, search>>
    /\ moves' = IF s = "data" THEN moves ELSE moves + 1
    /\ Turn

Pages(e) == (e.total + e.query.limit - 1) \div e.query.limit

ChangePage ==
    /\ Uncovered
    /\ \E v \in Viewer : \E e \in v.rows :
          \/ v.query.page > 1 /\ page' = v.query.page - 1
          \/ v.query.page < Pages(e) /\ page' = v.query.page + 1
    /\ UNCHANGED <<conn, table, tab, limit, sort, search>>
    /\ UNCHANGED moves /\ Turn

ChangePageSize(l) ==
    /\ Move /\ \E v \in Viewer : l # v.query.limit
    /\ limit' = l /\ page' = 1
    /\ UNCHANGED <<conn, table, tab, sort, search>>
    /\ Turn

\* A sort is named by the table whose column it is.
Sort ==
    /\ Move
    /\ \E v \in Viewer : v.query.conn \notin Documents /\ sort # v.query.table /\ sort' = v.query.table
    /\ UNCHANGED <<conn, table, tab, page, limit, search>>
    /\ Turn

Search ==
    /\ Move /\ \E v \in Viewer : v.query.conn \notin Documents
    /\ search' = ~search /\ page' = 1
    /\ UNCHANGED <<conn, table, tab, limit, sort>>
    /\ Turn

\* The header's button and the viewer's.
Refresh ==
    /\ Move
    /\ \A q \in OnScreen : Has(q) \/ ~Fetching(q)
    /\ fetching' = LET fs == Refetched(fetching, SchemaOf(conn))
                   IN  IF OnGrid THEN Refetched(fs, RowsQuery) ELSE fs
    /\ failed' = {}
    /\ UNCHANGED <<serverVars, viewVars, cached, leaving, dialog, saves, owed, troubles>>

\* What a finished mutation fetches again: the rows and the schema that its page
\* shows, or showed last.
Shows(s) == (IF Table = None THEN {} ELSE {RowsQuery})
            \cup (IF s.kind = "edit" THEN {} ELSE {SchemaOf(conn)})

Left(s) == IF s.step \in {"sent", "applied", "refused"} /\ ~s.left
           THEN [s EXCEPT !.mounted = FALSE, !.left = TRUE, !.again = Shows(s)] ELSE s

\* The user leaves the studio and comes back: only the cache is as before.
ComeBack ==
    /\ Move
    /\ conn' = First /\ table' = None /\ tab' = "structure"
    /\ page' = 1 /\ limit' = Smallest /\ sort' = None /\ search' = FALSE
    /\ fetching' = IF Has(SchemaOf(First)) \/ Fetching(SchemaOf(First)) THEN fetching
                   ELSE fetching \cup {Sent(SchemaOf(First))}
    /\ failed' = {} /\ leaving' = {}
    /\ saves' = [i \in Saves |-> Left(saves[i])]
    /\ UNCHANGED <<serverVars, cached, dialog, owed, troubles>>

-----------------------------------------------------------------------------
(***************************************************************************)
(* Dialogs                                                                  *)
(***************************************************************************)
\* The viewer shows a row.
WithRow(v) == \E e \in v.rows : e.shows

\* A dialog is of the database and the table whose row it shows.
Opened(v, k, i) == /\ dialog' = [kind |-> k, conn |-> v.query.conn, table |-> v.query.table, save |-> i]
                   /\ UNCHANGED <<serverVars, viewVars, cacheVars, leaving, saves, owed, bounds>>

InsertRow == Uncovered /\ \E v \in Viewer : v.query.conn \notin Documents /\ Opened(v, "insert", 0)
EditCell == Uncovered /\ \E v \in Viewer : v.query.conn \notin Documents /\ WithRow(v) /\ Opened(v, "edit", 0)
DeleteRow == Uncovered /\ \E v \in Viewer : v.query.conn \notin Documents /\ WithRow(v) /\ Opened(v, "delete", 0)
EditDocument == Uncovered /\ \E v \in Viewer : v.query.conn \in Documents /\ WithRow(v) /\ Opened(v, "edit", 0)

\* The insertion dialog of documents is never unmounted, so it goes on with a
\* request it was closed during.
Resumed == {i \in Saves : saves[i].kind = "insert" /\ saves[i].mounted /\ saves[i].step # "over"}

InsertDocument ==
    /\ Uncovered
    /\ \E v \in Viewer :
          v.query.conn \in Documents /\ Opened(v, "insert", IF Resumed = {} THEN 0 ELSE CHOOSE i \in Resumed : TRUE)

\* Escape closes a dialog that is saving, too.
Escape ==
    /\ dialog # Closed
    /\ dialog' = Closed
    /\ UNCHANGED <<serverVars, viewVars, cacheVars, leaving, saves, owed, bounds>>

Next1 == {i \in Saves : saves[i].step = None /\ \A j \in 1..(i - 1) : saves[j].step # None}

\* useTableMutations: the request goes to the database and the table on screen,
\* whatever the dialog shows; without a table it is an error at once.
Request(i, k) ==
    /\ Table # None
    /\ saves' = [saves EXCEPT ![i] = [Unsent EXCEPT !.step = "sent", !.kind = k, !.conn = conn, !.table = Table,
                                                    !.mounted = TRUE]]

Submit(i) ==
    /\ dialog # Closed /\ dialog.save = 0 /\ i \in Next1
    /\ Request(i, dialog.kind)
    /\ dialog' = [dialog EXCEPT !.save = i]
    /\ UNCHANGED <<serverVars, viewVars, cacheVars, leaving, owed, bounds>>

\* A document is deleted without a dialog.
DeleteDocument(i) ==
    /\ Uncovered /\ i \in Next1
    /\ \E v \in Viewer : v.query.conn \in Documents /\ WithRow(v)
    /\ Request(i, "delete")
    /\ UNCHANGED <<serverVars, viewVars, cacheVars, leaving, dialog, owed, bounds>>

-----------------------------------------------------------------------------
(***************************************************************************)
(* The server                                                               *)
(***************************************************************************)
Written(c, t, n) ==
    /\ version' = [version EXCEPT ![c][t] = version[c][t] + 1]
    /\ rows' = [rows EXCEPT ![c][t][version[c][t] + 1] = n]

RowsNow(c, t) == rows[c][t][version[c][t]]

\* What a write leaves of the number of rows, if it can be made at all. A delete
\* names every column of the key: without a key there is nothing to delete by.
Effect(s) ==
    LET n == RowsNow(s.conn, s.table) IN
    CASE s.kind = "insert" -> {n + 1} \cap (0..MaxTableRows)
      [] s.kind = "edit"   -> IF n > 0 THEN {n} ELSE {}
      [] s.kind = "delete" -> IF n > 0 /\ (s.conn \in Documents \/ s.table \notin Keyless)
                              THEN {n - 1} ELSE {}

Apply(i) ==
    LET s == saves[i] IN
    /\ s.step = "sent" /\ s.table \in present[s.conn]
    /\ \E n \in Effect(s) : Written(s.conn, s.table, n)
    /\ saves' = [saves EXCEPT ![i].step = "applied", ![i].made = version[s.conn][s.table] + 1]
    /\ UNCHANGED <<present, viewVars, cacheVars, leaving, dialog, owed, bounds>>

\* No table, no such row, a constraint, no right to write, or no way there.
Refuse(i) ==
    /\ saves[i].step = "sent"
    /\ saves' = [saves EXCEPT ![i].step = "refused"]
    /\ UNCHANGED <<serverVars, viewVars, cacheVars, leaving, dialog, owed, bounds>>

Trouble == troubles < MaxTroubles /\ troubles' = troubles + 1

LoseAnswer(i) ==
    /\ Trouble
    /\ saves[i].step = "applied"
    /\ saves' = [saves EXCEPT ![i].step = "refused"]
    /\ UNCHANGED <<serverVars, viewVars, cacheVars, leaving, dialog, owed, moves>>

\* The order: a column of one table may be there in another, too, or it is an error
\* of SQL's.  Nobody reads the search term.
There(q) == q.conn \in Documents \/ q.table \in present[q.conn]
Sure(q) == q.table = Whole \/ q.conn \in Documents \/ (There(q) /\ q.sort \in {None, q.table})

\* The tables of a schema, or a page of rows. GetRows counts the rows first, at any
\* moment since the request was sent, and reads the page then.
Found(f) ==
    LET q == f.query
    IN  IF q.table = Whole
        THEN {[query |-> q, at |-> 0, total |-> 0, shows |-> FALSE, tables |-> present[q.conn]]}
        ELSE {[query |-> q, at |-> SeenBy(q), total |-> rows[q.conn][q.table][w],
               shows |-> RowsNow(q.conn, q.table) > (q.page - 1) * q.limit, tables |-> {}] : w \in f.since..SeenBy(q)}

Read(f) ==
    /\ f.got = {} /\ (f.query.table = Whole \/ There(f.query))
    /\ \E e \in Found(f) : fetching' = (fetching \ {f}) \cup {[f EXCEPT !.since = 0, !.got = {e}]}
    /\ UNCHANGED <<serverVars, viewVars, cached, failed, leaving, dialog, saves, owed, bounds>>

\* What others do is seen by the next request, and the model lets them do it when
\* one that can see it is under way to the server; before the browser has read
\* anything of a table, it may as well have been that way from the start.  They insert
\* and delete rows; an edit of theirs would be seen as these are.
Asked(c, ts) == \/ \E f \in fetching : f.got = {} /\ f.query.conn = c /\ f.query.table \in ts
                \/ \E i \in Saves : saves[i].step = "sent" /\ saves[i].conn = c /\ saves[i].table \in ts

OutsideWrite(c, t) ==
    /\ Trouble
    /\ t \in present[c] /\ Asked(c, {t})
    /\ \E e \in cached : e.query.conn = c /\ e.query.table = t
    /\ \E n \in 0..MaxTableRows : n \in {RowsNow(c, t) - 1, RowsNow(c, t) + 1} /\ Written(c, t, n)
    /\ UNCHANGED <<present, viewVars, cacheVars, leaving, dialog, saves, owed, moves>>

DropTable(c, t) ==
    /\ Trouble
    /\ t \in present[c] /\ Asked(c, {t, Whole}) /\ Has(SchemaOf(c))
    /\ present' = [present EXCEPT ![c] = @ \ {t}]
    /\ Written(c, t, 0)
    /\ UNCHANGED <<viewVars, cacheVars, leaving, dialog, saves, owed, moves>>

-----------------------------------------------------------------------------
(***************************************************************************)
(* Answers                                                                  *)
(***************************************************************************)
Stored_Beside(e) == cached \cup {e}
Stored(e) == (cached \ EntryOf(e.query)) \cup {e}

\* A schema's tables may be others, and the table on screen with them.
Receive(f) ==
    /\ \E e \in f.got : cached' = Stored(e)
    /\ owed' = {o \in owed : \A e \in f.got : o.query # f.query \/ o.at > e.at}
    /\ UNCHANGED viewVars
    /\ Observe(fetching \ {f}) /\ Mount
    /\ UNCHANGED <<serverVars, bounds>>

\* What is cached stays; a write the fetch was to show may stay unseen.
FailFetch(f) ==
    /\ f.got = {}
    /\ \/ ~Sure(f.query) /\ UNCHANGED troubles
       \/ Trouble
    /\ fetching' = fetching \ {f}
    /\ failed' = failed \cup ({f.query} \cap OnScreen)
    /\ owed' = {o \in owed : o.query # f.query}
    /\ UNCHANGED <<serverVars, viewVars, cached, leaving, dialog, saves, moves>>

FetchedAgain(again) == (UNION {Refetched({f \in fetching : f.query = q}, q) : q \in again})
                       \cup {f \in fetching : f.query \notin again}

Answered(i) == saves' = [saves EXCEPT ![i] = [Unsent EXCEPT !.step = "over"]]

\* The refetches are those of the page the request was sent from, also when the
\* user has left it.
Again(s) == IF s.left THEN s.again ELSE Shows(s)
Owing(s) == {[query |-> q, at |-> s.made, first |-> ~Has(q) /\ Fetching(q)] :
                q \in {r \in Again(s) : r.conn = s.conn /\ r.table = s.table}}

Saved(i) ==
    LET s == saves[i] IN
    /\ s.step = "applied"
    /\ Answered(i)
    /\ dialog' = IF s.mounted /\ dialog.kind = s.kind THEN Closed ELSE dialog
    /\ fetching' = FetchedAgain(Again(s))
    /\ failed' = failed \ Again(s)
    /\ owed' = owed \cup Owing(s)
    /\ UNCHANGED <<serverVars, viewVars, cached, leaving, bounds>>

\* The dialog the request was sent from shows the error, if it is still there.
Released_Kept(i) == dialog
Released(i) == IF dialog.save = i THEN [dialog EXCEPT !.save = 0] ELSE dialog

NotSaved(i) ==
    /\ saves[i].step = "refused"
    /\ Answered(i)
    /\ dialog' = Released(i)
    /\ UNCHANGED <<serverVars, viewVars, cacheVars, leaving, owed, bounds>>

-----------------------------------------------------------------------------
UserStep ==
    \/ \E c \in Conns : SelectConnection(c)
    \/ \E t \in Tables : SelectTable(t)
    \/ \E s \in Tabs : SelectTab(s)
    \/ \E l \in Limits : ChangePageSize(l)
    \/ ChangePage \/ Sort \/ Search \/ Refresh \/ ComeBack
    \/ InsertRow \/ EditCell \/ DeleteRow \/ InsertDocument \/ EditDocument \/ Escape
    \/ \E i \in Saves : Submit(i) \/ DeleteDocument(i)

FetchStep == \E f \in fetching : Read(f) \/ Receive(f) \/ FailFetch(f)
SaveStep == \E i \in Saves : Apply(i) \/ Refuse(i) \/ Saved(i) \/ NotSaved(i)

StudioNext == \/ UserStep \/ Vanish \/ FetchStep \/ SaveStep
        \/ \E i \in Saves : LoseAnswer(i)
        \/ \E c \in Shared, t \in Tables : OutsideWrite(c, t) \/ DropTable(c, t)

StudioSpec == StudioInit /\ [][StudioNext]_studioVars

\* Requests are answered, or fail; nobody has to press anything. There are only so
\* many requests, so each has its turn.
StudioFairSpec == StudioSpec /\ WF_studioVars(FetchStep)

-----------------------------------------------------------------------------
(***************************************************************************)
(* Properties                                                               *)
(***************************************************************************)
Queries == [conn : Conns, table : Tables \cup {Whole}, page : Nat, limit : Limits \cup {0},
            sort : Tables \cup {None}, search : BOOLEAN]
Entries == [query : Queries, at : Nat, total : Nat, shows : BOOLEAN, tables : SUBSET Tables]

\* The state has its shape: the cache has one entry for a query and one fetch of
\* it under way.
StudioTypeOK ==
    /\ present \in [Conns -> SUBSET Tables]
    /\ rows \in [Conns -> [Tables -> [Writes -> 0..MaxTableRows]]]
    /\ version \in [Conns -> [Tables -> Writes]]
    /\ conn \in Conns /\ table \in Tables \cup {None} /\ tab \in Tabs
    /\ page \in Nat \ {0} /\ limit \in Limits /\ sort \in Tables \cup {None} /\ search \in BOOLEAN
    /\ \A e \in cached : e \in Entries /\ EntryOf(e.query) = {e}
    /\ \A f \in fetching : /\ f \in [query : Queries, since : Nat, got : SUBSET Entries]
                           /\ f.got = {} \/ \E e \in f.got : f.got = {e}
                           /\ \A g \in fetching : g.query = f.query => g = f
    /\ failed \subseteq OnScreen
    /\ \A v \in leaving : v.query \in Queries /\ v.query.table # Whole /\ v.rows \subseteq Entries /\ leaving = {v}
    /\ dialog.save \in Saves \cup {0} /\ dialog.kind \in WriteKinds \cup {None}
    /\ \A o \in owed : o.query \in Queries /\ o.at \in Nat /\ o.first \in BOOLEAN
    /\ moves \in 0..MaxMoves /\ troubles \in 0..MaxTroubles

\* A dialog edits the table of the viewer that is mounted: when the schema comes
\* back without that table and another takes its place, the dialog is gone with the
\* viewer, also when the table is back before the viewer is gone, and from then on
\* no row of the one table is written to the other.
DialogOfTable == dialog # Closed => \E v \in Viewer : /\ dialog.table = v.query.table
                                                     /\ (dialog.conn \in Documents) = (v.query.conn \in Documents)

\* Refuted: that a dialog writes to the table whose row it shows.  While the viewer
\* is on its way out its dialog can be used, and what it sends goes to the table
\* that comes after it.
DialogWritesItsTable ==
    [][\A i \in Saves : saves[i].step # "sent" /\ saves'[i].step = "sent" /\ dialog # Closed
         => saves'[i].conn = dialog.conn /\ saves'[i].table = dialog.table]_studioVars

\* Once the answer of one's own write has come, the rows that the page it was sent
\* from shows, or showed last, have the write in them as soon as they are not being
\* fetched, if they are of the table written, unless their very first fetch was
\* still under way, which a refetch joins, or the fetch failed. Older answers on
\* their way do not bring the older rows back.
OwnWritesShown == \A o \in owed : \A e \in EntryOf(o.query) :
                    o.first \/ Fetching(o.query) \/ e.at >= o.at

\* Refuted: the first fetch of a page may have read before the write.
OwnWritesAlwaysShown == \A o \in owed : \A e \in EntryOf(o.query) : Fetching(o.query) \/ e.at >= o.at

\* No page goes back in time: what the cache holds of a query is never replaced
\* by rows that were read earlier.
NoOlderRows == [][\A e \in cached, g \in cached' : g.query = e.query => g.at >= e.at]_studioVars

\* A dialog that waits waits for a request that is still to be answered, also one
\* that was closed meanwhile and opened again: no dialog is left that can neither
\* be used nor go away by itself.
BusyDialogWaits == dialog.save # 0 => /\ saves[dialog.save].step \in {"sent", "applied", "refused"}
                                      /\ saves[dialog.save].kind = dialog.kind
                                      /\ saves[dialog.save].mounted

\* The dialogs and the pages they have written to are sound in every state.
StudioSound == StudioTypeOK /\ DialogOfTable /\ OwnWritesShown /\ BusyDialogWaits

\* What is on screen is fetched, by whichever way it came there: it is shown in
\* the end, or its error is, or the user has turned away.
WaitsEnd == []<>(\A q \in OnScreen : Has(q) \/ q \in failed)

\* Refuted: the page stays when the last row of the last one is deleted, and
\* when another database is chosen.
PageInRange == \A e \in EntryOf(RowsQuery) : OnGrid => page = 1 \/ page <= Pages(e)

\* Refuted: an order stays when another table is chosen, whose rows cannot be
\* read by it, while the new viewer shows none.
SortOfTable == OnGrid => sort \in {None, Table}

\* Refuted: the pages not on screen keep rows from before one's own write.
PagesAgree == \A d, e \in cached : d.query.conn = e.query.conn /\ d.query.table = e.query.table
                                     => d.at = e.at \/ Fetching(d.query) \/ Fetching(e.query)

\* Refuted: the answer to a request from a dialog left with Escape closes the
\* dialog opened since.
OwnAnswerCloses == [][\A i \in Saves : (saves[i].step = "applied" /\ saves'[i].step = "over" /\ dialog # Closed)
                                         => dialog.save = i \/ dialog' = dialog]_studioVars

===============================================================================
