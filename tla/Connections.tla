----------------------------- MODULE Connections -----------------------------
(***************************************************************************)
(* The saved database connections of an organization: the handlers that     *)
(* create, update and delete them, one query at a time; the lists a browser *)
(* keeps of them, one for each project page and one for the pages that show *)
(* all projects; and the modal that edits one from a copy in such a list.   *)
(*                                                                          *)
(* A row's host and password are named after the request that wrote them,   *)
(* and the other fields go with the host.  Projects exist from the start;   *)
(* another client may delete one.  Adding a connection is the wizard's      *)
(* business (ConnectionWizard): here it is the request it sends and what is *)
(* done with the answer.                                                    *)
(*                                                                          *)
(* A definition whose name ends in "_" and a word is not part of the        *)
(* specification: it is the definition after it with a bug a programmer     *)
(* could have made, and the properties must tell the two apart.             *)
(***************************************************************************)
EXTENDS Naturals, FiniteSets

CONSTANTS Projects,
          MaxConnectionsPerProject,
          MaxCalls       \* bound on requests that change something, of all clients

ASSUME ConnectionsAssumption ==
    /\ MaxConnectionsPerProject \in Nat \ {0} /\ MaxCalls \in Nat \ {0}
    /\ "all" \notin Projects

VARIABLES live,    \* the projects that have not been deleted
          racing,  \* the creations under way when a project was deleted
          row, call,
          cache,   \* the browser's lists
          page,    \* the page it shows
          form,    \* its open edit modal
          aim,     \* the lists that the answer to each request invalidates
          here     \* the requests whose aim goes with what the page shows

vars == <<live, racing, row, call, cache, page, form, aim, here>>

\* A connection is named after the request that created it, 0 is none.
Calls == 1..MaxCalls
Conns == Calls
Keys == Projects \cup {"all"}
Parts(key) == IF key = "all" THEN Projects ELSE {key}

Row == [state : {"free", "live", "gone"}, project : Projects \cup {"none"}, host : 0..MaxCalls, password : 0..MaxCalls]
FreeRow == [state |-> "free", project |-> "none", host |-> 0, password |-> 0]
GoneRow_Soft == [FreeRow EXCEPT !.state = "soft"]
GoneRow == [FreeRow EXCEPT !.state = "gone"]

Unused == [by |-> "none", op |-> "none", step |-> "free", project |-> "none", conn |-> 0,
           host |-> 0, typed |-> FALSE, read |-> 0, seen |-> {}]

\* What a list request has found: the hosts of the rows, and which of the
\* browser's requests had been carried out.
Snapshot == [host : [Conns -> 0..MaxCalls], seen : SUBSET Calls]
Nothing == [host |-> [c \in Conns |-> 0], seen |-> {}]

\* A query of the cache: its data, whether it may be shown without asking again,
\* the requests under way, and whether it was invalidated over a fetch that
\* went on.
Unloaded == [loaded |-> FALSE, data |-> Nothing, fresh |-> FALSE, missed |-> FALSE,
               busy |-> FALSE, got |-> [p \in {} |-> Nothing]]

\* There is one connection, which another client made.
Init == /\ live = Projects /\ racing = {}
        /\ \E p \in Projects :
              /\ row = [c \in Conns |-> IF c = 1 THEN [state |-> "live", project |-> p, host |-> 1, password |-> 1]
                                        ELSE FreeRow]
              /\ call = [k \in Calls |-> IF k = 1
                                         THEN [Unused EXCEPT !.by = "other", !.op = "create", !.step = "ok",
                                                             !.project = p, !.conn = 1, !.typed = TRUE]
                                         ELSE Unused]
        /\ cache = [key \in Keys |-> Unloaded]
        /\ page = "none"
        /\ form = [conn |-> 0, host |-> 0, pending |-> 0]
        /\ aim = [k \in Calls |-> {}] /\ here = {}

-----------------------------------------------------------------------------
(***************************************************************************)
(* The handlers                                                             *)
(***************************************************************************)
RowsOf(p) == {c \in Conns : row[c].state = "live" /\ row[c].project = p}
Committed == {k \in Calls : call[k].step \in {"ok", "done", "lost"}}

OwnCommitted == {k \in Committed : call[k].by = "me"}

Server(k) == UNCHANGED <<live, racing, cache, page, form, aim, here>>
\* What a request still needs once it has been carried out, or turned down.
Carried(k) == call' = [call EXCEPT ![k].step = "ok", ![k].host = 0, ![k].read = 0]
Turned(k) == call' = [call EXCEPT ![k] = [Unused EXCEPT !.step = "refused"]]

Goes(k, step) == call' = [call EXCEPT ![k].step = step, ![k].seen = Committed]

\* CreateConnection looks for the project and counts its connections.
BelowQuota_Inclusive(p) == Cardinality(RowsOf(p)) <= MaxConnectionsPerProject
BelowQuota(p) == Cardinality(RowsOf(p)) < MaxConnectionsPerProject

CheckCreate(k) ==
    /\ call[k].op = "create" /\ call[k].step = "sent"
    /\ call[k].project \in live /\ BelowQuota(call[k].project)
    /\ Goes(k, "checked")
    /\ UNCHANGED row /\ Server(k)

\* There are no foreign keys: the project may be gone by now.
Insert(k) ==
    /\ call[k].op = "create" /\ call[k].step = "checked"
    /\ row' = [row EXCEPT ![k] =
                   [state |-> "live", project |-> call[k].project, host |-> k, password |-> k]]
    /\ Carried(k)
    /\ Server(k)

\* UpdateConnection and DeleteConnection read the row.
ReadRow(k) ==
    /\ call[k].op \in {"update", "delete"} /\ call[k].step = "sent"
    /\ row[call[k].conn].state = "live"
    /\ call' = [call EXCEPT ![k].step = "checked",
                            ![k].seen = IF call[k].op = "update" THEN Committed ELSE {},
                            ![k].read = IF call[k].op = "update" THEN row[call[k].conn].password ELSE 0]
    /\ UNCHANGED row /\ Server(k)

\* UpdateConnection writes the row as it was read with the fields of the
\* request in it; an empty password is not one of them.
Password_Blank(k) == IF call[k].typed THEN k ELSE 0
Password(k) == IF call[k].typed THEN k ELSE call[k].read

\* The repository updates by id, which does nothing where the row is gone, and
\* reads the row again, which then fails.  (Where the row goes between the two the
\* answer is an error though the row was written: LoseAnswer.)
SaveRow_Upsert(k) ==
    /\ row' = [row EXCEPT ![call[k].conn] =
                   [@ EXCEPT !.state = "live", !.host = call[k].host, !.password = Password(k)]]
    /\ Carried(k)

SaveRow(k) ==
    IF row[call[k].conn].state = "live"
    THEN /\ row' = [row EXCEPT ![call[k].conn].host = call[k].host, ![call[k].conn].password = Password(k)]
         /\ Carried(k)
    ELSE UNCHANGED row /\ Turned(k)

Save(k) == /\ call[k].op = "update" /\ call[k].step = "checked"
           /\ SaveRow(k) /\ Server(k)

\* DeleteConnection deletes by id, whether or not the row is still there.
DeleteRow(k) ==
    /\ call[k].op = "delete" /\ call[k].step = "checked"
    /\ row' = [row EXCEPT ![call[k].conn] = GoneRow]
    /\ Carried(k)
    /\ Server(k)

\* The role, the project, the row, the quota or the database says no.
Refuse(k) ==
    /\ call[k].step \in {"sent", "checked"}
    /\ Turned(k)
    /\ UNCHANGED row /\ Server(k)

\* An answer that is lost while the form waits for it; where nothing waits, it is
\* one that does not come.
LoseAnswer(k) ==
    /\ call[k].step = "ok" /\ form.pending = k
    /\ call' = [call EXCEPT ![k].step = "lost"]
    /\ UNCHANGED row /\ Server(k)

\* DeleteProject deletes the connections and the project in one transaction.
Cascade_Skip(p) == UNCHANGED row
Cascade(p) == row' = [c \in Conns |-> IF c \in RowsOf(p) THEN GoneRow ELSE row[c]]

DeleteProject(p) ==
    /\ p \in live
    /\ live' = live \ {p}
    /\ racing' = racing \cup {k \in Calls : call[k].op = "create" /\ call[k].project = p /\ call[k].step = "checked"}
    /\ Cascade(p)
    /\ UNCHANGED <<call, cache, page, form, aim, here>>

-----------------------------------------------------------------------------
(***************************************************************************)
(* The lists                                                                *)
(***************************************************************************)
Idle(q) == [q EXCEPT !.busy = FALSE, !.got = [p \in {} |-> Nothing]]
Fetching(q) == [Idle(q) EXCEPT !.busy = TRUE, !.fresh = FALSE, !.missed = FALSE]

\* The callbacks of a mutation are those of the last render.  From one project's
\* page to another's the page stays, and the wizard on it unless the project has
\* to be loaded; otherwise what is under way keeps the project it had.
Follow(S, p) == /\ aim' = [k \in Calls |-> IF k \in S THEN {p} ELSE aim[k]]
                /\ here' = S
Followers(key) == IF page \in Projects /\ key \in Projects
                  THEN {{}, here, {k \in here : call[k].op = "delete"}} ELSE {{}}

\* A page asks for its list when it is opened, unless the list is fresh or on
\* its way.
Visit(key) ==
    /\ key # page
    /\ page' = key
    /\ form' = [conn |-> 0, host |-> 0, pending |-> 0]
    /\ cache' = IF cache[key].fresh \/ cache[key].busy THEN cache
                ELSE [cache EXCEPT ![key] = Fetching(@)]
    /\ \E S \in Followers(key) : Follow(S, key)
    /\ UNCHANGED <<live, racing, row, call>>

\* The filter of the page of all connections also says where its wizards add one.
SelectProject(p) ==
    /\ page = "all"
    /\ Follow(here, p)
    /\ UNCHANGED <<live, racing, row, call, cache, page, form>>

\* invalidateQueries.  The list of the page shown is asked for again, in place
\* of an answer under way unless that is its first; any other list is only
\* marked, and a fetch of it that goes on takes the mark away when it ends.
Invalidated_Late(key, q) == IF key = page /\ ~q.busy THEN Fetching(q) ELSE [q EXCEPT !.fresh = FALSE, !.missed = @ \/ (q.busy /\ key # page)]
Invalidated(key, q) ==
    IF key = page /\ (q.loaded \/ ~q.busy) THEN Fetching(q)
    ELSE [q EXCEPT !.fresh = FALSE, !.missed = @ \/ q.busy]

Invalidate(keys) == cache' = [key \in Keys |-> IF key \in keys THEN Invalidated(key, cache[key]) ELSE cache[key]]

\* ListConnections of one project: a list of all projects asks for each of them
\* and takes an error for an empty list.
Found(p) == [host |-> [c \in Conns |-> IF c \in RowsOf(p) THEN row[c].host ELSE 0], seen |-> OwnCommitted]

ServeList(key, p) ==
    /\ cache[key].busy /\ p \in Parts(key) \ DOMAIN cache[key].got
    /\ \E found \in {Found(p)} \cup (IF key = "all" THEN {[Nothing EXCEPT !.seen = OwnCommitted]} ELSE {}) :
          cache' = [cache EXCEPT ![key].got = [x \in DOMAIN @ \cup {p} |-> IF x = p THEN found ELSE @[x]]]
    /\ UNCHANGED <<live, racing, row, call, page, form, aim, here>>

\* The connections of several projects are disjoint.
Joined(got) ==
    [host |-> [c \in Conns |-> IF \E p \in DOMAIN got : got[p].host[c] # 0
                               THEN got[CHOOSE p \in DOMAIN got : got[p].host[c] # 0].host[c] ELSE 0],
     seen |-> {k \in Calls : call[k].project \in DOMAIN got /\ k \in got[call[k].project].seen}]

\* The modal is part of the card of its connection and goes with it.
Kept(key, data) == IF key = page /\ form.conn # 0 /\ data.host[form.conn] = 0
                   THEN [conn |-> 0, host |-> 0, pending |-> 0] ELSE form

Receive(key) ==
    /\ cache[key].busy /\ DOMAIN cache[key].got = Parts(key)
    /\ LET data == Joined(cache[key].got) IN
       /\ cache' = [cache EXCEPT ![key] = [Idle(@) EXCEPT !.loaded = TRUE, !.fresh = TRUE, !.data = data]]
       /\ form' = Kept(key, data)
    /\ UNCHANGED <<live, racing, row, call, page, aim, here>>

\* An error leaves what the list shows as it was.
ReceiveError(key) ==
    /\ cache[key].busy /\ key # "all"
    /\ cache' = [cache EXCEPT ![key] = Idle(@)]
    /\ UNCHANGED <<live, racing, row, call, page, form, aim, here>>

-----------------------------------------------------------------------------
(***************************************************************************)
(* What the user does                                                       *)
(***************************************************************************)
Unsent(k) == call[k].step = "free" /\ \A j \in 1..(k - 1) : call[j].step # "free"
Shown(c) == page # "none" /\ cache[page].data.host[c] # 0

Sent(k, by, op, c, p, h, typed) ==
    /\ Unsent(k)
    /\ call' = [call EXCEPT ![k] =
          [by |-> by, op |-> op, step |-> "sent",
           project |-> p, conn |-> c, host |-> h, typed |-> typed, read |-> 0, seen |-> {}]]

Aims(k, keys) == aim' = [aim EXCEPT ![k] = keys]

\* The wizard is on both kinds of page.
SubmitCreate(k, p) ==
    /\ page # "none" /\ p \in Parts(page)
    /\ Sent(k, "me", "create", k, p, k, TRUE)
    /\ Aims(k, {p}) /\ here' = here \cup {k}
    /\ UNCHANGED <<live, racing, row, cache, page, form>>

\* The defaults of the form are the connection as the list has it.
OpenEdit(c) ==
    /\ Shown(c) /\ form.conn = 0
    /\ form' = [conn |-> c, host |-> cache[page].data.host[c], pending |-> 0]
    /\ UNCHANGED <<live, racing, row, call, cache, page, aim, here>>

CloseEdit ==
    /\ form.conn # 0
    /\ form' = [conn |-> 0, host |-> 0, pending |-> 0]
    /\ UNCHANGED <<live, racing, row, call, cache, page, aim, here>>

\* The fields go as they stand in the form, a password only where one was typed.
SubmitEdit(k, typed) ==
    /\ form.conn # 0 /\ form.pending = 0
    /\ \E h \in {form.host, k} : Sent(k, "me", "update", form.conn, row[form.conn].project, h, typed)
    /\ form' = [form EXCEPT !.pending = k]
    /\ Aims(k, Keys)
    /\ UNCHANGED <<live, racing, row, cache, page, here>>

SubmitDelete(k, c) ==
    /\ Shown(c)
    /\ Sent(k, "me", "delete", c, row[c].project, 0, FALSE)
    /\ IF page = "all" THEN Aims(k, Keys) /\ UNCHANGED here
       ELSE Aims(k, {page}) /\ here' = here \cup {k}
    /\ UNCHANGED <<live, racing, row, cache, page, form>>

\* Another client: the same requests, without a view of its pages.
SubmitOther(k) ==
    /\ \/ \E p \in live : Sent(k, "other", "create", k, p, k, TRUE)
       \/ \E c \in Conns, typed \in BOOLEAN : /\ row[c].state = "live"
                                              /\ Sent(k, "other", "update", c, row[c].project, k, typed)
       \/ \E c \in Conns : row[c].state = "live" /\ Sent(k, "other", "delete", c, row[c].project, 0, FALSE)
    /\ UNCHANGED <<live, racing, row, cache, page, form, aim, here>>

\* The callbacks of the mutations, which run wherever the user has gone.
Answered(k) == call' = [call EXCEPT ![k].step = "done"]

FinishOk(k) ==
    /\ call[k].by = "me" /\ call[k].step = "ok"
    /\ Answered(k)
    /\ Invalidate(aim[k])
    /\ here' = here \ {k}
    /\ form' = IF form.pending = k THEN [conn |-> 0, host |-> 0, pending |-> 0] ELSE form
    /\ UNCHANGED <<live, racing, row, page, aim>>

FinishError(k) ==
    /\ form.pending = k /\ call[k].step \in {"refused", "lost"}
    /\ form' = [form EXCEPT !.pending = 0]
    /\ UNCHANGED <<live, racing, row, call, cache, page, aim, here>>

-----------------------------------------------------------------------------
Handle(k) == CheckCreate(k) \/ Insert(k) \/ ReadRow(k) \/ Save(k) \/ DeleteRow(k) \/ Refuse(k)

Next == \/ \E k \in Calls : \/ Handle(k) \/ LoseAnswer(k) \/ FinishOk(k) \/ FinishError(k)
        \/ \E k \in Calls : /\ Unsent(k)
                            /\ \/ SubmitOther(k)
                               \/ \E p \in Projects : SubmitCreate(k, p)
                               \/ \E typed \in BOOLEAN : SubmitEdit(k, typed)
                               \/ \E c \in Conns : SubmitDelete(k, c)
        \/ \E p \in Projects : DeleteProject(p) \/ SelectProject(p)
        \/ \E key \in Keys : \/ Visit(key) \/ Receive(key) \/ ReceiveError(key)
                             \/ \E p \in Parts(key) : ServeList(key, p)
        \/ \E c \in Conns : OpenEdit(c)
        \/ CloseEdit

Spec == Init /\ [][Next]_vars

-----------------------------------------------------------------------------
TypeOK == /\ live \subseteq Projects /\ racing \subseteq Calls
          /\ row \in [Conns -> Row]
          /\ \A k \in Calls :
                call[k] \in [by : {"none", "me", "other"}, op : {"none", "create", "update", "delete"},
                             step : {"free", "sent", "checked", "ok", "refused", "lost", "done"},
                             project : Projects \cup {"none"}, conn : 0..MaxCalls, host : 0..MaxCalls,
                             typed : BOOLEAN, read : 0..MaxCalls, seen : SUBSET Calls]
          /\ \A key \in Keys : /\ cache[key].data \in Snapshot
                               /\ DOMAIN cache[key].got \subseteq Parts(key)
                               /\ \A p \in DOMAIN cache[key].got : cache[key].got[p] \in Snapshot
          /\ page \in Keys \cup {"none"} /\ aim \in [Calls -> SUBSET Keys] /\ here \subseteq Calls
          /\ form \in [conn : 0..MaxCalls, host : 0..MaxCalls, pending : 0..MaxCalls]

Overlap(k, j) == j # k /\ j \notin call[k].seen /\ k \notin call[j].seen

\* A project has more connections than its quota only where creations overlapped:
\* the count and the insert are two calls.
QuotaRaceOnly ==
    \A p \in Projects : Cardinality(RowsOf(p)) > MaxConnectionsPerProject
        => \E j, k \in Committed : /\ call[j].op = "create" /\ call[k].op = "create"
                                   /\ call[j].project = p /\ call[k].project = p /\ Overlap(j, k)

\* A connection outlives its project only where its creation was under way when
\* the project was deleted, with its check behind it.
OrphanRaceOnly ==
    \A c \in Conns : row[c].state = "live" /\ row[c].project \notin live
        => \E k \in racing : call[k].conn = c

\* A password that was saved is the connection's until another one is saved,
\* whatever else is edited meanwhile; only an update that overlapped the one
\* with the password brings an older one back.
PasswordKept ==
    \A k \in Committed : call[k].typed /\ row[call[k].conn].state = "live" /\ row[call[k].conn].password # k
        => \E j \in Committed : /\ call[j].conn = call[k].conn
                                /\ (call[j].typed /\ k \in call[j].seen) \/ Overlap(j, k)

\* The table of connections is sound in every state, up to the races that are named.
ConnectionsSound == TypeOK /\ QuotaRaceOnly /\ OrphanRaceOnly /\ PasswordKept

\* A deleted connection does not come back, whatever updates of it are under way.
GoneForGood == [][\A c \in Conns : row[c].state = "gone" => row'[c].state = "gone"]_vars

\* The list of a project shows every change of the user whose answer has named
\* that list, once it counts as fresh, whichever page is shown by then; only a
\* fetch that no other could replace when the answer came, the first of the list
\* or one whose page was left, may have missed it.
CurrentFor(key) == \A k \in Calls : /\ call[k].by = "me" /\ call[k].step = "done" /\ key \in aim[k]
                                    /\ call[k].project \in Parts(key) /\ cache[key].fresh /\ ~cache[key].missed
                                    => k \in cache[key].data.seen
OwnWritesShown == \A p \in Projects : CurrentFor(p)

\* Refuted: the same with every fetch.  What a fetch had read before the change
\* counts as fresh for five minutes.
FreshIsCurrent ==
    \A p \in Projects, k \in Calls : /\ call[k].by = "me" /\ call[k].step = "done" /\ p \in aim[k]
                                     /\ call[k].project = p /\ cache[p].fresh
                                     => k \in cache[p].data.seen

\* Refuted, with two projects: that the answer to a change names the list of the
\* project that was changed.
ChangedListNamed ==
    \A k \in Calls : call[k].by = "me" /\ call[k].step = "done" => call[k].project \in aim[k]

\* Refuted: that the pages of all projects show what was changed.  What is made
\* with the wizard, or deleted on the page of a project, names that project's list
\* alone, and the key of the list of all projects is no extension of it.
OverviewCurrent ==
    \A k \in Calls : call[k].by = "me" /\ call[k].step = "done" /\ cache["all"].fresh => k \in cache["all"].data.seen

\* Refuted: that an edit writes the host the row has or one that the user typed:
\* the form sends every field, and its copies are as old as the list.
EditKeepsOthers ==
    [][\A k \in Calls : (call[k].op = "update" /\ call[k].step = "checked" /\ call'[k].step = "ok")
         => call[k].host \in {k, row[call[k].conn].host}]_vars
=============================================================================
