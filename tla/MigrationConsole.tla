--------------------------- MODULE MigrationConsole ---------------------------
(***************************************************************************)
(* The pages of migrations: the list, the wizard that launches a job and    *)
(* the live page, which shows what a stream of events and a polled query    *)
(* say of one job, against the server's row, goroutine and progress hub.    *)
(*                                                                          *)
(* The live page passes useMigrationStream a new onComplete on every        *)
(* render, and the effect that holds the EventSource depends on it: every   *)
(* change of state closes the stream and opens another (Rerender).          *)
(*                                                                          *)
(* A definition whose name ends in "_" and a word is not part of the        *)
(* specification: it is the definition after it with a bug a programmer     *)
(* could have made, and the properties must tell the two apart.             *)
(***************************************************************************)
EXTENDS Naturals, Sequences, FiniteSets

CONSTANTS Conns,        \* the project's database connections
          First,        \* the one the wizard starts with
          MaxLaunches,  \* bound on requests that start a job
          MaxVisits,    \* bound on changes of page
          MaxTaps,      \* bound on cancellations and on pressed refreshes
          MaxEvents,    \* bound on events under way to the browser
          MaxFaults     \* bound on lost answers, broken streams and failed writes

ASSUME ConsoleAssumption ==
    /\ First \in Conns
    /\ {MaxLaunches, MaxVisits, MaxTaps, MaxEvents, MaxFaults} \subseteq Nat

VARIABLES row,       \* status of each job in the database, or "none"
          worker,    \* where each job's goroutine is
          stopped,   \* jobs whose context is cancelled
          page, watched, wizard,
          launch,    \* every request to start a job; job i is launch i's
          detail,    \* the cached job of each live page
          poll,      \* its fetch: idle, sent, or the status it brings
          listed,    \* the cached list of jobs
          listPoll,  \* its fetch, with the rows it brings, and whether one has ended
          stream,    \* the EventSource of the live page
          channel,   \* the events of its subscription
          streamed,  \* streamStatus
          mounted,   \* history: the job of the live page while it has shown no other, or 0
          rerender,  \* a change of state waits to be rendered
          cancel,    \* the request to cancel
          visits, taps, faults

jobVars == <<row, worker, stopped>>
streamVars == <<stream, channel, streamed, mounted, rerender>>
queryVars == <<detail, poll, listed, listPoll>>
bounds == <<visits, taps, faults>>
consoleVars == <<jobVars, page, watched, wizard, launch, streamVars, queryVars, cancel, bounds>>

Jobs == 1..MaxLaunches
None == "none"
Ended == {"completed", "failed", "cancelled"}
Active == {"pending", "running"}
Statuses == Active \cup Ended
Unlisted == [j \in Jobs |-> None]
NoCancel == [step |-> "none", job |-> 0, from |-> None]
NoFetch == [step |-> "idle", rows |-> Unlisted, loaded |-> FALSE]
NoLaunch == [step |-> "none", visit |-> 0, source |-> None, table |-> None, target |-> None]

\* The wizard as NewMigrationPage mounts it.
Wizards == [step: 1..3, source: Conns, table: Conns \cup {None}, target: Conns \cup {None}]

Mounted == [step |-> 1, source |-> First, table |-> None, target |-> None]

ConsoleInit == /\ row = Unlisted /\ worker = Unlisted /\ stopped = {}
        /\ page = "list" /\ watched = 0
        /\ wizard = Mounted
        /\ launch = [j \in Jobs |-> NoLaunch]
        /\ detail = Unlisted /\ poll = [j \in Jobs |-> "idle"]
        /\ listed = Unlisted /\ listPoll = [NoFetch EXCEPT !.step = "sent"]
        /\ stream = None /\ channel = <<>> /\ streamed = None /\ mounted = 0 /\ rerender = FALSE
        /\ cancel = NoCancel
        /\ visits = 0 /\ taps = 0 /\ faults = 0

Fault == faults < MaxFaults /\ faults' = faults + 1
Tap == taps < MaxTaps /\ taps' = taps + 1

\* What the live page shows: the stream first, then the query, then the default.
Shown == IF streamed # None THEN streamed
         ELSE IF detail[watched] # None THEN detail[watched] ELSE "pending"

-----------------------------------------------------------------------------
(***************************************************************************)
(* The server                                                               *)
(***************************************************************************)
\* Its checks and its lock are MigrationService's matter.
\* What a request asks for is forgotten here once it is served.
Served(i, s) == launch' = [launch EXCEPT ![i] = [NoLaunch EXCEPT !.step = s, !.visit = launch[i].visit]]

StartMigration(i) ==
    /\ launch[i].step = "sent"
    /\ row' = [row EXCEPT ![i] = "pending"]
    /\ worker' = [worker EXCEPT ![i] = "created"]
    /\ Served(i, "accepted")
    /\ UNCHANGED <<stopped, page, watched, wizard, streamVars, queryVars, cancel, bounds>>

RefuseLaunch(i) ==
    /\ launch[i].step = "sent"
    /\ Served(i, "refused")
    /\ UNCHANGED <<jobVars, page, watched, wizard, streamVars, queryVars, cancel, bounds>>

\* An event for the subscription of the live page, if it has one.
Emit(j, e) == channel' = IF stream = "open" /\ watched = j THEN Append(channel, e) ELSE channel
Room == Len(channel) < MaxEvents

\* Writes of the goroutine do nothing with a cancelled context, and no error of
\* theirs is looked at.
Write(j, s) == \/ /\ row' = IF j \in stopped THEN row ELSE [row EXCEPT ![j] = s]
                  /\ UNCHANGED faults
               \/ Fault /\ UNCHANGED row

ServerOnly == UNCHANGED <<page, watched, wizard, launch, stream, streamed, mounted, rerender, queryVars, cancel, visits, taps>>

Begin(j) ==
    /\ worker[j] = "created"
    /\ Write(j, "running")
    /\ worker' = [worker EXCEPT ![j] = "begun"]
    /\ UNCHANGED <<stopped, channel>> /\ ServerOnly

\* The start event and the event of every batch.
Progress(j) ==
    /\ worker[j] \in {"begun", "streaming"} /\ Room
    /\ Emit(j, "running")
    /\ worker' = [worker EXCEPT ![j] = "streaming"]
    /\ UNCHANGED <<row, stopped, faults>> /\ ServerOnly

\* Completed is broadcast before the row is written.
Succeed(j) ==
    /\ worker[j] = "streaming" /\ Room
    /\ Emit(j, "completed")
    /\ worker' = [worker EXCEPT ![j] = "succeeded"]
    /\ UNCHANGED <<row, stopped, faults>> /\ ServerOnly

\* An error or the cancelled context: nothing is broadcast.
Fail(j) ==
    /\ worker[j] = "streaming"
    /\ worker' = [worker EXCEPT ![j] = "failed"]
    /\ UNCHANGED <<row, stopped, channel, faults>> /\ ServerOnly

Settle(j) ==
    /\ \/ worker[j] = "succeeded" /\ Write(j, "completed")
       \/ worker[j] = "failed" /\ Write(j, IF j \in stopped THEN "cancelled" ELSE "failed")
    /\ worker' = [worker EXCEPT ![j] = "closing"]
    /\ UNCHANGED <<stopped, channel>> /\ ServerOnly

\* The deferred hub.Close.
EndJob(j) ==
    /\ worker[j] = "closing"
    /\ Emit(j, "eof")
    /\ worker' = [worker EXCEPT ![j] = "done"]
    /\ UNCHANGED <<row, stopped, faults>> /\ ServerOnly

ServeCancel ==
    LET j == cancel.job
        taken == row[j] \in Active /\ worker[j] # "done"
    IN /\ cancel.step = "sent"
       /\ cancel' = [cancel EXCEPT !.step = IF taken THEN "accepted" ELSE "refused"]
       /\ stopped' = IF taken THEN stopped \cup {j} ELSE stopped
       /\ UNCHANGED <<row, worker, page, watched, wizard, launch, streamVars, queryVars, bounds>>

-----------------------------------------------------------------------------
(***************************************************************************)
(* The queries                                                              *)
(***************************************************************************)
\* refetchInterval of the live page: 1.5 s while there is no job or it has not ended.
PollTimer_NoPending(j) ==
    /\ page = "live" /\ watched = j /\ poll[j] = "idle"
    /\ detail[j] = "running"
    /\ poll' = [poll EXCEPT ![j] = "sent"]
    /\ UNCHANGED <<jobVars, page, watched, wizard, launch, streamVars, detail, listed, listPoll, cancel, bounds>>

PollTimer(j) ==
    /\ page = "live" /\ watched = j /\ poll[j] = "idle"
    /\ detail[j] \notin Ended
    /\ poll' = [poll EXCEPT ![j] = "sent"]
    /\ UNCHANGED <<jobVars, page, watched, wizard, launch, streamVars, detail, listed, listPoll, cancel, bounds>>

AnswerPoll(j) ==
    /\ poll[j] = "sent"
    /\ \/ poll' = [poll EXCEPT ![j] = row[j]] /\ UNCHANGED faults
       \/ poll' = [poll EXCEPT ![j] = "idle"] /\ Fault
    /\ UNCHANGED <<jobVars, page, watched, wizard, launch, streamVars, detail, listed, listPoll, cancel, visits, taps>>

\* An active query asks again and forgets a fetch that is under way; where it has
\* nothing yet the fetch under way will do.
Refetch(j) ==
    poll' = [poll EXCEPT ![j] = IF page = "live" /\ watched = j /\ (@ = "idle" \/ detail[j] # None) THEN "sent" ELSE @]

AskList == listPoll' = [listPoll EXCEPT !.step = "sent", !.rows = Unlisted]
RefetchList == IF page = "list" /\ (listPoll.step = "idle" \/ listPoll.loaded) THEN AskList ELSE UNCHANGED listPoll

\* The effect of useMigrationStream, when the job on the page is d.
Reopen_NoFailed(d) ==
    /\ stream' = IF d \in {"completed", "cancelled"} THEN None ELSE "connecting"
    /\ channel' = <<>>
    /\ rerender' = (stream = "open")

Reopen(d) ==
    /\ stream' = IF d \in Ended THEN None ELSE "connecting"
    /\ channel' = <<>>
    /\ rerender' = (stream = "open")

\* Every answer also becomes the stream's status.
ReceivePoll_Synced(j) ==
    /\ poll[j] \in Statuses
    /\ detail' = [detail EXCEPT ![j] = poll[j]]
    /\ poll' = [poll EXCEPT ![j] = "idle"]
    /\ IF page = "live" /\ watched = j
       THEN streamed' = poll[j] /\ Reopen(poll[j]) /\ UNCHANGED mounted
       ELSE UNCHANGED streamVars
    /\ UNCHANGED <<jobVars, page, watched, wizard, launch, listed, listPoll, cancel, bounds>>

\* A new answer is rendered at once, with the effect; one that differs in its
\* counts only may be.
ReceivePoll(j) ==
    /\ poll[j] \in Statuses
    /\ detail' = [detail EXCEPT ![j] = poll[j]]
    /\ poll' = [poll EXCEPT ![j] = "idle"]
    /\ \/ page = "live" /\ watched = j /\ Reopen(poll[j]) /\ UNCHANGED <<streamed, mounted>>
       \/ (page # "live" \/ watched # j \/ detail[j] = poll[j]) /\ UNCHANGED streamVars
    /\ UNCHANGED <<jobVars, page, watched, wizard, launch, listed, listPoll, cancel, bounds>>

\* refetchInterval of the list: 10 s while some job runs.
ListTimer_Pending ==
    /\ page = "list" /\ listPoll.step = "idle"
    /\ \E j \in Jobs : listed[j] = "pending"
    /\ AskList
    /\ UNCHANGED <<jobVars, page, watched, wizard, launch, streamVars, detail, poll, listed, cancel, bounds>>

ListTimer ==
    /\ page = "list" /\ listPoll.step = "idle"
    /\ \E j \in Jobs : listed[j] = "running"
    /\ AskList
    /\ UNCHANGED <<jobVars, page, watched, wizard, launch, streamVars, detail, poll, listed, cancel, bounds>>

AnswerList ==
    /\ listPoll.step = "sent"
    /\ \/ listPoll' = [listPoll EXCEPT !.step = "read", !.rows = row] /\ UNCHANGED faults
       \/ listPoll' = [listPoll EXCEPT !.step = "idle"] /\ Fault
    /\ UNCHANGED <<jobVars, page, watched, wizard, launch, streamVars, detail, poll, listed, cancel, visits, taps>>

ReceiveList ==
    /\ listPoll.step = "read"
    /\ listed' = listPoll.rows
    /\ listPoll' = [NoFetch EXCEPT !.loaded = TRUE]
    /\ UNCHANGED <<jobVars, page, watched, wizard, launch, streamVars, detail, poll, cancel, bounds>>

-----------------------------------------------------------------------------
(***************************************************************************)
(* The stream                                                               *)
(***************************************************************************)
\* StreamProgress subscribes whatever the job's state; then onopen.
Connect ==
    /\ stream = "connecting"
    /\ stream' = "open" /\ rerender' = TRUE
    /\ UNCHANGED <<jobVars, page, watched, wizard, launch, channel, streamed, mounted, queryVars, cancel, bounds>>

\* An answer that is no stream, as to an expired access token: onerror finds the
\* source closed and takes it for the end of the job.
RefuseStream ==
    /\ stream = "connecting" /\ Fault
    /\ stream' = None /\ rerender' = TRUE
    /\ Refetch(watched)
    /\ UNCHANGED <<jobVars, page, watched, wizard, launch, channel, streamed, mounted, detail, listed, listPoll,
                   cancel, visits, taps>>

\* handleMessage for one event, or onerror when the server closes: the source
\* reconnects by itself.
Deliver_EofEnds ==
    /\ stream = "open" /\ channel # <<>>
    /\ rerender' = TRUE
    /\ IF Head(channel) = "running"
       THEN streamed' = "running" /\ channel' = Tail(channel) /\ UNCHANGED <<stream, poll>>
       ELSE streamed' = "completed" /\ stream' = None /\ channel' = <<>> /\ Refetch(watched)
    /\ UNCHANGED <<jobVars, page, watched, wizard, launch, mounted, detail, listed, listPoll, cancel, bounds>>

Deliver ==
    /\ stream = "open" /\ channel # <<>>
    /\ rerender' = TRUE
    /\ \/ /\ Head(channel) = "running"
          /\ streamed' = "running" /\ channel' = Tail(channel)
          /\ UNCHANGED <<stream, poll>>
       \/ /\ Head(channel) = "completed"
          /\ streamed' = "completed" /\ stream' = None /\ channel' = <<>>
          /\ Refetch(watched)
       \/ /\ Head(channel) = "eof"
          /\ stream' = "connecting" /\ channel' = <<>>
          /\ UNCHANGED <<streamed, poll>>
    /\ UNCHANGED <<jobVars, page, watched, wizard, launch, mounted, detail, listed, listPoll, cancel, bounds>>

Break ==
    /\ stream = "open" /\ Fault
    /\ stream' = "connecting" /\ channel' = <<>> /\ rerender' = TRUE
    /\ UNCHANGED <<jobVars, page, watched, wizard, launch, streamed, mounted, queryVars, cancel, visits, taps>>

\* The new onComplete of a render runs the effect again.
Rerender ==
    /\ rerender
    /\ Reopen(detail[watched])
    /\ UNCHANGED <<jobVars, page, watched, wizard, launch, streamed, mounted, queryVars, cancel, bounds>>

-----------------------------------------------------------------------------
(***************************************************************************)
(* The pages                                                                *)
(***************************************************************************)
\* What the next page of j asks for.  Cached data may be stale when a page mounts.
Ask(j) == \/ poll' = [poll EXCEPT ![j] = IF @ = "idle" THEN "sent" ELSE @]
          \/ detail[j] # None /\ UNCHANGED poll

\* The live page of j: the hook starts anew and opens a stream unless the cached
\* job has ended.
MountLive(j) ==
    /\ page' = "live" /\ watched' = j /\ wizard' = Mounted
    /\ stream' = IF detail[j] \in Ended THEN None ELSE "connecting"
    /\ channel' = <<>> /\ streamed' = None /\ mounted' = j /\ rerender' = FALSE
    /\ Ask(j)

GoLive(j) ==
    /\ visits < MaxVisits /\ visits' = visits + 1
    /\ page = "list" /\ listed[j] # None
    /\ MountLive(j)
    /\ UNCHANGED <<jobVars, launch, detail, listed, listPoll, cancel, taps, faults>>

\* A list page that mounts asks for what it does not have or what is stale, and
\* waits for a fetch that is under way.
AskOnMount == \/ listPoll.step = "idle" /\ AskList
              \/ (listPoll.step # "idle" \/ listPoll.loaded) /\ UNCHANGED listPoll

\* The EventSource is not closed when the page goes.
GoList_KeepStream ==
    /\ visits < MaxVisits /\ visits' = visits + 1
    /\ page \in {"new", "live"}
    /\ page' = "list" /\ watched' = 0 /\ wizard' = Mounted
    /\ AskOnMount
    /\ UNCHANGED <<jobVars, launch, detail, poll, listed, streamVars, cancel, taps, faults>>

GoList ==
    /\ visits < MaxVisits /\ visits' = visits + 1
    /\ page \in {"new", "live"}
    /\ page' = "list" /\ watched' = 0 /\ wizard' = Mounted
    /\ stream' = None /\ channel' = <<>> /\ streamed' = None /\ mounted' = 0 /\ rerender' = FALSE
    /\ AskOnMount
    /\ UNCHANGED <<jobVars, launch, detail, poll, listed, cancel, taps, faults>>

GoNew ==
    /\ visits < MaxVisits /\ visits' = visits + 1
    /\ page = "list"
    /\ page' = "new"
    /\ UNCHANGED <<jobVars, watched, wizard, launch, streamVars, queryVars, cancel, taps, faults>>

\* The refresh button of each page, which drops a fetch that is under way.
Refresh ==
    /\ Tap
    /\ \/ page = "live" /\ Refetch(watched) /\ UNCHANGED listPoll
       \/ page = "list" /\ RefetchList /\ UNCHANGED poll
    /\ UNCHANGED <<jobVars, page, watched, wizard, launch, streamVars, detail, listed, cancel, visits, faults>>

\* The cancel dialogs: of the live page and of a row of the list.
SubmitCancel(j) ==
    /\ Tap
    /\ cancel = NoCancel
    /\ \/ page = "live" /\ watched = j /\ Shown = "running"
       \/ page = "list" /\ listed[j] = "running"
    /\ cancel' = [step |-> "sent", job |-> j, from |-> page]
    /\ UNCHANGED <<jobVars, page, watched, wizard, launch, streamVars, queryVars, visits, faults>>

\* The onSuccess of the page's mutation, wherever the user is by now: the list
\* page has the list asked for again and not the job; a refusal only ends it.
FinishCancel ==
    /\ cancel.step \in {"accepted", "refused"}
    /\ cancel' = NoCancel
    /\ IF cancel.step = "accepted"
       THEN /\ IF cancel.from = "live" THEN Refetch(cancel.job) ELSE UNCHANGED poll
            /\ RefetchList
       ELSE UNCHANGED <<poll, listPoll>>
    /\ UNCHANGED <<jobVars, page, watched, wizard, launch, streamVars, detail, listed, bounds>>

-----------------------------------------------------------------------------
(***************************************************************************)
(* The wizard                                                               *)
(***************************************************************************)
\* A bound: a wizard is filled in as long as a request is left.
OnWizard == /\ \E i \in Jobs : launch[i].step = "none"
            /\ UNCHANGED <<jobVars, page, watched, launch, streamVars, queryVars, cancel, bounds>>

\* A connection card of step 1, which also empties the table.
ChooseSource_KeepTable(c) ==
    /\ page = "new" /\ wizard.step = 1
    /\ wizard' = [wizard EXCEPT !.source = c]
    /\ OnWizard

ChooseSource(c) ==
    /\ page = "new" /\ wizard.step = 1
    /\ wizard' = [wizard EXCEPT !.source = c, !.table = None]
    /\ OnWizard

\* A table is known by the connection whose schema it was picked from.
ChooseTable ==
    /\ page = "new" /\ wizard.step = 1
    /\ wizard' = [wizard EXCEPT !.table = wizard.source]
    /\ OnWizard

\* Step 2 offers every connection but the source.
ChooseTarget(c) ==
    /\ page = "new" /\ wizard.step = 2 /\ c # wizard.source
    /\ wizard' = [wizard EXCEPT !.target = c]
    /\ OnWizard

\* A target that is not chosen yet becomes the first other connection.
NextStep ==
    /\ page = "new"
    /\ \/ /\ wizard.step = 1 /\ wizard.table # None
          /\ \E c \in IF wizard.target = None THEN Conns \ {wizard.source} ELSE {wizard.target} :
                wizard' = [wizard EXCEPT !.step = 2, !.target = c]
       \/ /\ wizard.step = 2 /\ wizard.target # None
          /\ wizard' = [wizard EXCEPT !.step = 3]
    /\ OnWizard

\* The mutation of the wizard on the page is under way.
Launching == \E i \in Jobs : launch[i].visit = visits /\ launch[i].step \in {"sent", "accepted", "refused"}

BackStep ==
    /\ page = "new" /\ wizard.step > 1 /\ ~Launching
    /\ wizard' = [wizard EXCEPT !.step = @ - 1]
    /\ OnWizard

SubmitLaunch(i) ==
    /\ page = "new" /\ wizard.step = 3 /\ ~Launching
    /\ launch[i].step = "none" /\ \A k \in Jobs : k < i => launch[k].step # "none"
    /\ launch' = [launch EXCEPT ![i] = [step |-> "sent", visit |-> visits, source |-> wizard.source,
                                        table |-> wizard.table, target |-> wizard.target]]
    /\ UNCHANGED <<jobVars, page, watched, wizard, streamVars, queryVars, cancel, bounds>>

\* The mutation has ended: all that matters is that the request was made.
Over(i) == launch' = [launch EXCEPT ![i] = [NoLaunch EXCEPT !.step = "over"]]

\* onSuccess leaves for the live page of the job from whatever page the user is
\* on by then: a live page only changes its job and keeps its state.
FinishLaunch(i) ==
    /\ launch[i].step = "accepted"
    /\ Over(i)
    /\ IF page = "live"
       THEN /\ watched' = i /\ Reopen(detail[i]) /\ Ask(i) /\ UNCHANGED <<page, wizard, streamed>>
            /\ mounted' = IF watched = i THEN mounted ELSE 0
       ELSE MountLive(i)
    /\ RefetchList
    /\ UNCHANGED <<jobVars, detail, listed, cancel, bounds>>

FailLaunch(i) ==
    /\ \/ launch[i].step = "refused" /\ UNCHANGED faults
       \/ launch[i].step = "accepted" /\ Fault
    /\ Over(i)
    /\ UNCHANGED <<jobVars, page, watched, wizard, streamVars, queryVars, cancel, visits, taps>>

-----------------------------------------------------------------------------
ConsoleNext ==
    \/ \E i \in Jobs : \/ StartMigration(i) \/ RefuseLaunch(i) \/ SubmitLaunch(i) \/ FinishLaunch(i)
                       \/ FailLaunch(i)
    \/ \E j \in Jobs : \/ Begin(j) \/ Progress(j) \/ Succeed(j) \/ Fail(j) \/ Settle(j) \/ EndJob(j)
                       \/ PollTimer(j) \/ AnswerPoll(j) \/ ReceivePoll(j) \/ GoLive(j) \/ SubmitCancel(j)
    \/ \E c \in Conns : ChooseSource(c) \/ ChooseTarget(c)
    \/ ServeCancel \/ FinishCancel
    \/ ListTimer \/ AnswerList \/ ReceiveList
    \/ Connect \/ RefuseStream \/ Deliver \/ Break \/ Rerender
    \/ GoList \/ GoNew \/ Refresh
    \/ ChooseTable \/ NextStep \/ BackStep

ConsoleSpec == ConsoleInit /\ [][ConsoleNext]_consoleVars

\* The timers of react-query fire and requests are answered; nothing is asked of
\* the user, of the job or of the stream.
Fairness == /\ \A j \in Jobs : WF_consoleVars(PollTimer(j)) /\ WF_consoleVars(AnswerPoll(j)) /\ WF_consoleVars(ReceivePoll(j))
            /\ WF_consoleVars(ListTimer) /\ WF_consoleVars(AnswerList) /\ WF_consoleVars(ReceiveList)

ConsoleFairSpec == ConsoleSpec /\ Fairness

-----------------------------------------------------------------------------
(***************************************************************************)
(* Properties                                                               *)
(***************************************************************************)
\* Every variable has a value of its type: a row has a goroutine, a page that is
\* not live has no stream, and a page knows only jobs the server has.
ConsoleTypeOK ==
    /\ row \in [Jobs -> Statuses \cup {None}]
    /\ worker \in [Jobs -> {None, "created", "begun", "streaming", "succeeded", "failed", "closing", "done"}]
    /\ \A j \in Jobs : (row[j] = None) = (worker[j] = None)
    /\ stopped \subseteq Jobs
    /\ page \in {"list", "new", "live"} /\ watched \in Jobs \cup {0} /\ wizard \in Wizards
    /\ (page = "live") = (watched # 0)
    /\ launch \in [Jobs -> [step: {"none", "sent", "accepted", "refused", "over"},
                            visit: 0..MaxVisits, source: Conns \cup {None}, table: Conns \cup {None},
                            target: Conns \cup {None}]]
    /\ {detail, listed} \subseteq [Jobs -> Statuses \cup {None}]
    /\ \A j \in Jobs : row[j] = None => detail[j] = None /\ listed[j] = None
    /\ poll \in [Jobs -> Statuses \cup {"idle", "sent"}]
    /\ listPoll \in [step: {"idle", "sent", "read"}, rows: [Jobs -> Statuses \cup {None}], loaded: BOOLEAN]
    /\ stream \in {None, "connecting", "open"} /\ (stream # None => page = "live")
    /\ channel \in Seq({"running", "completed", "eof"}) /\ Len(channel) <= MaxEvents + 1
    /\ streamed \in {None, "running", "completed"} /\ mounted \in Jobs \cup {0} /\ rerender \in BOOLEAN
    /\ cancel \in [step: {"none", "sent", "accepted", "refused"}, job: Jobs \cup {0},
                    from: {None, "list", "live"}]
    /\ visits \in 0..MaxVisits /\ taps \in 0..MaxTaps /\ faults \in 0..MaxFaults

\* An end the live page shows is an end the job has had, and it is shown as a
\* success only when the row does not say otherwise: a broken or closed stream is
\* never taken for a finished migration.  (A live page that a late answer of the
\* wizard turns to another job still shows what it last heard of the first: EndIsOwn.)
EndIsReal ==
    page = "live" /\ mounted = watched /\ Shown \in Ended =>
        /\ worker[watched] \in {"succeeded", "failed", "closing", "done"}
        /\ Shown = "completed" => row[watched] \notin {"failed", "cancelled"}

\* An ended job never runs again on the live page, though the stream is ahead of
\* the row and the answers of the poll arrive late.
NoRegress ==
    [][(/\ page = "live" /\ page' = "live" /\ watched' = watched /\ visits' = visits
        /\ mounted = watched /\ Shown \in Ended)
          => Shown' = Shown]_consoleVars

\* A page that knows its job has ended holds no subscription: the hub of an ended
\* job never closes one.
StreamEndsWithJob == page = "live" /\ detail[watched] \in Ended => stream = None

\* The table a job copies is one of its source connection, whatever the user went
\* back to.
TableOfSource == \A i \in Jobs : launch[i].table = launch[i].source

\* What the pages show of a job and hold of its stream is sound in every state.
ConsoleSound == ConsoleTypeOK /\ EndIsReal /\ StreamEndsWithJob /\ TableOfSource

\* The query of the live page ends up with the status of an ended job.
PollCatchesUp ==
    \A j \in Jobs : (page = "live" /\ watched = j /\ row[j] \in Ended)
                        ~> (detail[j] = row[j] \/ page # "live" \/ watched # j)

\* A job the list shows as running does not run on there after its end.
ListCatchesUp ==
    \A j \in Jobs : (page = "list" /\ listed[j] = "running" /\ row[j] \in Ended)
                        ~> (listed[j] = row[j] \/ page # "list")

\* Refuted: the live page ends up showing the end of the job.  A failed or a
\* cancelled end is never broadcast, and streamStatus stays at "running" above
\* the query that knows better.
ShownCatchesUp ==
    \A j \in Jobs : (page = "live" /\ watched = j /\ row[j] \in Ended)
                        ~> (page # "live" \/ watched # j \/ Shown \in Ended)

\* Refuted, with two jobs: the end on a live page is an end of the page's own job.
EndIsOwn == page = "live" /\ Shown \in Ended => worker[watched] \in {"succeeded", "failed", "closing", "done"}

\* Refuted: a stream stays open until the job ends, the page goes or the network
\* fails.  Every render opens another.
StreamMaintained ==
    [][(/\ stream = "open" /\ stream' # "open"
        /\ page' = page /\ visits' = visits /\ faults' = faults)
          => worker[watched] \in {"succeeded", "failed", "closing", "done"}]_consoleVars

\* Refuted: a job never copies a connection onto itself.  The target chosen first
\* stays chosen when the user goes back and makes it the source.
SourceIsNotTarget == \A i \in Jobs : launch[i].step = "sent" => launch[i].source # launch[i].target
=============================================================================
