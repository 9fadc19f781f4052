------------------------------ MODULE ProgressHub ------------------------------
(***************************************************************************)
(* The in-memory fan-out of one job's progress: ProgressHub, the SSE        *)
(* handlers that subscribe to it, and the job's goroutine that broadcasts   *)
(* and closes.  Jobs share nothing in the hub but its mutex, under which    *)
(* every method runs to its end, so one job is enough and each method is a  *)
(* step.                                                                    *)
(*                                                                          *)
(* A definition whose name ends in "_" and a word is not part of the        *)
(* specification: it is the definition after it with a bug a programmer     *)
(* could have made, and the properties must tell the two apart.             *)
(***************************************************************************)
EXTENDS Naturals, Sequences, FiniteSets

CONSTANTS Clients,      \* SSE connections to the job's progress endpoint
          ChanCap,      \* capacity of a subscriber's channel, 20 in Subscribe
          MaxProgress   \* bound on the running events of the job

ASSUME HubAssumption == ChanCap \in Nat \ {0} /\ MaxProgress \in Nat

VARIABLES job,          \* the goroutine: not begun, broadcasting, finished, hub closed
          succeeded,    \* Completed was broadcast
          published,    \* the events broadcast so far
          subscribers,  \* h.subscribers[jobID]
          channel,      \* the buffer of each client's channel
          chanState,    \* not made, open or closed
          handler,      \* step of each client's StreamProgress
          event,        \* the event its loop holds, at most one
          connected,    \* clients still there to read
          delivered,    \* events that reached the client, in order
          panicked,     \* a send on, or a close of, a closed channel
          joinedAt,     \* history: events broadcast before the client subscribed
          dropped       \* history: clients an event was dropped for

hubVars == <<subscribers, channel, chanState, panicked, dropped>>
jobVars == <<job, succeeded, published>>
handlerVars == <<handler, event, connected, delivered, joinedAt>>
allVars == <<hubVars, jobVars, handlerVars>>

Running == "running"
Completed == "completed"
TerminalStates == {"completed", "failed", "cancelled"}

HubInit == /\ job = "idle"
           /\ succeeded = FALSE
           /\ published = <<>>
           /\ subscribers = {}
           /\ channel = [c \in Clients |-> <<>>]
           /\ chanState = [c \in Clients |-> "none"]
           /\ handler = [c \in Clients |-> "idle"]
           /\ event = [c \in Clients |-> <<>>]
           /\ connected = Clients
           /\ delivered = [c \in Clients |-> <<>>]
           /\ panicked = FALSE
           /\ joinedAt = [c \in Clients |-> 0]
           /\ dropped = {}

-----------------------------------------------------------------------------
(***************************************************************************)
(* ProgressHub                                                              *)
(***************************************************************************)

Subscribe(c) ==
    /\ chanState' = [chanState EXCEPT ![c] = "open"]
    /\ subscribers' = subscribers \cup {c}
    /\ UNCHANGED <<channel, panicked, dropped>>

\* Closes the channel without looking whether the hub still has it.
Unsubscribe_Always(c) ==
    /\ subscribers' = subscribers \ {c}
    /\ chanState' = [chanState EXCEPT ![c] = "closed"]
    /\ panicked' = (panicked \/ chanState[c] = "closed")
    /\ UNCHANGED <<channel, dropped>>

\* Takes the channel off the list and closes it, if Close has not done so before.
Unsubscribe(c) ==
    /\ subscribers' = subscribers \ {c}
    /\ chanState' = IF c \in subscribers THEN [chanState EXCEPT ![c] = "closed"] ELSE chanState
    /\ panicked' = (panicked \/ (c \in subscribers /\ chanState[c] = "closed"))
    /\ UNCHANGED <<channel, dropped>>

\* The channels have no bound.
Broadcast_NoBound(e) ==
    /\ published' = Append(published, e)
    /\ channel' = [c \in Clients |-> IF c \in subscribers THEN Append(channel[c], e) ELSE channel[c]]
    /\ panicked' = (panicked \/ \E c \in subscribers : chanState[c] = "closed")
    /\ UNCHANGED <<subscribers, chanState, dropped>>

\* The first full channel ends the loop over the subscribers.
Broadcast_Break(e) ==
    LET full == {c \in subscribers : Len(channel[c]) >= ChanCap}
    IN /\ published' = Append(published, e)
       /\ channel' = [c \in Clients |-> IF c \in subscribers /\ full = {} THEN Append(channel[c], e)
                                        ELSE channel[c]]
       /\ dropped' = dropped \cup full
       /\ panicked' = (panicked \/ \E c \in subscribers : chanState[c] = "closed")
       /\ UNCHANGED <<subscribers, chanState>>

\* A non-blocking send to every subscriber: a full channel loses the event.
Broadcast(e) ==
    LET full == {c \in subscribers : Len(channel[c]) >= ChanCap}
    IN /\ published' = Append(published, e)
       /\ channel' = [c \in Clients |-> IF c \in subscribers \ full THEN Append(channel[c], e)
                                        ELSE channel[c]]
       /\ dropped' = dropped \cup full
       /\ panicked' = (panicked \/ \E c \in subscribers : chanState[c] = "closed")
       /\ UNCHANGED <<subscribers, chanState>>

\* The closed channels stay on the list.
Close_Keep ==
    /\ chanState' = [c \in Clients |-> IF c \in subscribers THEN "closed" ELSE chanState[c]]
    /\ panicked' = (panicked \/ \E c \in subscribers : chanState[c] = "closed")
    /\ UNCHANGED <<subscribers, channel, dropped>>

Close ==
    /\ chanState' = [c \in Clients |-> IF c \in subscribers THEN "closed" ELSE chanState[c]]
    /\ panicked' = (panicked \/ \E c \in subscribers : chanState[c] = "closed")
    /\ subscribers' = {}
    /\ UNCHANGED <<channel, dropped>>

-----------------------------------------------------------------------------
(***************************************************************************)
(* The job's goroutine                                                      *)
(***************************************************************************)

\* The start event, then one event per batch.
Progress ==
    /\ job \in {"idle", "broadcasting"}
    /\ Len(published) < MaxProgress
    /\ job' = "broadcasting"
    /\ Broadcast(Running)
    /\ UNCHANGED <<succeeded, handlerVars>>

\* The row channel is closed: the Completed event of Stream.
Succeed ==
    /\ job = "broadcasting"
    /\ job' = "finished"
    /\ succeeded' = TRUE
    /\ Broadcast(Completed)
    /\ UNCHANGED handlerVars

\* An error or a cancellation: nothing is broadcast.
Fail ==
    /\ job = "broadcasting"
    /\ job' = "finished"
    /\ UNCHANGED <<succeeded, published, hubVars, handlerVars>>

\* The goroutine ends without hub.Close.
EndJob_Skip ==
    /\ job = "finished"
    /\ job' = "closed"
    /\ UNCHANGED <<succeeded, published, hubVars, handlerVars>>

\* The deferred hub.Close.
EndJob ==
    /\ job = "finished"
    /\ job' = "closed"
    /\ Close
    /\ UNCHANGED <<succeeded, published, handlerVars>>

-----------------------------------------------------------------------------
(***************************************************************************)
(* StreamProgress                                                           *)
(***************************************************************************)

\* Subscribes whatever the job's state; the keepalive's Flush is not checked.
Connect(c) ==
    /\ handler[c] = "idle"
    /\ Subscribe(c)
    /\ joinedAt' = [joinedAt EXCEPT ![c] = Len(published)]
    /\ handler' = [handler EXCEPT ![c] = "waiting"]
    /\ UNCHANGED <<jobVars, event, connected, delivered>>

Receive(c) ==
    /\ handler[c] = "waiting"
    /\ \/ /\ channel[c] # <<>>
          /\ event' = [event EXCEPT ![c] = <<Head(channel[c])>>]
          /\ channel' = [channel EXCEPT ![c] = Tail(@)]
          /\ handler' = [handler EXCEPT ![c] = "flushing"]
       \/ /\ channel[c] = <<>> /\ chanState[c] = "closed"
          /\ handler' = [handler EXCEPT ![c] = "leaving"]
          /\ UNCHANGED <<event, channel>>
    /\ UNCHANGED <<subscribers, chanState, panicked, dropped, jobVars, connected, delivered, joinedAt>>

\* Write and Flush: a client that is gone gives an error, or none while the
\* connection still takes bytes.  A terminal event ends the loop.
Flush(c) ==
    /\ handler[c] = "flushing"
    /\ \/ /\ IF c \in connected
             THEN delivered' = [delivered EXCEPT ![c] = Append(@, event[c][1])]
             ELSE UNCHANGED delivered
          /\ handler' = [handler EXCEPT ![c] = IF event[c][1] \in TerminalStates THEN "leaving" ELSE "waiting"]
       \/ /\ c \notin connected
          /\ handler' = [handler EXCEPT ![c] = "leaving"]
          /\ UNCHANGED delivered
    /\ event' = [event EXCEPT ![c] = <<>>]
    /\ UNCHANGED <<hubVars, jobVars, connected, joinedAt>>

\* The deferred Unsubscribe.
Leave(c) ==
    /\ handler[c] = "leaving"
    /\ Unsubscribe(c)
    /\ handler' = [handler EXCEPT ![c] = "gone"]
    /\ UNCHANGED <<jobVars, event, connected, delivered, joinedAt>>

Disconnect(c) ==
    /\ c \in connected /\ handler[c] # "idle"
    /\ connected' = connected \ {c}
    /\ UNCHANGED <<hubVars, jobVars, handler, event, delivered, joinedAt>>

JobStep == Progress \/ Succeed \/ Fail \/ EndJob
StreamStep(c) == Receive(c) \/ Flush(c) \/ Leave(c)

HubNext == \/ JobStep
           \/ \E c \in Clients : Connect(c) \/ StreamStep(c) \/ Disconnect(c)

HubSpec == HubInit /\ [][HubNext]_allVars

\* The job goes on to its end and the handlers are scheduled; nobody has to
\* connect or to disconnect.
HubFairSpec == HubSpec /\ WF_allVars(JobStep) /\ \A c \in Clients : WF_allVars(StreamStep(c))

-----------------------------------------------------------------------------
(***************************************************************************)
(* Properties                                                               *)
(***************************************************************************)

Events == {Running, Completed}

\* Every variable has its type and no channel holds more than its capacity.
HubTypeOK == /\ job \in {"idle", "broadcasting", "finished", "closed"}
             /\ succeeded \in BOOLEAN
             /\ published \in Seq(Events)
             /\ subscribers \in SUBSET Clients
             /\ channel \in [Clients -> Seq(Events)]
             /\ \A c \in Clients : Len(channel[c]) <= ChanCap
             /\ chanState \in [Clients -> {"none", "open", "closed"}]
             /\ handler \in [Clients -> {"idle", "waiting", "flushing", "leaving", "gone"}]
             /\ event \in [Clients -> Seq(Events)]
             /\ connected \in SUBSET Clients
             /\ delivered \in [Clients -> Seq(Events)]
             /\ panicked \in BOOLEAN
             /\ joinedAt \in [Clients -> Nat]
             /\ dropped \in SUBSET Clients

\* No send on a closed channel and no channel closed twice, however Close, Broadcast
\* and the handlers' Unsubscribe meet.  Either would bring the server down.
NoPanic == ~panicked

\* A handler that has ended has left nothing behind in the hub, and a channel is
\* open exactly as long as the hub knows it.
SubscribersExact ==
    \A c \in Clients : /\ c \in subscribers <=> chanState[c] = "open"
                       /\ handler[c] = "gone" => c \notin subscribers

\* A client whose channel was never full gets every event from its
\* subscription on, in order: nothing is lost between channel, loop and connection.
NothingLostUnlessFull ==
    \A c \in Clients : c \in connected \ dropped /\ c \in subscribers =>
        delivered[c] \o event[c] \o channel[c] = SubSeq(published, joinedAt[c] + 1, Len(published))

\* Who was subscribed before the job closed the hub is let go in the end.
SubscribersLetGo ==
    \A c \in Clients : c \in subscribers /\ job # "closed" ~> handler[c] = "gone"

(***************************************************************************)
(* What the repository's documents say and the code does not do             *)
(***************************************************************************)

\* Docs/testing/Phase_5_Migration_Engine.md:53: "Stream closes automatically".  Every
\* progress stream that was opened ends once the job has ended.
StreamsEnd == \A c \in Clients : handler[c] = "waiting" /\ job = "closed" ~> handler[c] = "gone"
=============================================================================
