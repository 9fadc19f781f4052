--------------------------- MODULE ConnectionWizard ---------------------------
(***************************************************************************)
(* The wizard that adds a database connection: three steps over one form,   *)
(* the connection string that fills it, the diagnostic of the last step,    *)
(* and the request that saves, against what the server validates.           *)
(*                                                                          *)
(* The state of the wizard outlives its dialog: useConnectionWizard keeps   *)
(* the engine, the form and the mutation in a component that stays mounted. *)
(* A field holds a class of values: whether an endpoint names a database,   *)
(* whose preset the port is, which kind of connection string was given.     *)
(* The name and an emptied port field are not modelled.                     *)
(*                                                                          *)
(* A definition whose name ends in "_" and a word is not part of the        *)
(* specification: it is the definition after it with a bug a programmer     *)
(* could have made, and the properties must tell the two apart.             *)
(***************************************************************************)
EXTENDS Naturals, FiniteSets

CONSTANTS MaxSaves,     \* bound on requests that save
          MaxOpenings,  \* bound on openings of the dialog
          MaxLost       \* bound on lost answers

ASSUME WizardAssumption == {MaxSaves, MaxOpenings, MaxLost} \subseteq Nat

VARIABLES open, step,
          engine,    \* selectedEngine
          form,      \* react-hook-form's values
          ping,      \* the diagnostic button of step 3
          pending,   \* the save the dialog waits for, or 0
          failed,    \* the error of the last save is shown
          save,      \* every request to save
          openings, lost

vars == <<open, step, engine, form, ping, pending, failed, save, openings, lost>>

Engines == {"postgres", "mysql", "mongodb", "sqlite"}
Relational == {"postgres", "mysql"}

\* A connection string of MongoDB: one of Atlas names no database.
Uris == {"atlas", "local"}
NoUri == "none"

\* A port is an engine's preset or the user's own.  An endpoint is a host, with
\* or without a database.
Form == [db_type: Engines, port: Engines \cup {"own"}, host: {"none", "host", "full"},
         login: BOOLEAN, file: BOOLEAN, uri: Uris \cup {NoUri}]

\* The defaultValues.
Blank == [db_type |-> "postgres", port |-> "postgres", host |-> "none",
          login |-> FALSE, file |-> FALSE, uri |-> NoUri]

\* What a request asks the server to reach.
Target == [engine: Engines, port: Engines \cup {"own", "none"}, host: {"none", "host", "full"},
           login: BOOLEAN, file: BOOLEAN, uri: Uris \cup {NoUri}]
NoTarget == [engine |-> "sqlite", port |-> "none", host |-> "none", login |-> FALSE, file |-> FALSE, uri |-> NoUri]

Saves == 1..MaxSaves
Untested == [step |-> "idle", of |-> NoTarget]
Unsent == [step |-> "none", of |-> NoTarget, opening |-> 0, row |-> FALSE]

Init == /\ open = FALSE /\ step = 1
        /\ engine = "postgres" /\ form = Blank
        /\ ping = Untested
        /\ pending = 0 /\ failed = FALSE
        /\ save = [i \in Saves |-> Unsent]
        /\ openings = 0 /\ lost = 0

-----------------------------------------------------------------------------
(***************************************************************************)
(* The form                                                                 *)
(***************************************************************************)
\* The effect of a change of selectedEngine, which runs after the handler that
\* made the change: db_type and the presets of the engine.
Preset(f, e) == [f EXCEPT !.db_type = e, !.port = IF e = "sqlite" THEN @ ELSE e,
                          !.file = @ \/ e = "sqlite"]
AfterEngine(f, e) == IF e = engine THEN f ELSE Preset(f, e)

Editable == open /\ pending = 0
FormOnly == UNCHANGED <<open, ping, pending, failed, save, openings, lost>>

SelectEngine(e) ==
    /\ Editable /\ step = 1
    /\ engine' = e
    /\ form' = AfterEngine(form, e)
    /\ UNCHANGED step /\ FormOnly

Endpoint(h, l, p) == [form EXCEPT !.host = h, !.login = l, !.port = p]

\* RelationalForm.
TypeEndpoint(h, l, p) ==
    /\ Editable /\ step = 2 /\ engine \in Relational
    /\ form' = Endpoint(h, l, p)
    /\ UNCHANGED <<step, engine>> /\ FormOnly

\* The fields of MongoForm below its connection string.
TypeFields(h, l, p) ==
    /\ Editable /\ step = 2 /\ engine = "mongodb"
    /\ form' = Endpoint(h, l, p)
    /\ UNCHANGED <<step, engine>> /\ FormOnly

\* SqliteForm.
TypeFile(b) ==
    /\ Editable /\ step = 2 /\ engine = "sqlite"
    /\ form' = [form EXCEPT !.file = b]
    /\ UNCHANGED <<step, engine>> /\ FormOnly

\* handleAutoFillFromUri: an Atlas string has neither port nor database.
FilledFrom(f, u) ==
    IF u = "atlas" THEN [f EXCEPT !.uri = u, !.login = TRUE, !.host = IF @ = "full" THEN "full" ELSE "host"]
    ELSE [f EXCEPT !.uri = u, !.login = TRUE, !.host = "full", !.port = "mongodb"]

\* MongoForm's connection string, which fills the other fields as it is typed.
TypeUri(u) ==
    /\ Editable /\ step = 2 /\ engine = "mongodb"
    /\ form' = IF u = NoUri THEN [form EXCEPT !.uri = NoUri] ELSE FilledFrom(form, u)
    /\ UNCHANGED <<step, engine>> /\ FormOnly

\* handleApplyConnectionString, from the bar that the relational engines have;
\* the string may be one of any engine, with a port of its own.
PasteRelational(e) ==
    /\ Editable /\ step = 2 /\ engine \in Relational
    /\ engine' = e
    /\ form' = AfterEngine([form EXCEPT !.host = "full", !.login = TRUE, !.port = "own"], e)
    /\ UNCHANGED step /\ FormOnly

PasteMongo(u) ==
    /\ Editable /\ step = 2 /\ engine \in Relational
    /\ engine' = "mongodb"
    /\ form' = AfterEngine(FilledFrom(form, u), "mongodb")
    /\ UNCHANGED step /\ FormOnly

\* databaseConnectionSchema, which goes by the form's db_type.
Complete(f) == IF f.db_type = "sqlite" THEN f.file
               ELSE f.host = "full" \/ (f.db_type = "mongodb" /\ f.uri # NoUri)

\* handleNextFromStep2 asks for the errors of the fields of the engine: the
\* schema reports what is missing at "host", which neither a file nor a
\* connection string has among its fields.
PassesStepTwo == engine = "sqlite" \/ (engine = "mongodb" /\ form.uri # NoUri) \/ Complete(form)

Next1 == /\ Editable /\ step = 1
         /\ step' = 2
         /\ UNCHANGED <<engine, form>> /\ FormOnly

Next2 == /\ Editable /\ step = 2 /\ PassesStepTwo
         /\ step' = 3
         /\ UNCHANGED <<engine, form>> /\ FormOnly

\* Step 3 goes, and the state of its diagnostic button with it.
Back_KeepPing ==
    /\ Editable /\ step > 1
    /\ step' = step - 1
    /\ UNCHANGED <<open, engine, form, ping, pending, failed, save, openings, lost>>

Back_Below ==
    /\ Editable
    /\ step' = step - 1
    /\ ping' = Untested
    /\ UNCHANGED <<open, engine, form, pending, failed, save, openings, lost>>

Back == /\ Editable /\ step > 1
        /\ step' = step - 1
        /\ ping' = Untested
        /\ UNCHANGED <<open, engine, form, pending, failed, save, openings, lost>>

-----------------------------------------------------------------------------
(***************************************************************************)
(* The diagnostic and the request that saves                                *)
(***************************************************************************)
\* getTestPayload goes by selectedEngine: a file, or a connection string with the
\* name of a database, or the fields.
TestPayload(f) ==
    IF engine = "sqlite" THEN [NoTarget EXCEPT !.file = f.file]
    ELSE IF engine = "mongodb" /\ f.uri # NoUri
    THEN [NoTarget EXCEPT !.engine = engine, !.uri = f.uri, !.host = IF f.host = "full" THEN "full" ELSE "none"]
    ELSE [NoTarget EXCEPT !.engine = engine, !.host = f.host, !.login = f.login, !.port = f.port]

\* onSubmit starts from the whole form and deletes: for SQLite all but the file,
\* for MongoDB what a connection string stands for, for the relational engines
\* nothing, not even the string that was typed for another engine.
SavePayload(f) ==
    IF engine \in Relational THEN [TestPayload(f) EXCEPT !.uri = f.uri] ELSE TestPayload(f)

\* The validate tags of CreateConnectionRequest and TestConnectionRequest: a
\* host, a port and a login whatever the connection string says.  A request of
\* the wizard has none of them where it has MongoDB's string.
Accepted(t) == IF t.engine = "sqlite" THEN t.file ELSE t.host = "full" /\ t.login

\* handleTest.
SendTest ==
    /\ open /\ step = 3 /\ ping.step # "testing"
    /\ ping' = [step |-> "testing", of |-> TestPayload(form)]
    /\ UNCHANGED <<open, step, engine, form, pending, failed, save, openings, lost>>

\* The database answers or does not; a request that is not accepted fails.
AnswerTest ==
    /\ ping.step = "testing"
    /\ \/ Accepted(ping.of) /\ ping' = [ping EXCEPT !.step = "verified"]
       \/ ping' = [ping EXCEPT !.step = "unreachable"]
    /\ UNCHANGED <<open, step, engine, form, pending, failed, save, openings, lost>>

\* handleFormSubmit: where the schema has an error nothing is sent.
SaveOpen_Always == open /\ step = 3
SaveOpen == open /\ step = 3 /\ pending = 0

Submit(i) ==
    /\ SaveOpen /\ Complete(form)
    /\ save[i] = Unsent /\ \A j \in 1..(i - 1) : save[j] # Unsent
    /\ save' = [save EXCEPT ![i] = [step |-> "sent", of |-> SavePayload(form), opening |-> openings, row |-> FALSE]]
    /\ pending' = i /\ failed' = FALSE
    /\ UNCHANGED <<open, step, engine, form, ping, openings, lost>>

\* CreateConnection: the validation, then the role, the project and the quota,
\* which may all refuse, then the row.  What was asked for is of no more use.
Answered(i, how) == save' = [save EXCEPT ![i].step = how, ![i].of = NoTarget, ![i].row = @ \/ how = "ok"]

Serve(i) ==
    /\ save[i].step = "sent"
    /\ \/ Accepted(save[i].of) /\ Answered(i, "ok")
       \/ Answered(i, "refused")
    /\ UNCHANGED <<open, step, engine, form, ping, pending, failed, openings, lost>>

\* The answer that the row was made is lost: an error like any other.
LoseAnswer(i) ==
    /\ lost < MaxLost /\ save[i].step = "ok"
    /\ lost' = lost + 1
    /\ Answered(i, "refused")
    /\ UNCHANGED <<open, step, engine, form, ping, pending, failed, openings>>

-----------------------------------------------------------------------------
(***************************************************************************)
(* The dialog                                                               *)
(***************************************************************************)
\* handleDialogChange(true).
Open == /\ ~open /\ openings < MaxOpenings
        /\ open' = TRUE /\ openings' = openings + 1
        /\ UNCHANGED <<step, engine, form, ping, pending, failed, save, lost>>

\* handleDialogChange(false): everything but the engine.  The mutation is
\* forgotten and not cancelled.
Closed_KeepForm == /\ open' = FALSE /\ step' = 1
                   /\ ping' = Untested
                   /\ pending' = 0 /\ failed' = FALSE
                   /\ UNCHANGED form

Closed == /\ open' = FALSE /\ step' = 1
          /\ form' = Blank
          /\ ping' = Untested
          /\ pending' = 0 /\ failed' = FALSE

\* Cancel is disabled while a save is under way, Escape and a click outside are not.
Close == /\ open /\ Closed
         /\ UNCHANGED <<engine, save, openings, lost>>

Done(i) == save' = [save EXCEPT ![i].step = "done"]

\* createMutation's onSuccess, of a save the dialog waits for or of an earlier one.
FinishSaved(i) ==
    /\ save[i].step = "ok" /\ Done(i)
    /\ Closed
    /\ UNCHANGED <<engine, openings, lost>>

FinishRefused_Stuck(i) ==
    /\ save[i].step = "refused" /\ Done(i)
    /\ failed' = (failed \/ pending = i)
    /\ UNCHANGED <<open, step, engine, form, ping, pending, openings, lost>>

FinishRefused(i) ==
    /\ save[i].step = "refused" /\ Done(i)
    /\ IF pending = i THEN pending' = 0 /\ failed' = TRUE ELSE UNCHANGED <<pending, failed>>
    /\ UNCHANGED <<open, step, engine, form, ping, openings, lost>>

-----------------------------------------------------------------------------
Answers(i) == Serve(i) \/ FinishSaved(i) \/ FinishRefused(i)

Next == \/ \E e \in Engines : SelectEngine(e)
        \/ \E h \in {"none", "host", "full"}, l \in BOOLEAN, p \in {form.port, "own"} :
               TypeEndpoint(h, l, p) \/ TypeFields(h, l, p)
        \/ \E b \in BOOLEAN : TypeFile(b)
        \/ \E u \in Uris \cup {NoUri} : TypeUri(u)
        \/ \E e \in Relational : PasteRelational(e)
        \/ \E u \in Uris : PasteMongo(u)
        \/ Next1 \/ Next2 \/ Back \/ SendTest \/ AnswerTest \/ Open \/ Close
        \/ \E i \in Saves : Submit(i) \/ Answers(i) \/ LoseAnswer(i)

Spec == Init /\ [][Next]_vars

\* Requests are answered and answers are handled.
FairSpec == Spec /\ \A i \in Saves : WF_vars(Answers(i))

-----------------------------------------------------------------------------
TypeOK == /\ open \in BOOLEAN /\ step \in 1..3
          /\ engine \in Engines /\ form \in Form
          /\ ping \in [step : {"idle", "testing", "verified", "unreachable"}, of : Target]
          /\ pending \in 0..MaxSaves /\ failed \in BOOLEAN
          /\ save \in [Saves -> [step : {"none", "sent", "ok", "refused", "done"}, of : Target,
                                 opening : 0..MaxOpenings, row : BOOLEAN]]
          /\ openings \in 0..MaxOpenings /\ lost \in 0..MaxLost

\* What the last step shows as verified, or is still testing, is what saving
\* sends, but for a connection string typed under MongoDB, which the relational
\* engines save and do not test: neither going back to change a field nor closing
\* the dialog leaves a result, or an answer to come, for other values.
VerifiedIsSaved ==
    ping.step # "idle" =>
        /\ open /\ step = 3
        /\ ping.of = IF engine \in Relational THEN [SavePayload(form) EXCEPT !.uri = NoUri] ELSE SavePayload(form)

\* An opening of the dialog makes one connection at most, unless an answer that
\* said so was lost and the user tried again: a save under way disables the
\* next, also where the dialog was closed over it and opened again.
OneRowPerOpening ==
    lost = 0 => \A i, j \in Saves : i # j /\ save[i].row /\ save[j].row => save[i].opening # save[j].opening

\* A closed dialog keeps no host, login or connection string, whichever of its
\* four ways it was closed in, and no stale error.
CredentialsDropped == ~open => form = Blank /\ pending = 0 /\ ~failed

\* What the dialog keeps, shows and has saved is sound in every state.
WizardSound == TypeOK /\ VerifiedIsSaved /\ OneRowPerOpening /\ CredentialsDropped

\* The wizard does not stay disabled: a save is answered, whether the row was
\* made, refused, or the answer lost.
SaveSettles == pending # 0 ~> pending = 0

\* Refuted: that what the schema takes for complete the server does not refuse
\* for a missing field.  The wizard leaves out host, port and login where there
\* is a connection string, the server requires them of every engine but SQLite.
UriSuffices == \A i \in Saves : save[i].step = "sent" => Accepted(save[i].of)

\* Refuted: that what was verified is what is saved.  A connection string typed
\* under MongoDB stays in the form when the engine changes; the test of a
\* relational engine leaves it out, the save sends it, and the adapters then
\* connect by it alone.
TestedIsSaved == ping.step = "verified" => ping.of = SavePayload(form)

\* Refuted: that db_type and selectedEngine are the same.  Closing the dialog
\* resets one and not the other, and the effect that synchronizes them runs
\* when the engine changes.
EngineSynchronized == form.db_type = engine

\* Refuted: that the dialog is closed by the user or by the answer it waits for.
OwnAnswerCloses ==
    [][\A i \in Saves : open /\ ~open' /\ save[i].step = "ok" /\ save'[i].step = "done" => pending = i]_vars

\* Refuted: that a connection string keeps its port when it changes the engine.
PasteKeepsPort ==
    [][(engine \in Relational /\ engine' \in Relational /\ step = 2 /\ engine' # engine) => form'.port = "own"]_vars
=============================================================================
