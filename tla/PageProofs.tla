------------------------------ MODULE PageProofs -------------------------------
(***************************************************************************)
(* Proofs about ConnectionWizard and about MigrationConsole, whatever the   *)
(* bounds: two components that share nothing, in two parts.                 *)
(*                                                                          *)
(* WizardInv strengthens WizardSound by what the saves of an opening are.   *)
(*                                                                          *)
(* ConsoleInv strengthens ConsoleSound by what makes the two sources of the *)
(* live page agree: an ended row has an ended goroutine (JobsKnown), what   *)
(* the query and its fetch say of an end is what the row says (EndsRead),   *)
(* and after the completed event only the end of the stream comes, for a    *)
(* job whose row will not say otherwise (StreamOfJob, Won).                 *)
(***************************************************************************)
EXTENDS ConnectionWizard, MigrationConsole, TLAPS

-----------------------------------------------------------------------------
(***************************************************************************)
(* The connection wizard                                                    *)
(***************************************************************************)
\* A save that has made a row, or may still make one.
Live(i) == save[i].step \in {"sent", "ok"} \/ save[i].row

\* Of the saves of one opening one is live at most, and while the dialog is open
\* that is the one it waits for.  Where no answer was lost a refused save has made
\* no row.
SaveDiscipline ==
    /\ \A i \in Saves : save[i].opening <= openings
    /\ \A i \in Saves : save[i].step \in {"none", "sent"} => ~save[i].row
    /\ lost = 0 => /\ \A i \in Saves : save[i].step = "refused" => ~save[i].row
                   /\ \A i \in Saves : open /\ Live(i) /\ save[i].opening = openings => pending = i
                   /\ \A i, j \in Saves : i # j /\ Live(i) /\ Live(j) => save[i].opening # save[j].opening

WizardInv == TypeOK /\ VerifiedIsSaved /\ CredentialsDropped /\ SaveDiscipline

\* The steps that change the form or move between the steps of the wizard.
FormStep == \/ \E e \in Engines : SelectEngine(e)
            \/ \E h \in {"none", "host", "full"}, l \in BOOLEAN, p \in {form.port, "own"} :
                   TypeEndpoint(h, l, p) \/ TypeFields(h, l, p)
            \/ \E b \in BOOLEAN : TypeFile(b)
            \/ \E u \in Uris \cup {NoUri} : TypeUri(u)
            \/ \E e \in Relational : PasteRelational(e)
            \/ \E u \in Uris : PasteMongo(u)
            \/ Next1 \/ Next2

\* What is sent has the form of a target.
LEMMA TestPayloadType == TypeOK => TestPayload(form) \in Target
<1> SUFFICES ASSUME TypeOK PROVE TestPayload(form) \in Target
  OBVIOUS
<1> USE DEF Target, NoTarget, Engines, Uris, NoUri, Form
<1>0. form \in Form /\ engine \in Engines
  BY DEF TypeOK
<1>1. CASE engine = "sqlite"
  BY <1>0, <1>1 DEF TestPayload
<1>2. CASE engine = "mongodb" /\ form.uri # NoUri
  <2>1. (IF form.host = "full" THEN "full" ELSE "none") \in {"none", "host", "full"}
    OBVIOUS
  <2> QED
    BY <1>0, <1>2, <2>1 DEF TestPayload
<1>3. CASE engine # "sqlite" /\ ~(engine = "mongodb" /\ form.uri # NoUri)
  BY <1>0, <1>3 DEF TestPayload
<1> QED
  BY <1>1, <1>2, <1>3

\* A save of a relational engine sends what was tested, and its connection string.
LEMMA PayloadType ==
  TypeOK => /\ TestPayload(form) \in Target /\ SavePayload(form) \in Target
            /\ engine \in Relational => [SavePayload(form) EXCEPT !.uri = NoUri] = TestPayload(form)
            /\ engine \notin Relational => SavePayload(form) = TestPayload(form)
<1> SUFFICES ASSUME TypeOK
             PROVE  /\ TestPayload(form) \in Target /\ SavePayload(form) \in Target
                    /\ engine \in Relational => [SavePayload(form) EXCEPT !.uri = NoUri] = TestPayload(form)
                    /\ engine \notin Relational => SavePayload(form) = TestPayload(form)
  OBVIOUS
<1>1. TestPayload(form) \in Target /\ form.uri \in Uris \cup {NoUri}
  BY TestPayloadType DEF TypeOK, Form
<1>2. ASSUME engine \in Relational PROVE TestPayload(form).uri = NoUri
  BY <1>2 DEF TestPayload, Relational, NoTarget
<1>3. ASSUME NEW t \in Target, NEW u \in Uris \cup {NoUri}
      PROVE  [t EXCEPT !.uri = u] \in Target /\ (t.uri = NoUri => [[t EXCEPT !.uri = u] EXCEPT !.uri = NoUri] = t)
  BY <1>3 DEF Target
<1>4. CASE engine \in Relational
  <2> DEFINE t == TestPayload(form)
  <2>1. SavePayload(form) = [t EXCEPT !.uri = form.uri]
    BY <1>4 DEF SavePayload
  <2>2. t \in Target /\ t.uri = NoUri /\ form.uri \in Uris \cup {NoUri}
    BY <1>1, <1>2, <1>4
  <2> HIDE DEF t
  <2>3. [t EXCEPT !.uri = form.uri] \in Target /\ [[t EXCEPT !.uri = form.uri] EXCEPT !.uri = NoUri] = t
    BY <2>2 DEF Target
  <2>4. t \in Target /\ SavePayload(form) \in Target /\ [SavePayload(form) EXCEPT !.uri = NoUri] = t
    BY <2>1, <2>2, <2>3
  <2> QED
    BY <1>4, <2>4 DEF t
<1>5. CASE engine \notin Relational
  BY <1>1, <1>5 DEF SavePayload
<1> QED
  BY <1>4, <1>5

\* Every way to fill the form keeps it a form.
LEMMA FormType == TypeOK /\ FormStep => form' \in Form /\ engine' \in Engines /\ step' \in 1..3
<1> SUFFICES ASSUME TypeOK, FormStep PROVE form' \in Form /\ engine' \in Engines /\ step' \in 1..3
  OBVIOUS
<1>0. form \in Form /\ engine \in Engines /\ step \in 1..3
  BY DEF TypeOK
<1> USE DEF Form, Engines, Relational, Uris, NoUri
<1>1. ASSUME NEW f \in Form, NEW e \in Engines PROVE AfterEngine(f, e) \in Form
  <2>1. Preset(f, e) \in Form
    BY <1>1 DEF Preset
  <2> QED
    BY <1>1, <2>1 DEF AfterEngine
<1>2. ASSUME NEW u \in Uris PROVE FilledFrom(form, u) \in Form
  BY <1>0, <1>2 DEF FilledFrom
<1>3. ASSUME NEW e \in Engines, SelectEngine(e) PROVE form' \in Form /\ engine' \in Engines /\ step' \in 1..3
  BY <1>0, <1>1, <1>3 DEF SelectEngine
<1>4. ASSUME NEW h \in {"none", "host", "full"}, NEW l \in BOOLEAN, NEW p \in {form.port, "own"},
             TypeEndpoint(h, l, p) \/ TypeFields(h, l, p)
      PROVE form' \in Form /\ engine' \in Engines /\ step' \in 1..3
  BY <1>0, <1>4 DEF TypeEndpoint, TypeFields, Endpoint
<1>5. ASSUME NEW b \in BOOLEAN, TypeFile(b) PROVE form' \in Form /\ engine' \in Engines /\ step' \in 1..3
  BY <1>0, <1>5 DEF TypeFile
<1>6. ASSUME NEW u \in Uris \cup {NoUri}, TypeUri(u) PROVE form' \in Form /\ engine' \in Engines /\ step' \in 1..3
  BY <1>0, <1>2, <1>6 DEF TypeUri
<1>7. ASSUME NEW e \in Relational, PasteRelational(e) PROVE form' \in Form /\ engine' \in Engines /\ step' \in 1..3
  <2> DEFINE f == [form EXCEPT !.host = "full", !.login = TRUE, !.port = "own"]
  <2>1. f \in Form /\ e \in Engines
    BY <1>0
  <2>2. form' = AfterEngine(f, e) /\ engine' = e /\ step' = step
    BY <1>7 DEF PasteRelational
  <2> HIDE DEF f
  <2>3. AfterEngine(f, e) \in Form
    BY <1>1, <2>1
  <2> QED
    BY <1>0, <2>1, <2>2, <2>3
<1>8. ASSUME NEW u \in Uris, PasteMongo(u) PROVE form' \in Form /\ engine' \in Engines /\ step' \in 1..3
  BY <1>0, <1>1, <1>2, <1>8 DEF PasteMongo
<1>9. CASE Next1 \/ Next2
  BY <1>0, <1>9 DEF Next1, Next2
<1> QED
  BY <1>3, <1>4, <1>5, <1>6, <1>7, <1>8, <1>9 DEF FormStep

\* The form is only edited where no diagnostic result is on the screen.
LEMMA FormStepInv == WizardInv /\ FormStep => WizardInv'
<1> SUFFICES ASSUME WizardInv, FormStep PROVE WizardInv'
  OBVIOUS
<1>1. open /\ step \in {1, 2} /\ UNCHANGED <<open, ping, pending, failed, save, openings, lost>>
  BY DEF FormStep, SelectEngine, TypeEndpoint, TypeFields, TypeFile, TypeUri, PasteRelational, PasteMongo, Next1, Next2,
         Editable, FormOnly
<1>2. TypeOK'
  BY <1>1, FormType DEF WizardInv, TypeOK
<1>3. ping.step = "idle"
  BY <1>1 DEF WizardInv, VerifiedIsSaved
<1> QED
  BY <1>1, <1>2, <1>3 DEF WizardInv, VerifiedIsSaved, CredentialsDropped, SaveDiscipline, Live

\* The dialog and its diagnostic leave the saves alone.
LEMMA DialogInv == WizardInv /\ (Back \/ SendTest \/ AnswerTest \/ Open \/ Close \/ UNCHANGED vars) => WizardInv'
<1> SUFFICES ASSUME WizardInv, Back \/ SendTest \/ AnswerTest \/ Open \/ Close \/ UNCHANGED vars PROVE WizardInv'
  OBVIOUS
<1> USE DEF WizardInv
<1>b. Blank \in Form /\ NoTarget \in Target /\ Untested \in [step : {"idle", "testing", "verified", "unreachable"}, of : Target]
  BY DEF Blank, Form, Untested, NoTarget, Target, Engines, NoUri
<1>1. CASE Back
  BY <1>1, <1>b DEF Back, Editable, TypeOK, VerifiedIsSaved, CredentialsDropped, SaveDiscipline, Live, Untested
<1>2. CASE SendTest
  <2>1. TestPayload(form)' = TestPayload(form) /\ SavePayload(form)' = SavePayload(form) /\ engine' = engine
    BY <1>2 DEF SendTest, TestPayload, SavePayload
  <2> QED
    BY <1>2, <2>1, PayloadType DEF SendTest, TypeOK, VerifiedIsSaved, CredentialsDropped, SaveDiscipline, Live
<1>3. CASE AnswerTest
  <2>1. SavePayload(form)' = SavePayload(form) /\ engine' = engine
    BY <1>3 DEF AnswerTest, TestPayload, SavePayload
  <2> QED
    BY <1>3, <2>1 DEF AnswerTest, TypeOK, VerifiedIsSaved, CredentialsDropped, SaveDiscipline, Live
<1>4. CASE Open
  <2>1. openings \in Nat /\ openings' = openings + 1 /\ openings' \in 0..MaxOpenings
    BY <1>4, WizardAssumption DEF Open, TypeOK
  <2>2. \A i \in Saves : save[i].opening \in Nat /\ save[i].opening <= openings
    BY DEF TypeOK, SaveDiscipline
  <2>3. SaveDiscipline'
    BY <1>4, <2>1, <2>2 DEF Open, SaveDiscipline, Live
  <2>4. ping.step = "idle"
    BY <1>4 DEF Open, VerifiedIsSaved
  <2> QED
    BY <1>4, <2>1, <2>3, <2>4 DEF Open, TypeOK, VerifiedIsSaved, CredentialsDropped
<1>5. CASE Close
  <2>1. TypeOK'
    <3>1. /\ open' = FALSE /\ step' = 1 /\ form' = Blank /\ ping' = Untested /\ pending' = 0 /\ failed' = FALSE
          /\ UNCHANGED <<engine, save, openings, lost>>
      BY <1>5 DEF Close, Closed
    <3>2. 0 \in 0..MaxSaves /\ 1 \in 1..3
      BY WizardAssumption
    <3> QED
      BY <1>b, <3>1, <3>2 DEF TypeOK
  <2> QED
    BY <1>5, <2>1 DEF Close, Closed, VerifiedIsSaved, CredentialsDropped, SaveDiscipline, Live, Untested
<1>6. CASE UNCHANGED vars
  BY <1>6 DEF vars, TypeOK, VerifiedIsSaved, CredentialsDropped, SaveDiscipline, Live, TestPayload, SavePayload
<1> QED
  BY <1>1, <1>2, <1>3, <1>4, <1>5, <1>6

\* The records of the saves.
SaveRecord == [step : {"none", "sent", "ok", "refused", "done"}, of : Target, opening : 0..MaxOpenings, row : BOOLEAN]

\* A save under way has the form of a record, and its opening is a number.
LEMMA SaveType == TypeOK => \A i \in Saves : /\ save[i] \in SaveRecord /\ save[i].opening \in Nat
                                             /\ save[i].row \in BOOLEAN
<1> SUFFICES ASSUME TypeOK, NEW i \in Saves
             PROVE  save[i] \in SaveRecord /\ save[i].opening \in Nat /\ save[i].row \in BOOLEAN
  OBVIOUS
<1>1. save[i] \in SaveRecord
  BY DEF TypeOK, SaveRecord
<1> QED
  BY <1>1, WizardAssumption DEF SaveRecord

\* A submitted save goes with the credentials of the dialog as it is then open.
LEMMA SubmitInv == ASSUME WizardInv, NEW i \in Saves, Submit(i) PROVE WizardInv'
<1> USE DEF WizardInv
<1>1. /\ open /\ step = 3 /\ pending = 0 /\ save[i] = Unsent
      /\ save' = [save EXCEPT ![i] = [step |-> "sent", of |-> SavePayload(form), opening |-> openings, row |-> FALSE]]
      /\ pending' = i /\ failed' = FALSE
      /\ UNCHANGED <<open, step, engine, form, ping, openings, lost>>
  BY DEF Submit, SaveOpen
<1>2. /\ save'[i].step = "sent" /\ save'[i].opening = openings /\ save'[i].row = FALSE
      /\ \A j \in Saves : j # i => save'[j] = save[j]
  BY <1>1 DEF TypeOK
<1>3. TypeOK'
  <2>1. [step |-> "sent", of |-> SavePayload(form), opening |-> openings, row |-> FALSE] \in SaveRecord
    BY PayloadType DEF SaveRecord, TypeOK
  <2>2. save' \in [Saves -> SaveRecord]
    BY <1>1, <2>1 DEF TypeOK, SaveRecord
  <2>3. pending' \in 0..MaxSaves
    BY <1>1, WizardAssumption DEF Saves
  <2> QED
    BY <1>1, <2>2, <2>3 DEF TypeOK, SaveRecord
<1>4. VerifiedIsSaved'
  BY <1>1 DEF VerifiedIsSaved, TestPayload, SavePayload
<1>5. SaveDiscipline'
  <2>1. \A j \in Saves : j # i => (Live(j)' <=> Live(j))
    BY <1>2 DEF Live
  <2>2. openings \in Nat
    BY WizardAssumption DEF TypeOK
  <2>3. lost = 0 => \A j \in Saves : j # i /\ Live(j) => save[j].opening # openings
    <3>1. i # 0
      BY DEF Saves
    <3>2. \A j \in Saves : j # 0
      BY DEF Saves
    <3> QED
      BY <1>1, <3>2 DEF SaveDiscipline
  <2> QED
    BY <1>1, <1>2, <2>1, <2>2, <2>3 DEF SaveDiscipline
<1> QED
  BY <1>1, <1>3, <1>4, <1>5 DEF CredentialsDropped

\* A save as the server, or the loss of its answer, leaves it.
AnsweredAs(i, s) == [save EXCEPT ![i].step = s, ![i].of = NoTarget, ![i].row = @ \/ s = "ok"]

\* A save with its answer is still a record, and of the same connection.
LEMMA AnsweredFact ==
  ASSUME TypeOK, NEW i \in Saves, NEW s \in {"ok", "refused"}
  PROVE  /\ AnsweredAs(i, s) \in [Saves -> SaveRecord]
         /\ \A j \in Saves : j # i => AnsweredAs(i, s)[j] = save[j]
         /\ AnsweredAs(i, s)[i].step = s /\ AnsweredAs(i, s)[i].opening = save[i].opening
         /\ AnsweredAs(i, s)[i].row <=> save[i].row \/ s = "ok"
<1>1. save[i] \in SaveRecord /\ save[i].row \in BOOLEAN /\ save \in [Saves -> SaveRecord]
  BY SaveType DEF TypeOK, SaveRecord
<1>0. NoTarget \in Target
  BY DEF NoTarget, Target, Engines, NoUri
<1> DEFINE r == [save[i] EXCEPT !.step = s, !.of = NoTarget, !.row = @ \/ s = "ok"]
<1>2. r \in SaveRecord /\ r.step = s /\ r.opening = save[i].opening /\ (r.row <=> save[i].row \/ s = "ok")
  BY <1>0, <1>1 DEF SaveRecord
<1>3. AnsweredAs(i, s) = [save EXCEPT ![i] = r]
  BY <1>1 DEF SaveRecord, AnsweredAs
<1> HIDE DEF r
<1> QED
  BY <1>1, <1>2, <1>3

\* The server makes the connection whether or not anybody still waits.
LEMMA ServeInv == ASSUME WizardInv, NEW i \in Saves, Serve(i) PROVE WizardInv'
<1> USE DEF WizardInv
<1>1. PICK s \in {"ok", "refused"} : save' = AnsweredAs(i, s)
  BY DEF Serve, Answered, AnsweredAs
<1>2. save[i].step = "sent" /\ UNCHANGED <<open, step, engine, form, ping, pending, failed, openings, lost>>
  BY DEF Serve
<1>3. /\ save' \in [Saves -> SaveRecord]
      /\ \A j \in Saves : j # i => save'[j] = save[j]
      /\ save'[i].step = s /\ save'[i].opening = save[i].opening /\ (save'[i].row <=> save[i].row \/ s = "ok")
  BY <1>1, AnsweredFact
<1>4. \A j \in Saves : (Live(j)' => Live(j)) /\ save'[j].opening = save[j].opening
  BY <1>1, <1>2, <1>3 DEF Live
<1>5. ~save[i].row
  BY <1>2 DEF SaveDiscipline
<1>6. SaveDiscipline'
  BY <1>1, <1>2, <1>3, <1>4, <1>5 DEF SaveDiscipline
<1>7. TypeOK'
  BY <1>2, <1>3 DEF TypeOK, SaveRecord
<1>8. VerifiedIsSaved' /\ CredentialsDropped'
  BY <1>2 DEF VerifiedIsSaved, TestPayload, SavePayload, CredentialsDropped
<1> QED
  BY <1>6, <1>7, <1>8

\* A lost answer looks like a refusal, and is counted.
LEMMA LoseInv == ASSUME WizardInv, NEW i \in Saves, LoseAnswer(i) PROVE WizardInv'
<1> USE DEF WizardInv
<1>1. /\ save' = AnsweredAs(i, "refused")
      /\ lost' = lost + 1 /\ lost < MaxLost /\ save[i].step = "ok"
      /\ UNCHANGED <<open, step, engine, form, ping, pending, failed, openings>>
  BY DEF LoseAnswer, Answered, AnsweredAs
<1>3. /\ save' \in [Saves -> SaveRecord]
      /\ \A j \in Saves : j # i => save'[j] = save[j]
      /\ save'[i].step = "refused" /\ save'[i].opening = save[i].opening
  BY <1>1, AnsweredFact
<1>4. lost' \in 0..MaxLost /\ lost' # 0
  BY <1>1, WizardAssumption DEF TypeOK
<1>5. SaveDiscipline'
  BY <1>1, <1>3, <1>4 DEF SaveDiscipline
<1>6. TypeOK'
  BY <1>1, <1>3, <1>4 DEF TypeOK, SaveRecord
<1>7. VerifiedIsSaved' /\ CredentialsDropped'
  BY <1>1 DEF VerifiedIsSaved, TestPayload, SavePayload, CredentialsDropped
<1> QED
  BY <1>5, <1>6, <1>7

\* The answer of a save closes the dialog, or leaves it open with an error.
LEMMA FinishInv == ASSUME WizardInv, NEW i \in Saves, FinishSaved(i) \/ FinishRefused(i) PROVE WizardInv'
<1> USE DEF WizardInv
<1>1. /\ save' = [save EXCEPT ![i].step = "done"] /\ save[i].step \in {"ok", "refused"}
      /\ UNCHANGED <<engine, openings, lost>>
  BY DEF FinishSaved, FinishRefused, Done
<1>2. /\ save' \in [Saves -> SaveRecord]
      /\ \A j \in Saves : j # i => save'[j] = save[j]
      /\ save'[i].step = "done" /\ save'[i].opening = save[i].opening /\ (save'[i].row <=> save[i].row)
  BY <1>1 DEF TypeOK, SaveRecord
<1>3. \A j \in Saves : (Live(j)' => Live(j)) /\ save'[j].opening = save[j].opening
  BY <1>1, <1>2 DEF Live
<1>4. Blank \in Form /\ Untested \in [step : {"idle", "testing", "verified", "unreachable"}, of : Target]
      /\ 0 \in 0..MaxSaves /\ 1 \in 1..3
  BY WizardAssumption DEF Blank, Form, Untested, NoTarget, Target, Engines, NoUri
<1>5. CASE FinishSaved(i)
  <2>1. open' = FALSE /\ step' = 1 /\ form' = Blank /\ ping' = Untested /\ pending' = 0 /\ failed' = FALSE
    BY <1>5 DEF FinishSaved, Closed
  <2>2. TypeOK'
    BY <1>1, <1>2, <1>4, <2>1 DEF TypeOK, SaveRecord
  <2>3. SaveDiscipline'
    BY <1>1, <1>2, <1>3, <2>1 DEF SaveDiscipline
  <2> QED
    BY <2>1, <2>2, <2>3 DEF VerifiedIsSaved, CredentialsDropped, Untested
<1>6. CASE FinishRefused(i)
  <2>1. /\ UNCHANGED <<open, step, form, ping>> /\ save[i].step = "refused"
        /\ IF pending = i THEN pending' = 0 /\ failed' = TRUE ELSE UNCHANGED <<pending, failed>>
    BY <1>6 DEF FinishRefused
  <2>2. TypeOK'
    BY <1>1, <1>2, <1>4, <2>1 DEF TypeOK, SaveRecord
  <2>3. lost = 0 => ~Live(i)
    BY <2>1 DEF SaveDiscipline, Live
  <2>4. SaveDiscipline'
    BY <1>1, <1>2, <1>3, <2>1, <2>3 DEF SaveDiscipline
  <2>5. i # 0
    BY DEF Saves
  <2> QED
    BY <1>1, <2>1, <2>2, <2>4, <2>5 DEF VerifiedIsSaved, CredentialsDropped, TestPayload, SavePayload
<1> QED
  BY <1>5, <1>6

\* The inductive invariant always holds.
LEMMA WizardInvHolds == Spec => []WizardInv
<1>1. Init => WizardInv
  <2> SUFFICES ASSUME Init PROVE WizardInv
    OBVIOUS
  <2>1. Blank \in Form /\ NoTarget \in Target
    BY DEF Blank, Form, NoTarget, Target, Engines, NoUri
  <2>2. Untested \in [step : {"idle", "testing", "verified", "unreachable"}, of : Target] /\ Unsent \in SaveRecord
        /\ 0 \in 0..MaxSaves /\ 0 \in 0..MaxOpenings /\ 0 \in 0..MaxLost
    BY <2>1, WizardAssumption DEF Untested, Unsent, SaveRecord
  <2>3. TypeOK
    <3>1. save \in [Saves -> SaveRecord]
      BY <2>2 DEF Init
    <3>2. 1 \in 1..3 /\ "postgres" \in Engines
      BY DEF Engines
    <3> QED
      BY <2>1, <2>2, <3>1, <3>2 DEF Init, TypeOK, SaveRecord
  <2>4. \A i \in Saves : save[i].opening = 0 /\ ~save[i].row /\ save[i].step = "none"
    BY DEF Init, Unsent
  <2>5. SaveDiscipline
    BY <2>4 DEF Init, SaveDiscipline, Live
  <2> QED
    BY <2>3, <2>5 DEF Init, WizardInv, VerifiedIsSaved, CredentialsDropped, Untested
<1>2. WizardInv /\ [Next]_vars => WizardInv'
  <2> SUFFICES ASSUME WizardInv, [Next]_vars PROVE WizardInv'
    OBVIOUS
  <2>1. CASE FormStep
    BY <2>1, FormStepInv
  <2>2. CASE Back \/ SendTest \/ AnswerTest \/ Open \/ Close \/ UNCHANGED vars
    BY <2>2, DialogInv
  <2>3. ASSUME NEW i \in Saves, Submit(i) \/ Answers(i) \/ LoseAnswer(i) PROVE WizardInv'
    BY <2>3, SubmitInv, ServeInv, LoseInv, FinishInv DEF Answers
  <2> QED
    BY <2>1, <2>2, <2>3 DEF Next, FormStep
<1> QED
  BY <1>1, <1>2, PTL DEF Spec

\* Whatever is typed, pasted, tested, saved, closed over or answered late: the
\* result shown is that of what saving would send, but for the connection string
\* that a relational engine saves untested; an opening makes one connection at
\* most; and a closed dialog keeps nothing of what was typed.
THEOREM WizardIsSound == Spec => []WizardSound
<1>1. WizardInv => WizardSound
  <2> SUFFICES ASSUME WizardInv PROVE OneRowPerOpening
    BY DEF WizardInv, WizardSound
  <2> QED
    BY DEF WizardInv, SaveDiscipline, OneRowPerOpening, Live
<1> QED
  BY <1>1, WizardInvHolds, PTL

-----------------------------------------------------------------------------
(***************************************************************************)
(* The pages of migrations                                                  *)
(***************************************************************************)
\* A job whose goroutine has said it is completed, and whose row does not say otherwise.
Won(j) == \/ worker[j] = "succeeded"
          \/ worker[j] \in {"closing", "done"} /\ row[j] \notin {"failed", "cancelled"}

\* Rows end with their goroutines; a page, a fetch and a cancellation are about jobs that there are.
JobsKnown ==
    /\ \A j \in Jobs : row[j] \in Ended => worker[j] \in {"closing", "done"}
    /\ \A i \in Jobs : launch[i].step \in {"none", "sent"} => row[i] = None
    /\ \A i \in Jobs : launch[i].step = "accepted" => row[i] # None
    /\ watched # 0 => row[watched] # None
    /\ \A j \in Jobs : poll[j] # "idle" => row[j] # None
    /\ cancel.step \in {"sent", "accepted", "refused"} => cancel.job \in Jobs

\* The fetch of the list knows only jobs the server has.
ListKnown == \A j \in Jobs : row[j] = None => listPoll.rows[j] = None

\* What the query and its fetch say of an end is what the row says.
EndsRead == \A j \in Jobs : /\ detail[j] \in Ended => detail[j] = row[j]
                            /\ poll[j] \in Ended => poll[j] = row[j]
                            /\ detail[j] \in Ended /\ poll[j] \in Statuses => poll[j] = detail[j]

\* Events are those of the job on the page; completed comes once, and only the
\* end of the stream comes after it.
StreamOfJob ==
    /\ page = "live" /\ mounted # 0 => mounted = watched
    /\ stream # "open" => channel = <<>>
    /\ Len(channel) > MaxEvents => watched # 0 /\ worker[watched] = "done"
    /\ \A k \in 1..Len(channel) : channel[k] = "completed" => Won(watched)
    /\ page # "live" => streamed = None /\ mounted = 0 /\ ~rerender
    /\ streamed = "completed" /\ mounted = watched =>
           /\ Won(watched)
           /\ \A k \in 1..Len(channel) : channel[k] = "eof"

\* A table of the wizard is one of its source.
TableKnown == /\ wizard.table \in {None, wizard.source}
              /\ wizard.step > 1 => wizard.table # None

ConsoleInv == /\ ConsoleTypeOK /\ JobsKnown /\ ListKnown /\ EndsRead /\ StreamOfJob /\ StreamEndsWithJob
              /\ TableKnown /\ TableOfSource

\* The parts of ConsoleTypeOK.
JobTypes == /\ row \in [Jobs -> Statuses \cup {None}]
            /\ worker \in [Jobs -> {None, "created", "begun", "streaming", "succeeded", "failed", "closing", "done"}]
            /\ \A j \in Jobs : (row[j] = None) = (worker[j] = None)
            /\ stopped \subseteq Jobs

LaunchRecord == [step: {"none", "sent", "accepted", "refused", "over"},
                 visit: 0..MaxVisits, source: Conns \cup {None}, table: Conns \cup {None},
                 target: Conns \cup {None}]

PageTypes == /\ page \in {"list", "new", "live"} /\ watched \in Jobs \cup {0} /\ wizard \in Wizards
             /\ (page = "live") = (watched # 0)

ListFetch == [step: {"idle", "sent", "read"}, rows: [Jobs -> Statuses \cup {None}], loaded: BOOLEAN]

QueryTypes == /\ detail \in [Jobs -> Statuses \cup {None}] /\ listed \in [Jobs -> Statuses \cup {None}]
              /\ \A j \in Jobs : row[j] = None => detail[j] = None /\ listed[j] = None
              /\ poll \in [Jobs -> Statuses \cup {"idle", "sent"}]
              /\ listPoll \in ListFetch

Events == {"running", "completed", "eof"}

StreamTypes == /\ stream \in {None, "connecting", "open"} /\ (stream # None => page = "live")
               /\ channel \in Seq(Events) /\ Len(channel) <= MaxEvents + 1
               /\ streamed \in {None, "running", "completed"} /\ mounted \in Jobs \cup {0} /\ rerender \in BOOLEAN

CancelRecord == [step: {"none", "sent", "accepted", "refused"}, job: Jobs \cup {0},
                 from: {None, "list", "live"}]

BoundTypes == visits \in 0..MaxVisits /\ taps \in 0..MaxTaps /\ faults \in 0..MaxFaults

\* They make it up.
LEMMA TypeParts ==
  ConsoleTypeOK <=> /\ JobTypes /\ PageTypes /\ QueryTypes /\ StreamTypes /\ BoundTypes
                    /\ launch \in [Jobs -> LaunchRecord] /\ cancel \in CancelRecord
  BY DEF ConsoleTypeOK, JobTypes, PageTypes, QueryTypes, StreamTypes, BoundTypes, LaunchRecord, CancelRecord, Events, ListFetch

\* The constants and the sets of words, spelt out.
LEMMA Words ==
  /\ None = "none" /\ Ended = {"completed", "failed", "cancelled"} /\ Statuses = {"pending", "running", "completed", "failed", "cancelled"}
  /\ 0 \notin Jobs /\ Jobs \subseteq Nat /\ First \in Conns
  /\ MaxLaunches \in Nat /\ MaxVisits \in Nat /\ MaxTaps \in Nat /\ MaxEvents \in Nat /\ MaxFaults \in Nat
  BY ConsoleAssumption DEF None, Ended, Statuses, Active, Jobs

\* Every step is one of the server with a job, one of its answer to a
\* cancellation, or leaves the jobs alone.
LEMMA NextSplit ==
  ASSUME ConsoleNext
  PROVE  \/ \E i \in Jobs : StartMigration(i) \/ Begin(i) \/ Progress(i) \/ Succeed(i) \/ Fail(i) \/ Settle(i) \/ EndJob(i)
         \/ ServeCancel
         \/ UNCHANGED jobVars
<1>1. ASSUME NEW i \in Jobs, RefuseLaunch(i) \/ SubmitLaunch(i) \/ FinishLaunch(i) \/ FailLaunch(i) \/ GoLive(i)
      PROVE  UNCHANGED jobVars
  BY <1>1 DEF RefuseLaunch, SubmitLaunch, FinishLaunch, FailLaunch, GoLive
<1>2. ASSUME NEW i \in Jobs, PollTimer(i) \/ AnswerPoll(i) \/ ReceivePoll(i) \/ SubmitCancel(i) PROVE UNCHANGED jobVars
  BY <1>2 DEF PollTimer, AnswerPoll, ReceivePoll, SubmitCancel
<1>3. ASSUME NEW c \in Conns, ChooseSource(c) \/ ChooseTarget(c) PROVE UNCHANGED jobVars
  BY <1>3 DEF ChooseSource, ChooseTarget, OnWizard
<1>4. CASE FinishCancel \/ ListTimer \/ AnswerList \/ ReceiveList \/ Connect \/ RefuseStream \/ Deliver \/ Break \/ Rerender
  BY <1>4 DEF FinishCancel, ListTimer, AnswerList, ReceiveList, Connect, RefuseStream, Deliver, Break, Rerender
<1>5. CASE GoList \/ GoNew \/ Refresh \/ ChooseTable \/ NextStep \/ BackStep
  BY <1>5 DEF GoList, GoNew, Refresh, ChooseTable, NextStep, BackStep, OnWizard
<1> QED
  BY <1>1, <1>2, <1>3, <1>4, <1>5 DEF ConsoleNext

\* What a step does with rows and goroutines: an ended row stays, a row that is
\* there remains, and a goroutine that has succeeded is followed by a row that
\* does not say otherwise.
RowGoal ==
    /\ JobTypes'
    /\ \A j \in Jobs : /\ row[j] \in Ended => row'[j] = row[j]
                       /\ row[j] # None => row'[j] # None
                       /\ row'[j] \in Ended => worker'[j] \in {"closing", "done"}
                       /\ Won(j) => Won(j)'
                       /\ worker[j] = "done" => worker'[j] = "done"
                       /\ row[j] = None => row'[j] = None \/ StartMigration(j)

\* Every step is one.
LEMMA RowStep ==
  ASSUME ConsoleInv, ConsoleNext
  PROVE  RowGoal
<1> USE Words
<1>0. JobTypes /\ JobsKnown
  BY TypeParts DEF ConsoleInv
<1>1. ASSUME NEW i \in Jobs, StartMigration(i) PROVE RowGoal
  <2>1. row[i] = None
    BY <1>0, <1>1 DEF StartMigration, JobsKnown
  <2> QED
    BY <1>0, <1>1, <2>1 DEF StartMigration, JobTypes, JobsKnown, Won, RowGoal
<1>2. ASSUME NEW i \in Jobs, Begin(i) PROVE RowGoal
  <2>1. row[i] # None /\ row[i] \notin Ended
    BY <1>0, <1>2 DEF Begin, JobTypes, JobsKnown
  <2>2. row' \in {row, [row EXCEPT ![i] = "running"]} /\ worker' = [worker EXCEPT ![i] = "begun"] /\ stopped' = stopped
    BY <1>2 DEF Begin, Write
  <2>3. worker[i] = "created"
    BY <1>2 DEF Begin
  <2>4. CASE row' = row
    BY <1>0, <2>1, <2>2, <2>3, <2>4 DEF JobTypes, JobsKnown, Won, RowGoal
  <2>5. CASE row' = [row EXCEPT ![i] = "running"]
    BY <1>0, <2>1, <2>2, <2>3, <2>5 DEF JobTypes, JobsKnown, Won, RowGoal
  <2> QED
    BY <2>2, <2>4, <2>5
<1>3. ASSUME NEW i \in Jobs, Progress(i) \/ Succeed(i) \/ Fail(i) PROVE RowGoal
  <2>1. row' = row /\ stopped' = stopped /\ row[i] \notin Ended /\ worker[i] \in {"begun", "streaming"} /\ row[i] # None
    BY <1>0, <1>3 DEF Progress, Succeed, Fail, JobTypes, JobsKnown
  <2>2. worker' = [worker EXCEPT ![i] = "streaming"] \/ worker' = [worker EXCEPT ![i] = "succeeded"] \/ worker' = [worker EXCEPT ![i] = "failed"]
    BY <1>3 DEF Progress, Succeed, Fail
  <2> QED
    BY <1>0, <2>1, <2>2 DEF JobTypes, JobsKnown, Won, RowGoal
<1>4. ASSUME NEW i \in Jobs, Settle(i) PROVE RowGoal
  <2>1. row[i] # None /\ row[i] \notin Ended
    BY <1>0, <1>4 DEF Settle, JobTypes, JobsKnown
  <2>2. worker' = [worker EXCEPT ![i] = "closing"] /\ stopped' = stopped
    BY <1>4 DEF Settle
  <2>3. CASE worker[i] = "succeeded"
    <3>1. row' \in {row, [row EXCEPT ![i] = "completed"]}
      BY <1>4, <2>3 DEF Settle, Write
    <3>2. CASE row' = row
      BY <1>0, <2>1, <2>2, <2>3, <3>2 DEF JobTypes, JobsKnown, Won, RowGoal
    <3>3. CASE row' = [row EXCEPT ![i] = "completed"]
      BY <1>0, <2>1, <2>2, <2>3, <3>3 DEF JobTypes, JobsKnown, Won, RowGoal
    <3> QED
      BY <3>1, <3>2, <3>3
  <2>4. CASE worker[i] = "failed"
    <3>1. row' \in {row, [row EXCEPT ![i] = "cancelled"], [row EXCEPT ![i] = "failed"]}
      BY <1>4, <2>4 DEF Settle, Write
    <3> QED
      BY <1>0, <2>1, <2>2, <2>4, <3>1 DEF JobTypes, JobsKnown, Won, RowGoal
  <2> QED
    BY <1>4, <2>3, <2>4 DEF Settle
<1>5. ASSUME NEW i \in Jobs, EndJob(i) PROVE RowGoal
  BY <1>0, <1>5 DEF EndJob, JobTypes, JobsKnown, Won, RowGoal
<1>6. ASSUME ServeCancel PROVE RowGoal
  <2>1. stopped' \subseteq Jobs /\ row' = row /\ worker' = worker
    BY <1>0, <1>6 DEF ServeCancel, JobTypes, JobsKnown
  <2> QED
    BY <1>0, <2>1 DEF JobTypes, JobsKnown, Won, RowGoal
<1>7. CASE UNCHANGED jobVars
  BY <1>0, <1>7 DEF jobVars, JobTypes, JobsKnown, Won, RowGoal
<1> QED
  BY <1>1, <1>2, <1>3, <1>4, <1>5, <1>6, <1>7, NextSplit DEF jobVars

\* What a step does with the fetches of the jobs and with what they have brought.
PollGoal ==
    /\ poll' \in [Jobs -> Statuses \cup {"idle", "sent"}]
    /\ \A j \in Jobs : \/ poll'[j] = poll[j] \/ poll'[j] = "idle"
                       \/ poll'[j] = "sent" /\ row[j] # None
                       \/ poll[j] = "sent" /\ poll'[j] = row[j] /\ row' = row
    /\ detail' \in [Jobs -> Statuses \cup {None}]
    /\ \A j \in Jobs : \/ detail'[j] = detail[j]
                       \/ poll[j] \in Statuses /\ detail'[j] = poll[j] /\ poll'[j] = "idle"

\* Asking again is such a step: only the job on the page is asked for.
LEMMA RefetchFact ==
  ASSUME ConsoleInv, NEW i, Refetch(i), detail' = detail
  PROVE  PollGoal
<1> USE Words
<1>0. JobTypes /\ JobsKnown /\ QueryTypes /\ PageTypes
  BY TypeParts DEF ConsoleInv
<1> QED
  BY <1>0 DEF Refetch, PollGoal, QueryTypes, PageTypes, JobsKnown

\* So is what a page that comes up asks for.
LEMMA AskFact ==
  ASSUME ConsoleInv, NEW i \in Jobs, row[i] # None, Ask(i), detail' = detail
  PROVE  PollGoal
<1> USE Words
<1>0. QueryTypes
  BY TypeParts DEF ConsoleInv
<1> QED
  BY <1>0 DEF Ask, PollGoal, QueryTypes

\* And so is every step.
LEMMA PollStep ==
  ASSUME ConsoleInv, ConsoleNext
  PROVE  PollGoal
<1> USE Words
<1>0. JobTypes /\ JobsKnown /\ QueryTypes /\ PageTypes
  BY TypeParts DEF ConsoleInv
<1>1. ASSUME NEW i \in Jobs, PollTimer(i) PROVE PollGoal
  BY <1>0, <1>1 DEF PollTimer, PollGoal, QueryTypes, PageTypes, JobsKnown
<1>2. ASSUME NEW i \in Jobs, AnswerPoll(i) PROVE PollGoal
  <2>1. row[i] \in Statuses /\ row' = row /\ detail' = detail
    BY <1>0, <1>2 DEF AnswerPoll, JobTypes, JobsKnown, jobVars
  <2> QED
    BY <1>0, <1>2, <2>1 DEF AnswerPoll, PollGoal, QueryTypes
<1>3. ASSUME NEW i \in Jobs, ReceivePoll(i) PROVE PollGoal
  BY <1>0, <1>3 DEF ReceivePoll, PollGoal, QueryTypes
<1>4. CASE RefuseStream
  BY <1>4, RefetchFact DEF RefuseStream
<1>5. CASE Deliver
  <2>1. detail' = detail /\ (UNCHANGED poll \/ Refetch(watched))
    BY <1>5 DEF Deliver
  <2> QED
    BY <1>0, <2>1, RefetchFact DEF PollGoal, QueryTypes
<1>6. CASE Refresh
  <2>1. detail' = detail /\ (UNCHANGED poll \/ Refetch(watched))
    BY <1>6 DEF Refresh
  <2> QED
    BY <1>0, <2>1, RefetchFact DEF PollGoal, QueryTypes
<1>7. CASE FinishCancel
  <2>1. detail' = detail /\ (UNCHANGED poll \/ Refetch(cancel.job))
    BY <1>7 DEF FinishCancel
  <2> QED
    BY <1>0, <2>1, RefetchFact DEF PollGoal, QueryTypes
<1>8. ASSUME NEW i \in Jobs, GoLive(i) \/ FinishLaunch(i) PROVE PollGoal
  <2>1. row[i] # None /\ Ask(i) /\ detail' = detail
    BY <1>0, <1>8 DEF GoLive, FinishLaunch, MountLive, JobsKnown, QueryTypes
  <2> QED
    BY <2>1, AskFact
<1>9. CASE UNCHANGED <<poll, detail>>
  BY <1>0, <1>9 DEF PollGoal, QueryTypes
<1>10. ASSUME NEW i \in Jobs, StartMigration(i) \/ RefuseLaunch(i) \/ SubmitLaunch(i) \/ FailLaunch(i) \/ SubmitCancel(i)
       PROVE  UNCHANGED <<poll, detail>>
  BY <1>10 DEF StartMigration, RefuseLaunch, SubmitLaunch, FailLaunch, SubmitCancel, queryVars
<1>11. ASSUME NEW i \in Jobs, Begin(i) \/ Progress(i) \/ Succeed(i) \/ Fail(i) \/ Settle(i) \/ EndJob(i)
       PROVE  UNCHANGED <<poll, detail>>
  BY <1>11 DEF Begin, Progress, Succeed, Fail, Settle, EndJob, ServerOnly, queryVars
<1>12. ASSUME NEW c \in Conns, ChooseSource(c) \/ ChooseTarget(c) PROVE UNCHANGED <<poll, detail>>
  BY <1>12 DEF ChooseSource, ChooseTarget, OnWizard, queryVars
<1>13. CASE ServeCancel \/ ListTimer \/ AnswerList \/ ReceiveList \/ Connect \/ Break \/ Rerender \/ GoList \/ GoNew
  BY <1>9, <1>13 DEF ServeCancel, ListTimer, AnswerList, ReceiveList, Connect, Break, Rerender, GoList, GoNew, queryVars
<1>14. CASE ChooseTable \/ NextStep \/ BackStep
  BY <1>9, <1>14 DEF ChooseTable, NextStep, BackStep, OnWizard, queryVars
<1> QED
  BY <1>1, <1>2, <1>3, <1>4, <1>5, <1>6, <1>7, <1>8, <1>9, <1>10, <1>11, <1>12, <1>13, <1>14 DEF ConsoleNext

\* What is known of an end stays true.
LEMMA EndsReadStep ==
  ASSUME ConsoleInv, ConsoleNext
  PROVE  EndsRead'
<1> USE Words
<1>1. JobTypes /\ EndsRead /\ QueryTypes
  BY TypeParts DEF ConsoleInv
<1>2. RowGoal /\ PollGoal
  BY RowStep, PollStep
<1> QED
  BY <1>1, <1>2 DEF EndsRead, RowGoal, PollGoal, QueryTypes

\* What a step does with the requests to start a job.
LaunchGoal ==
    /\ launch' \in [Jobs -> LaunchRecord]
    /\ \A k \in Jobs : /\ launch'[k].step \in {"none", "sent"} => row'[k] = None
                       /\ launch'[k].step = "accepted" => row'[k] # None
                       /\ launch'[k].table = launch'[k].source

\* One request changes, or none does.
LEMMA LaunchFact ==
  ASSUME ConsoleInv, ConsoleNext, NEW i \in Jobs, NEW r \in LaunchRecord, launch' = [launch EXCEPT ![i] = r],
         r.step \in {"none", "sent"} => row'[i] = None, r.step = "accepted" => row'[i] # None,
         r.table = r.source, \A k \in Jobs \ {i} : ~StartMigration(k)
  PROVE  LaunchGoal
<1>1. /\ launch \in [Jobs -> LaunchRecord]
      /\ \A k \in Jobs : launch[k].step \in {"none", "sent"} => row[k] = None
      /\ \A k \in Jobs : launch[k].step = "accepted" => row[k] # None
      /\ \A k \in Jobs : launch[k].table = launch[k].source
  BY TypeParts DEF ConsoleInv, JobsKnown, TableOfSource
<1>2. \A k \in Jobs : row[k] # None => row'[k] # None
  BY RowStep DEF RowGoal
<1>3. \A k \in Jobs \ {i} : row[k] = None => row'[k] = None
  BY RowStep DEF RowGoal
<1>4. \A k \in Jobs : launch'[k] = IF k = i THEN r ELSE launch[k]
  BY <1>1
<1>5. launch' \in [Jobs -> LaunchRecord]
  BY <1>1
<1> QED
  BY <1>1, <1>2, <1>3, <1>4, <1>5 DEF LaunchGoal

\* A request is taken, refused, sent, finished or lost, or stays.
LEMMA LaunchStep ==
  ASSUME ConsoleInv, ConsoleNext
  PROVE  LaunchGoal
<1> USE Words
<1>0. /\ launch \in [Jobs -> LaunchRecord] /\ JobTypes /\ BoundTypes /\ PageTypes
      /\ \A k \in Jobs : launch[k].step \in {"none", "sent"} => row[k] = None
      /\ \A k \in Jobs : launch[k].step = "accepted" => row[k] # None
      /\ \A k \in Jobs : launch[k].table = launch[k].source
      /\ TableKnown
  BY TypeParts DEF ConsoleInv, JobsKnown, TableOfSource
<1>1. ASSUME NEW i \in Jobs, StartMigration(i) PROVE LaunchGoal
  <2> DEFINE r == [NoLaunch EXCEPT !.step = "accepted", !.visit = launch[i].visit]
  <2>1. r.step = "accepted" /\ r.table = r.source
    BY DEF NoLaunch
  <2>2. r \in LaunchRecord
    BY <1>0 DEF LaunchRecord, NoLaunch
  <2>3. launch' = [launch EXCEPT ![i] = r] /\ row' = [row EXCEPT ![i] = "pending"]
    BY <1>1 DEF StartMigration, Served
  <2>4. \A k \in Jobs \ {i} : ~StartMigration(k)
    <3>1. \A k \in Jobs \ {i} : launch'[k] = launch[k]
      BY <1>0, <2>3
    <3>2. \A k \in Jobs : StartMigration(k) => launch[k].step = "sent" /\ launch'[k] = [NoLaunch EXCEPT !.step = "accepted", !.visit = launch[k].visit]
      BY <1>0 DEF StartMigration, Served
    <3> QED
      BY <3>1, <3>2 DEF NoLaunch
  <2>5. row'[i] = "pending"
    BY <1>0, <2>3 DEF JobTypes
  <2> HIDE DEF r
  <2> QED
    BY <2>1, <2>2, <2>3, <2>4, <2>5, LaunchFact
<1>2. ASSUME NEW i \in Jobs, RefuseLaunch(i) PROVE LaunchGoal
  <2> DEFINE r == [NoLaunch EXCEPT !.step = "refused", !.visit = launch[i].visit]
  <2>1. r.step = "refused" /\ r.table = r.source
    BY DEF NoLaunch
  <2>2. r \in LaunchRecord
    BY <1>0 DEF LaunchRecord, NoLaunch
  <2>3. launch' = [launch EXCEPT ![i] = r] /\ row' = row
    BY <1>2 DEF RefuseLaunch, Served, jobVars
  <2>4. \A k \in Jobs : ~StartMigration(k)
    BY <1>0, <2>3 DEF StartMigration, JobTypes
  <2> HIDE DEF r
  <2> QED
    BY <2>1, <2>2, <2>3, <2>4, LaunchFact
<1>3. ASSUME NEW i \in Jobs, SubmitLaunch(i) PROVE LaunchGoal
  <2> DEFINE r == [step |-> "sent", visit |-> visits, source |-> wizard.source, table |-> wizard.table, target |-> wizard.target]
  <2>1. wizard.step = 3 /\ wizard.source \in Conns /\ wizard.table \in Conns \cup {None} /\ wizard.target \in Conns \cup {None}
    BY <1>0, <1>3 DEF SubmitLaunch, PageTypes, Wizards
  <2>2. wizard.table = wizard.source
    BY <1>0, <2>1 DEF TableKnown
  <2>3. r \in LaunchRecord
    BY <1>0, <2>1 DEF LaunchRecord, BoundTypes
  <2>4. launch' = [launch EXCEPT ![i] = r] /\ row' = row /\ launch[i].step = "none"
    BY <1>3 DEF SubmitLaunch, jobVars
  <2>5. \A k \in Jobs : ~StartMigration(k)
    BY <1>0, <2>4 DEF StartMigration, JobTypes
  <2>6. r.step = "sent" /\ r.table = r.source /\ row'[i] = None
    BY <1>0, <2>2, <2>4
  <2> HIDE DEF r
  <2> QED
    BY <2>3, <2>4, <2>5, <2>6, LaunchFact
<1>4. ASSUME NEW i \in Jobs, FinishLaunch(i) \/ FailLaunch(i) PROVE LaunchGoal
  <2>1. launch' = [launch EXCEPT ![i] = [NoLaunch EXCEPT !.step = "over"]]
    BY <1>4 DEF FinishLaunch, FailLaunch, Over
  <2> DEFINE r == [NoLaunch EXCEPT !.step = "over"]
  <2>2. launch' = [launch EXCEPT ![i] = r] /\ row' = row
    BY <1>0, <1>4, <2>1 DEF FinishLaunch, FailLaunch, jobVars
  <2>3. r \in LaunchRecord /\ r.step = "over" /\ r.table = r.source
    BY <1>0 DEF LaunchRecord, NoLaunch
  <2>4. \A k \in Jobs : ~StartMigration(k)
    BY <1>0, <2>2 DEF StartMigration, JobTypes
  <2> HIDE DEF r
  <2> QED
    BY <2>2, <2>3, <2>4, LaunchFact
<1>5. CASE launch' = launch
  <2>1. \A k \in Jobs : ~StartMigration(k)
    <3>1. \A k \in Jobs : StartMigration(k) => launch[k].step = "sent" /\ launch'[k] = [NoLaunch EXCEPT !.step = "accepted", !.visit = launch[k].visit]
      BY <1>0 DEF StartMigration, Served
    <3> QED
      BY <1>5, <3>1 DEF NoLaunch
  <2>2. \A k \in Jobs : row[k] # None => row'[k] # None
    BY RowStep DEF RowGoal
  <2>3. \A k \in Jobs : row[k] = None => row'[k] = None
    BY <2>1, RowStep DEF RowGoal
  <2> QED
    BY <1>0, <1>5, <2>2, <2>3 DEF LaunchGoal
<1>6. ASSUME NEW i \in Jobs, Begin(i) \/ Progress(i) \/ Succeed(i) \/ Fail(i) \/ Settle(i) \/ EndJob(i)
      PROVE  launch' = launch
  BY <1>6 DEF Begin, Progress, Succeed, Fail, Settle, EndJob, ServerOnly
<1>7. ASSUME NEW i \in Jobs, PollTimer(i) \/ AnswerPoll(i) \/ ReceivePoll(i) \/ SubmitCancel(i) \/ GoLive(i) PROVE launch' = launch
  BY <1>7 DEF PollTimer, AnswerPoll, ReceivePoll, SubmitCancel, GoLive
<1>8. ASSUME NEW c \in Conns, ChooseSource(c) \/ ChooseTarget(c) PROVE launch' = launch
  BY <1>8 DEF ChooseSource, ChooseTarget, OnWizard
<1>9. CASE FinishCancel \/ ServeCancel \/ ListTimer \/ AnswerList \/ ReceiveList \/ Connect \/ RefuseStream \/ Deliver \/ Break \/ Rerender
  BY <1>5, <1>9 DEF FinishCancel, ServeCancel, ListTimer, AnswerList, ReceiveList, Connect, RefuseStream, Deliver, Break, Rerender
<1>10. CASE GoList \/ GoNew \/ Refresh \/ ChooseTable \/ NextStep \/ BackStep
  BY <1>5, <1>10 DEF GoList, GoNew, Refresh, ChooseTable, NextStep, BackStep, OnWizard
<1> QED
  BY <1>1, <1>2, <1>3, <1>4, <1>5, <1>6, <1>7, <1>8, <1>9, <1>10 DEF ConsoleNext

\* The step to the target page keeps the wizard in its shape.
LEMMA WizardFact ==
  ASSUME NEW w \in Wizards, NEW c \in Conns \cup {None}, NEW u, u = [w EXCEPT !.step = 2, !.target = c]
  PROVE  u \in Wizards /\ u.table = w.table /\ u.source = w.source
<1> DEFINE v == [w EXCEPT !.step = 2]
<1>1. v \in Wizards /\ v.table = w.table /\ v.source = w.source
  BY DEF Wizards
<1> HIDE DEF v
<1>2. [v EXCEPT !.target = c] \in Wizards /\ [v EXCEPT !.target = c].table = v.table /\ [v EXCEPT !.target = c].source = v.source
  BY <1>1 DEF Wizards
<1> QED
  BY <1>1, <1>2 DEF v

\* The pages, the wizard on them and the user's bounds.
PageGoal == /\ PageTypes' /\ TableKnown'
            /\ watched' = watched \/ watched' = 0 \/ row[watched'] # None

\* Every step keeps them in their types, and turns the live page only to a job that there is.
LEMMA PageStep ==
  ASSUME ConsoleInv, ConsoleNext
  PROVE  PageGoal
<1> USE Words
<1>0. /\ PageTypes /\ TableKnown /\ JobsKnown /\ QueryTypes
      /\ Mounted \in Wizards /\ Mounted.step = 1 /\ Mounted.table = None
  BY TypeParts DEF ConsoleInv, Mounted, Wizards
<1>1. ASSUME NEW i \in Jobs, GoLive(i) PROVE PageGoal
  BY <1>0, <1>1 DEF GoLive, MountLive, PageTypes, TableKnown, PageGoal, QueryTypes
<1>2. ASSUME NEW i \in Jobs, FinishLaunch(i) PROVE PageGoal
  <2>1. row[i] # None
    BY <1>0, <1>2 DEF FinishLaunch, JobsKnown
  <2> QED
    BY <1>0, <1>2, <2>1 DEF FinishLaunch, MountLive, PageTypes, TableKnown, PageGoal
<1>3. CASE GoList \/ GoNew
  BY <1>0, <1>3 DEF GoList, GoNew, PageTypes, TableKnown, PageGoal
<1>4. ASSUME NEW c \in Conns, ChooseSource(c) \/ ChooseTarget(c) PROVE PageGoal
  <2>1. CASE ChooseSource(c)
    <3>1. wizard' = [wizard EXCEPT !.source = c, !.table = None] /\ wizard.step = 1 /\ UNCHANGED <<page, watched>>
      BY <2>1 DEF ChooseSource, OnWizard
    <3>2. wizard' \in Wizards /\ wizard'.table = None /\ wizard'.step = 1
      BY <1>0, <3>1 DEF PageTypes, Wizards
    <3> QED
      BY <1>0, <3>1, <3>2 DEF PageTypes, TableKnown, PageGoal
  <2>2. CASE ChooseTarget(c)
    BY <1>0, <2>2 DEF ChooseTarget, OnWizard, PageTypes, TableKnown, PageGoal, Wizards
  <2> QED
    BY <1>4, <2>1, <2>2
<1>5. CASE ChooseTable \/ BackStep
  BY <1>0, <1>5 DEF ChooseTable, BackStep, OnWizard, PageTypes, TableKnown, PageGoal, Wizards
<1>6. CASE NextStep
  <2>1. ASSUME NEW c \in Conns \cup {None}, wizard.step = 1, wizard.table # None,
               wizard' = [wizard EXCEPT !.step = 2, !.target = c]
        PROVE  PageGoal
    <3>0. wizard \in Wizards
      BY <1>0 DEF PageTypes
    <3>1. wizard' \in Wizards /\ wizard'.table = wizard.table /\ wizard'.source = wizard.source
      BY <2>1, <3>0, WizardFact, Zenon
    <3>2. UNCHANGED <<page, watched>>
      BY <1>6 DEF NextStep, OnWizard
    <3> QED
      BY <1>0, <2>1, <3>1, <3>2 DEF PageTypes, TableKnown, PageGoal
  <2>2. CASE wizard.step = 2 /\ wizard' = [wizard EXCEPT !.step = 3]
    BY <1>0, <1>6, <2>2 DEF NextStep, OnWizard, PageTypes, TableKnown, PageGoal, Wizards
  <2>3. wizard.target \in Conns \cup {None} /\ wizard.source \in Conns
    BY <1>0 DEF PageTypes, Wizards
  <2>4. ASSUME wizard.step = 1, wizard.table # None,
               \E c \in IF wizard.target = None THEN Conns \ {wizard.source} ELSE {wizard.target} :
                  wizard' = [wizard EXCEPT !.step = 2, !.target = c]
        PROVE  PageGoal
    <3>1. PICK c \in IF wizard.target = None THEN Conns \ {wizard.source} ELSE {wizard.target} :
                  wizard' = [wizard EXCEPT !.step = 2, !.target = c]
      BY <2>4
    <3>2. c \in Conns \cup {None}
      BY <2>3
    <3> QED
      BY <2>1, <2>4, <3>1, <3>2
  <2> QED
    BY <1>6, <2>2, <2>4 DEF NextStep
<1>7. CASE UNCHANGED <<page, watched, wizard>>
  BY <1>0, <1>7 DEF PageTypes, TableKnown, PageGoal
<1>8. ASSUME NEW i \in Jobs, Begin(i) \/ Progress(i) \/ Succeed(i) \/ Fail(i) \/ Settle(i) \/ EndJob(i)
      PROVE  UNCHANGED <<page, watched, wizard>>
  BY <1>8 DEF Begin, Progress, Succeed, Fail, Settle, EndJob, ServerOnly
<1>9. ASSUME NEW i \in Jobs, PollTimer(i) \/ AnswerPoll(i) \/ ReceivePoll(i) \/ SubmitCancel(i)
      PROVE  UNCHANGED <<page, watched, wizard>>
  BY <1>9 DEF PollTimer, AnswerPoll, ReceivePoll, SubmitCancel
<1>10. ASSUME NEW i \in Jobs, StartMigration(i) \/ RefuseLaunch(i) \/ SubmitLaunch(i) \/ FailLaunch(i)
       PROVE  UNCHANGED <<page, watched, wizard>>
  BY <1>10 DEF StartMigration, RefuseLaunch, SubmitLaunch, FailLaunch
<1>11. CASE FinishCancel \/ ServeCancel \/ ListTimer \/ AnswerList \/ ReceiveList \/ Connect \/ RefuseStream \/ Deliver \/ Break \/ Rerender \/ Refresh
  BY <1>7, <1>11 DEF FinishCancel, ServeCancel, ListTimer, AnswerList, ReceiveList, Connect, RefuseStream, Deliver, Break, Rerender, Refresh
<1> QED
  BY <1>1, <1>2, <1>3, <1>4, <1>5, <1>6, <1>7, <1>8, <1>9, <1>10, <1>11 DEF ConsoleNext

\* The request to cancel, the list and the bounds.
ListGoal == /\ listPoll' \in ListFetch
            /\ listPoll'.rows = listPoll.rows \/ listPoll'.rows = Unlisted \/ (listPoll'.rows = row /\ row' = row)
            /\ listed' = listed \/ listed' = listPoll.rows
CancelGoal == /\ cancel' \in CancelRecord
              /\ cancel'.step \in {"sent", "accepted", "refused"} => cancel'.job \in Jobs
RestGoal == BoundTypes' /\ CancelGoal /\ ListGoal

\* Every step keeps these.
LEMMA RestStep ==
  ASSUME ConsoleInv, ConsoleNext
  PROVE  RestGoal
<1> USE Words
<1>0. /\ BoundTypes /\ cancel \in CancelRecord /\ PageTypes
      /\ cancel.step \in {"sent", "accepted", "refused"} => cancel.job \in Jobs
      /\ listPoll \in ListFetch /\ row \in [Jobs -> Statuses \cup {None}]
  BY TypeParts DEF ConsoleInv, JobsKnown, QueryTypes, JobTypes
<1>a. Unlisted \in [Jobs -> Statuses \cup {None}]
  BY DEF Unlisted
<1>b. UNCHANGED <<listPoll, listed>> => ListGoal
  BY <1>0 DEF ListGoal
<1>c. AskList /\ UNCHANGED listed => ListGoal
  BY <1>0, <1>a DEF AskList, ListGoal, ListFetch
<1>1. ASSUME NEW i \in Jobs, Begin(i) \/ Progress(i) \/ Succeed(i) \/ Fail(i) \/ Settle(i) \/ EndJob(i)
      PROVE  RestGoal
  <2>1. UNCHANGED <<cancel, visits, taps, listPoll, listed>> /\ (faults' = faults \/ Fault)
    BY <1>1 DEF Begin, Progress, Succeed, Fail, Settle, EndJob, ServerOnly, queryVars, Write
  <2> QED
    BY <1>0, <1>b, <1>c, <2>1 DEF BoundTypes, Fault, RestGoal, CancelGoal
<1>2. ASSUME NEW i \in Jobs, PollTimer(i) \/ AnswerPoll(i) \/ ReceivePoll(i) \/ StartMigration(i) \/ RefuseLaunch(i)
                               \/ SubmitLaunch(i) \/ FailLaunch(i)
      PROVE  RestGoal
  <2>1. UNCHANGED <<cancel, visits, taps, listPoll, listed>> /\ (faults' = faults \/ Fault)
    BY <1>2 DEF PollTimer, AnswerPoll, ReceivePoll, StartMigration, RefuseLaunch, SubmitLaunch, FailLaunch, queryVars, bounds
  <2> QED
    BY <1>0, <1>b, <1>c, <2>1 DEF BoundTypes, Fault, RestGoal, CancelGoal
<1>3. ASSUME NEW i \in Jobs, GoLive(i) \/ FinishLaunch(i) PROVE RestGoal
  <2>1. UNCHANGED <<cancel, taps, faults, listed>> /\ (AskList \/ UNCHANGED listPoll)
        /\ (visits' = visits \/ (visits < MaxVisits /\ visits' = visits + 1))
    BY <1>3 DEF GoLive, FinishLaunch, RefetchList, bounds
  <2> QED
    BY <1>0, <1>b, <1>c, <2>1 DEF BoundTypes, RestGoal, CancelGoal
<1>4. ASSUME NEW i \in Jobs, SubmitCancel(i) PROVE RestGoal
  <2>1. UNCHANGED <<visits, faults, listed, listPoll>> /\ Tap /\ page \in {"list", "live"}
    BY <1>4 DEF SubmitCancel, queryVars
  <2>2. CancelGoal
    BY <1>0, <1>4, <2>1 DEF SubmitCancel, CancelGoal, CancelRecord, NoCancel
  <2> QED
    BY <1>0, <1>b, <1>c, <2>1, <2>2 DEF BoundTypes, Tap, RestGoal, CancelGoal
<1>5. CASE FinishCancel
  <2>1. UNCHANGED <<bounds, listed>> /\ (AskList \/ UNCHANGED listPoll)
    BY <1>5 DEF FinishCancel, RefetchList
  <2>2. CancelGoal
    BY <1>0, <1>5 DEF FinishCancel, CancelGoal, CancelRecord, NoCancel
  <2> QED
    BY <1>0, <1>b, <1>c, <2>1, <2>2 DEF BoundTypes, bounds, RestGoal, CancelGoal
<1>6. CASE ServeCancel
  <2>1. UNCHANGED <<bounds, listed, listPoll>>
    BY <1>6 DEF ServeCancel, queryVars
  <2>2. CancelGoal
    <3>1. PICK s \in {"accepted", "refused"} : cancel' = [cancel EXCEPT !.step = s]
      BY <1>6 DEF ServeCancel
    <3> QED
      BY <1>0, <1>6, <3>1 DEF ServeCancel, CancelGoal, CancelRecord
  <2> QED
    BY <1>0, <1>b, <1>c, <2>1, <2>2 DEF BoundTypes, bounds, RestGoal, CancelGoal
<1>7. CASE AnswerList
  <2>1. UNCHANGED <<cancel, visits, taps, listed>> /\ (faults' = faults \/ Fault) /\ row' = row
        /\ listPoll' \in {[listPoll EXCEPT !.step = "read", !.rows = row], [listPoll EXCEPT !.step = "idle"]}
    BY <1>7 DEF AnswerList, jobVars
  <2>2. ListGoal
    BY <1>0, <2>1 DEF ListGoal, ListFetch
  <2> QED
    BY <1>0, <2>1, <2>2 DEF BoundTypes, Fault, RestGoal, CancelGoal
<1>12. CASE ReceiveList
  <2>1. /\ UNCHANGED <<cancel, bounds>> /\ listed' = listPoll.rows
        /\ listPoll' = [step |-> "idle", rows |-> Unlisted, loaded |-> TRUE]
    BY <1>12 DEF ReceiveList, NoFetch
  <2>2. ListGoal
    BY <1>a, <2>1 DEF ListGoal, ListFetch
  <2> QED
    BY <1>0, <2>1, <2>2 DEF BoundTypes, bounds, RestGoal, CancelGoal
<1>8. CASE ListTimer \/ Connect \/ RefuseStream \/ Deliver \/ Break \/ Rerender
  <2>1. UNCHANGED <<cancel, visits, taps, listed>> /\ (faults' = faults \/ Fault) /\ (AskList \/ UNCHANGED listPoll)
    BY <1>8 DEF ListTimer, Connect, RefuseStream, Deliver, Break, Rerender, queryVars, bounds
  <2> QED
    BY <1>0, <1>b, <1>c, <2>1 DEF BoundTypes, Fault, RestGoal, CancelGoal
<1>9. CASE GoList \/ GoNew \/ Refresh
  <2>1. UNCHANGED <<cancel, faults, listed>> /\ (AskList \/ UNCHANGED listPoll)
        /\ (visits' = visits \/ (visits < MaxVisits /\ visits' = visits + 1)) /\ (taps' = taps \/ Tap)
    BY <1>9 DEF GoList, GoNew, Refresh, AskOnMount, RefetchList, queryVars
  <2> QED
    BY <1>0, <1>b, <1>c, <2>1 DEF BoundTypes, Tap, RestGoal, CancelGoal
<1>10. ASSUME NEW c \in Conns, ChooseSource(c) \/ ChooseTarget(c) PROVE RestGoal
  <2>1. UNCHANGED <<cancel, bounds, listed, listPoll>>
    BY <1>10 DEF ChooseSource, ChooseTarget, OnWizard, queryVars
  <2> QED
    BY <1>0, <1>b, <1>c, <2>1 DEF BoundTypes, bounds, RestGoal, CancelGoal
<1>11. CASE ChooseTable \/ NextStep \/ BackStep
  <2>1. UNCHANGED <<cancel, bounds, listed, listPoll>>
    BY <1>11 DEF ChooseTable, NextStep, BackStep, OnWizard, queryVars
  <2> QED
    BY <1>0, <1>b, <1>c, <2>1 DEF BoundTypes, bounds, RestGoal, CancelGoal
<1> QED
  BY <1>1, <1>2, <1>3, <1>4, <1>5, <1>6, <1>7, <1>8, <1>9, <1>10, <1>11, <1>12 DEF ConsoleNext

\* What the live page hears.
StreamGoal == StreamTypes' /\ StreamOfJob' /\ StreamEndsWithJob'

\* Goroutines and rows move under a stream that nobody touches.
LEMMA StreamFrame ==
  ASSUME ConsoleInv, ConsoleNext, UNCHANGED <<page, watched, streamVars, detail>>
  PROVE  StreamGoal
<1> USE Words
<1>0. StreamTypes /\ StreamOfJob /\ StreamEndsWithJob /\ PageTypes
  BY TypeParts DEF ConsoleInv
<1>1. UNCHANGED <<page, watched, stream, channel, streamed, mounted, rerender, detail>>
  BY DEF streamVars
<1>2. StreamTypes' /\ StreamEndsWithJob'
  BY <1>0, <1>1 DEF StreamTypes, StreamEndsWithJob
<1>3. CASE page # "live"
  <2>1. channel = <<>>
    BY <1>0, <1>3 DEF StreamTypes, StreamOfJob
  <2> QED
    BY <1>0, <1>1, <1>2, <1>3, <2>1 DEF StreamGoal, StreamOfJob
<1>4. CASE page = "live"
  <2>1. watched \in Jobs
    BY <1>0, <1>4 DEF PageTypes
  <2>2. Won(watched) => Won(watched)'
    BY <1>1, <2>1, RowStep DEF RowGoal, Won
  <2>3. worker[watched] = "done" => worker'[watched'] = "done"
    BY <1>1, <2>1, RowStep DEF RowGoal
  <2> QED
    BY <1>0, <1>1, <1>2, <1>4, <2>1, <2>2, <2>3 DEF StreamGoal, StreamOfJob, Won
<1> QED
  BY <1>3, <1>4

\* An event for the page.
LEMMA EmitFact ==
  ASSUME ConsoleInv, ConsoleNext, NEW i \in Jobs, NEW e \in Events, Emit(i, e),
         UNCHANGED <<page, watched, stream, streamed, mounted, rerender, detail, row>>,
         Len(channel) <= MaxEvents,
         e = "completed" => Won(i)',
         e # "eof" => ~Won(i) /\ Len(channel) < MaxEvents,
         e = "eof" => worker'[i] = "done"
  PROVE  StreamGoal
<1> USE Words
<1>0. StreamTypes /\ StreamOfJob /\ StreamEndsWithJob /\ PageTypes
  BY TypeParts DEF ConsoleInv
<1>1. CASE ~(stream = "open" /\ watched = i)
  <2>1. channel' = channel
    BY <1>1 DEF Emit
  <2> QED
    BY <2>1, StreamFrame DEF streamVars
<1>2. CASE stream = "open" /\ watched = i
  <2>1. channel' = Append(channel, e) /\ channel \in Seq(Events)
    BY <1>0, <1>2 DEF Emit, StreamTypes
  <2>2. /\ channel' \in Seq(Events) /\ Len(channel') = Len(channel) + 1 /\ Len(channel) \in Nat
        /\ \A k \in 1..Len(channel') : channel'[k] = IF k <= Len(channel) THEN channel[k] ELSE e
    BY <2>1
  <2>3. Won(i) => Won(i)'
    BY RowStep DEF RowGoal
  <2>4. Len(channel) + 1 <= MaxEvents + 1 /\ (Len(channel) + 1 > MaxEvents => e = "eof")
    <3> HIDE DEF Events
    <3>1. e # "eof" => Len(channel) + 1 <= MaxEvents
      BY <2>2
    <3> QED
      BY <2>2, <3>1
  <2>5. StreamTypes' /\ StreamEndsWithJob'
    BY <1>0, <1>2, <2>2, <2>4 DEF StreamTypes, StreamEndsWithJob
  <2>6. \A k \in 1..Len(channel') : channel'[k] = "completed" => Won(i)'
    <3> TAKE k \in 1..Len(channel')
    <3>1. CASE k <= Len(channel)
      <4>1. k \in 1..Len(channel) /\ channel'[k] = channel[k]
        BY <2>2, <3>1
      <4> QED
        BY <1>0, <1>2, <2>3, <4>1 DEF StreamOfJob
    <3>2. CASE ~(k <= Len(channel))
      BY <2>2, <3>2
    <3> QED
      BY <3>1, <3>2
  <2>7. streamed = "completed" /\ mounted = watched =>
          Won(i)' /\ \A k \in 1..Len(channel') : channel'[k] = "eof"
    <3> SUFFICES ASSUME streamed = "completed", mounted = watched
                 PROVE  Won(i)' /\ \A k \in 1..Len(channel') : channel'[k] = "eof"
      OBVIOUS
    <3>1. Won(i) /\ \A k \in 1..Len(channel) : channel[k] = "eof"
      BY <1>0, <1>2 DEF StreamOfJob
    <3>2. e = "eof"
      BY <3>1
    <3> QED
      BY <2>2, <2>3, <3>1, <3>2
  <2>8. Won(watched)' = Won(i)'
    BY <1>2 DEF Won
  <2> HIDE DEF Events
  <2> QED
    BY <1>0, <1>2, <2>2, <2>4, <2>5, <2>6, <2>7, <2>8 DEF StreamGoal, StreamOfJob
<1> QED
  BY <1>1, <1>2

\* A step after which no event is under way, on a page that stays.
LEMMA QuietFact ==
  ASSUME ConsoleInv, ConsoleNext, page = "live", UNCHANGED <<page, streamed>>, channel' = <<>>,
         watched' \in Jobs,
         \/ mounted' = mounted /\ watched' = watched
         \/ mounted' = 0,
         stream' \in {None, "connecting", "open"}, rerender' \in BOOLEAN,
         detail'[watched'] \in Ended => stream' = None
  PROVE  StreamGoal
<1> USE Words
<1>0. StreamTypes /\ StreamOfJob /\ PageTypes
  BY TypeParts DEF ConsoleInv
<1>1. channel' \in Seq(Events) /\ Len(channel') = 0
  OBVIOUS
<1>2. StreamTypes' /\ StreamEndsWithJob'
  BY <1>0, <1>1 DEF StreamTypes, StreamEndsWithJob
<1>3. mounted' = watched' => mounted = watched /\ watched' = watched
  OBVIOUS
<1>4. watched' = watched => (Won(watched) => Won(watched)')
  BY RowStep DEF RowGoal, Won
<1>5. mounted' # 0 => mounted' = watched'
  BY <1>0 DEF StreamOfJob
<1>6. streamed' = "completed" /\ mounted' = watched' => Won(watched)'
  BY <1>0, <1>3, <1>4 DEF StreamOfJob
<1> QED
  BY <1>1, <1>2, <1>5, <1>6 DEF StreamGoal, StreamOfJob

\* A page that has just begun, or none.
LEMMA FreshFact ==
  ASSUME ConsoleInv, ConsoleNext, channel' = <<>>, streamed' = None, rerender' = FALSE,
         \/ page' = "live" /\ watched' \in Jobs /\ mounted' = watched'
         \/ page' = "list" /\ stream' = None /\ mounted' = 0,
         stream' \in {None, "connecting"},
         page' = "live" /\ detail'[watched'] \in Ended => stream' = None
  PROVE  StreamGoal
<1> USE Words
<1>1. channel' \in Seq(Events) /\ Len(channel') = 0 /\ 0 <= MaxEvents + 1
  OBVIOUS
<1>2. StreamTypes'
  BY <1>1 DEF StreamTypes
<1>3. StreamEndsWithJob'
  BY DEF StreamEndsWithJob
<1> QED
  BY <1>1, <1>2, <1>3 DEF StreamGoal, StreamOfJob

\* An event or the end of the stream is taken in.
LEMMA DeliverFact ==
  ASSUME ConsoleInv, ConsoleNext, Deliver
  PROVE  StreamGoal
<1> USE Words
<1>0. StreamTypes /\ StreamOfJob /\ PageTypes /\ StreamEndsWithJob
  BY TypeParts DEF ConsoleInv
<1>1. /\ UNCHANGED <<page, watched, mounted, detail, row, worker>> /\ page = "live" /\ watched \in Jobs
      /\ stream = "open" /\ rerender' = TRUE
      /\ channel \in Seq(Events) /\ channel # <<>> /\ Len(channel) <= MaxEvents + 1
  BY <1>0 DEF Deliver, StreamTypes, PageTypes, jobVars
<1>2. Len(channel) \in Nat /\ Len(channel) >= 1 /\ Head(channel) = channel[1]
  BY <1>1
<1>3. detail[watched] \notin Ended
  BY <1>0, <1>1 DEF StreamEndsWithJob
<1>4. CASE Head(channel) = "running" /\ streamed' = "running" /\ channel' = Tail(channel) /\ stream' = stream
  <2>1. /\ channel' \in Seq(Events) /\ Len(channel') = Len(channel) - 1 /\ Len(channel') <= MaxEvents
        /\ \A k \in 1..Len(channel') : k + 1 \in 1..Len(channel) /\ channel'[k] = channel[k + 1]
    BY <1>1, <1>2, <1>4
  <2>2. StreamTypes' /\ StreamEndsWithJob'
    BY <1>0, <1>1, <1>3, <1>4, <2>1 DEF StreamTypes, StreamEndsWithJob
  <2>3. \A k \in 1..Len(channel') : channel'[k] = "completed" => Won(watched)'
    BY <1>0, <1>1, <2>1 DEF StreamOfJob, Won
  <2> HIDE DEF Events
  <2> QED
    BY <1>0, <1>1, <1>4, <2>1, <2>2, <2>3 DEF StreamGoal, StreamOfJob
<1>5. CASE Head(channel) = "completed" /\ streamed' = "completed" /\ stream' = None /\ channel' = <<>>
  <2>1. Won(watched)'
    BY <1>0, <1>1, <1>2, <1>5 DEF StreamOfJob, Won
  <2>2. channel' \in Seq(Events) /\ Len(channel') = 0
    BY <1>5
  <2>3. StreamTypes' /\ StreamEndsWithJob'
    BY <1>0, <1>1, <1>5, <2>2 DEF StreamTypes, StreamEndsWithJob
  <2> QED
    BY <1>0, <1>1, <1>5, <2>1, <2>2, <2>3 DEF StreamGoal, StreamOfJob
<1>6. CASE Head(channel) = "eof" /\ stream' = "connecting" /\ channel' = <<>> /\ streamed' = streamed
  BY <1>1, <1>3, <1>6, QuietFact
<1> QED
  BY <1>4, <1>5, <1>6 DEF Deliver

\* Every step keeps what the live page hears.
LEMMA StreamStep ==
  ASSUME ConsoleInv, ConsoleNext
  PROVE  StreamGoal
<1> USE Words
<1>0. StreamTypes /\ StreamOfJob /\ PageTypes /\ StreamEndsWithJob /\ JobTypes /\ JobsKnown /\ QueryTypes
  BY TypeParts DEF ConsoleInv
<1>1. ASSUME NEW i \in Jobs, Progress(i) PROVE StreamGoal
  <2>1. ~Won(i) /\ Emit(i, "running") /\ Len(channel) < MaxEvents
        /\ UNCHANGED <<page, watched, stream, streamed, mounted, rerender, detail, row>>
    BY <1>0, <1>1 DEF Progress, Won, Room, ServerOnly, queryVars
  <2>2. Len(channel) <= MaxEvents
    BY <1>0, <2>1 DEF StreamTypes
  <2> QED
    BY <2>1, <2>2, EmitFact DEF Events
<1>2. ASSUME NEW i \in Jobs, Succeed(i) PROVE StreamGoal
  <2>1. ~Won(i) /\ Emit(i, "completed") /\ Len(channel) < MaxEvents /\ worker' = [worker EXCEPT ![i] = "succeeded"]
        /\ UNCHANGED <<page, watched, stream, streamed, mounted, rerender, detail, row>>
    BY <1>0, <1>2 DEF Succeed, Won, Room, ServerOnly, queryVars
  <2>2. Len(channel) <= MaxEvents /\ Won(i)'
    BY <1>0, <2>1 DEF StreamTypes, JobTypes, Won
  <2> QED
    BY <2>1, <2>2, EmitFact DEF Events
<1>3. ASSUME NEW i \in Jobs, EndJob(i) PROVE StreamGoal
  <2>1. Emit(i, "eof") /\ worker[i] = "closing" /\ worker' = [worker EXCEPT ![i] = "done"]
        /\ UNCHANGED <<page, watched, stream, streamed, mounted, rerender, detail, row>>
    BY <1>3 DEF EndJob, ServerOnly, queryVars
  <2>2. worker'[i] = "done"
    BY <1>0, <2>1 DEF JobTypes
  <2>3. CASE stream = "open" /\ watched = i
    <3>1. Len(channel) <= MaxEvents
      BY <1>0, <2>1, <2>3 DEF StreamTypes, StreamOfJob
    <3> QED
      BY <2>1, <2>2, <3>1, EmitFact DEF Events
  <2>4. CASE ~(stream = "open" /\ watched = i)
    BY <2>1, <2>4, StreamFrame DEF Emit, streamVars
  <2> QED
    BY <2>3, <2>4
<1>4. ASSUME NEW i \in Jobs, ReceivePoll(i) PROVE StreamGoal
  <2>1. UNCHANGED <<page, watched>> /\ detail' = [detail EXCEPT ![i] = poll[i]]
    BY <1>4 DEF ReceivePoll
  <2>2. CASE page = "live" /\ watched = i /\ Reopen(poll[i]) /\ UNCHANGED <<streamed, mounted>>
    <3>1. detail'[watched'] = poll[i]
      BY <1>0, <2>1, <2>2 DEF QueryTypes
    <3> QED
      BY <2>1, <2>2, <3>1, QuietFact DEF Reopen
  <2>3. CASE (page # "live" \/ watched # i \/ detail[i] = poll[i]) /\ UNCHANGED streamVars
    <3>1. page = "live" => detail'[watched] = detail[watched]
      BY <1>0, <2>1, <2>3 DEF QueryTypes, PageTypes
    <3>2. CASE detail' = detail
      BY <2>1, <2>3, <3>2, StreamFrame
    <3>3. StreamTypes' /\ StreamEndsWithJob'
      BY <1>0, <2>1, <2>3, <3>1 DEF StreamTypes, StreamEndsWithJob, streamVars
    <3>4. UNCHANGED <<row, worker>>
      BY <1>4 DEF ReceivePoll, jobVars
    <3>5. StreamOfJob'
      BY <1>0, <2>1, <2>3, <3>4 DEF StreamOfJob, Won, streamVars
    <3> QED
      BY <3>3, <3>5 DEF StreamGoal
  <2> QED
    BY <1>4, <2>2, <2>3 DEF ReceivePoll
<1>5. CASE Connect \/ RefuseStream
  <2>1. /\ stream = "connecting" /\ UNCHANGED <<page, watched, streamed, mounted, detail, channel>> /\ rerender' = TRUE
        /\ stream' \in {"open", None}
    BY <1>5 DEF Connect, RefuseStream, queryVars
  <2>2. page = "live" /\ channel = <<>> /\ watched \in Jobs /\ detail[watched] \notin Ended
    BY <1>0, <2>1 DEF StreamTypes, StreamOfJob, StreamEndsWithJob, PageTypes
  <2> QED
    BY <2>1, <2>2, QuietFact
<1>6. CASE Deliver
  BY <1>6, DeliverFact
<1>7. CASE Break
  <2>1. /\ stream = "open" /\ UNCHANGED <<page, watched, streamed, mounted, detail>> /\ rerender' = TRUE
        /\ stream' = "connecting" /\ channel' = <<>>
    BY <1>7 DEF Break, queryVars
  <2>2. page = "live" /\ watched \in Jobs /\ detail[watched] \notin Ended
    BY <1>0, <2>1 DEF StreamTypes, StreamOfJob, StreamEndsWithJob, PageTypes
  <2> QED
    BY <2>1, <2>2, QuietFact
<1>8. CASE Rerender
  <2>1. rerender /\ Reopen(detail[watched]) /\ UNCHANGED <<page, watched, streamed, mounted, detail>>
    BY <1>8 DEF Rerender, queryVars
  <2>2. page = "live" /\ watched \in Jobs
    BY <1>0, <2>1 DEF StreamOfJob, PageTypes
  <2> QED
    BY <2>1, <2>2, QuietFact DEF Reopen
<1>9. ASSUME NEW i \in Jobs, GoLive(i) PROVE StreamGoal
  BY <1>9, FreshFact DEF GoLive, MountLive
<1>10. ASSUME NEW i \in Jobs, FinishLaunch(i) PROVE StreamGoal
  <2>1. CASE page = "live"
    BY <1>10, <2>1, QuietFact DEF FinishLaunch, Reopen
  <2>2. CASE page # "live"
    BY <1>10, <2>2, FreshFact DEF FinishLaunch, MountLive
  <2> QED
    BY <2>1, <2>2
<1>11. CASE GoList
  BY <1>11, FreshFact DEF GoList
<1>12. CASE GoNew
  <2>1. UNCHANGED <<streamVars, watched, detail, row, worker>> /\ page = "list" /\ page' = "new"
    BY <1>12 DEF GoNew, queryVars, jobVars
  <2>2. stream = None /\ channel = <<>>
    BY <1>0, <2>1 DEF StreamTypes, StreamOfJob
  <2>3. StreamTypes' /\ StreamEndsWithJob'
    BY <1>0, <2>1, <2>2 DEF StreamTypes, StreamEndsWithJob, streamVars
  <2>4. StreamOfJob'
    BY <1>0, <2>1, <2>2 DEF StreamOfJob, Won, streamVars
  <2> QED
    BY <2>3, <2>4 DEF StreamGoal
<1>13. CASE UNCHANGED <<page, watched, streamVars, detail>>
  BY <1>13, StreamFrame
<1>14. ASSUME NEW i \in Jobs, Begin(i) \/ Fail(i) \/ Settle(i) PROVE UNCHANGED <<page, watched, streamVars, detail>>
  BY <1>14 DEF Begin, Fail, Settle, ServerOnly, queryVars, streamVars
<1>15. ASSUME NEW i \in Jobs, PollTimer(i) \/ AnswerPoll(i) \/ SubmitCancel(i)
       PROVE  UNCHANGED <<page, watched, streamVars, detail>>
  BY <1>15 DEF PollTimer, AnswerPoll, SubmitCancel, queryVars
<1>16. ASSUME NEW i \in Jobs, StartMigration(i) \/ RefuseLaunch(i) \/ SubmitLaunch(i) \/ FailLaunch(i)
       PROVE  UNCHANGED <<page, watched, streamVars, detail>>
  BY <1>16 DEF StartMigration, RefuseLaunch, SubmitLaunch, FailLaunch, queryVars
<1>17. ASSUME NEW c \in Conns, ChooseSource(c) \/ ChooseTarget(c) PROVE UNCHANGED <<page, watched, streamVars, detail>>
  BY <1>17 DEF ChooseSource, ChooseTarget, OnWizard, queryVars
<1>18. CASE FinishCancel \/ ServeCancel \/ ListTimer \/ AnswerList \/ ReceiveList \/ Refresh
  BY <1>13, <1>18 DEF FinishCancel, ServeCancel, ListTimer, AnswerList, ReceiveList, Refresh, queryVars
<1>19. CASE ChooseTable \/ NextStep \/ BackStep
  BY <1>13, <1>19 DEF ChooseTable, NextStep, BackStep, OnWizard, queryVars
<1> QED
  BY <1>1, <1>2, <1>3, <1>4, <1>5, <1>6, <1>7, <1>8, <1>9, <1>10, <1>11, <1>12, <1>13, <1>14, <1>15, <1>16, <1>17,
     <1>18, <1>19 DEF ConsoleNext

\* The inductive invariant always holds.
LEMMA ConsoleInvHolds == ConsoleSpec => []ConsoleInv
<1> USE Words
<1>1. ConsoleInit => ConsoleInv
  <2> SUFFICES ASSUME ConsoleInit PROVE ConsoleInv
    OBVIOUS
  <2>1. JobTypes /\ PageTypes /\ BoundTypes
    BY DEF ConsoleInit, JobTypes, PageTypes, BoundTypes, Unlisted, Mounted, Wizards
  <2>2. QueryTypes
    BY DEF ConsoleInit, QueryTypes, ListFetch, NoFetch, Unlisted
  <2>3. channel \in Seq(Events) /\ Len(channel) = 0 /\ 0 <= MaxEvents + 1
    BY DEF ConsoleInit
  <2>4. StreamTypes
    BY <2>3 DEF ConsoleInit, StreamTypes
  <2>5. launch \in [Jobs -> LaunchRecord] /\ \A i \in Jobs : launch[i].step = "none" /\ launch[i].table = launch[i].source
    BY DEF ConsoleInit, LaunchRecord, NoLaunch
  <2>6. cancel \in CancelRecord /\ cancel.step = "none"
    BY DEF ConsoleInit, CancelRecord, NoCancel
  <2>7. ConsoleTypeOK
    BY <2>1, <2>2, <2>4, <2>5, <2>6, TypeParts
  <2>8. JobsKnown
    BY <2>5, <2>6 DEF ConsoleInit, JobsKnown, NoCancel, Unlisted
  <2>9. EndsRead /\ TableKnown
    BY DEF ConsoleInit, EndsRead, TableKnown, Unlisted, Mounted
  <2>11. ListKnown
    BY DEF ConsoleInit, ListKnown, NoFetch, Unlisted
  <2>10. StreamOfJob /\ StreamEndsWithJob
    BY <2>3 DEF ConsoleInit, StreamOfJob, StreamEndsWithJob
  <2> QED
    BY <2>5, <2>7, <2>8, <2>9, <2>10, <2>11 DEF ConsoleInv, TableOfSource
<1>2. ConsoleInv /\ [ConsoleNext]_consoleVars => ConsoleInv'
  <2> SUFFICES ASSUME ConsoleInv, [ConsoleNext]_consoleVars PROVE ConsoleInv'
    OBVIOUS
  <2>1. CASE UNCHANGED consoleVars
    BY <2>1 DEF ConsoleInv, consoleVars, jobVars, streamVars, queryVars, bounds, ConsoleTypeOK, JobsKnown, ListKnown, EndsRead, StreamOfJob,
                StreamEndsWithJob, TableKnown, TableOfSource, Won
  <2>2. CASE ConsoleNext
    <3>1. RowGoal /\ PollGoal /\ LaunchGoal /\ PageGoal /\ RestGoal /\ StreamGoal /\ EndsRead'
      BY <2>2, RowStep, PollStep, LaunchStep, PageStep, RestStep, StreamStep, EndsReadStep
    <3>2. JobTypes /\ QueryTypes /\ JobsKnown /\ PageTypes
      BY TypeParts DEF ConsoleInv
    <3>a. ListKnown /\ listed \in [Jobs -> Statuses \cup {None}] /\ listPoll \in ListFetch
      BY <3>2 DEF ConsoleInv, QueryTypes
    <3>b. listed' \in [Jobs -> Statuses \cup {None}] /\ \A j \in Jobs : row'[j] = None => listed'[j] = None
      BY <3>1, <3>2, <3>a DEF RowGoal, RestGoal, ListGoal, ListKnown, ListFetch, QueryTypes
    <3>c. ListKnown'
      BY <3>1, <3>a DEF RowGoal, RestGoal, ListGoal, ListKnown, Unlisted
    <3>3. QueryTypes'
      BY <3>1, <3>2, <3>b DEF QueryTypes, RowGoal, PollGoal, RestGoal, ListGoal, JobTypes, JobsKnown
    <3>4. ConsoleTypeOK'
      <4>1. JobTypes' /\ PageTypes' /\ QueryTypes' /\ StreamTypes' /\ BoundTypes'
            /\ launch' \in [Jobs -> LaunchRecord] /\ cancel' \in CancelRecord
        BY <3>1, <3>3 DEF RowGoal, LaunchGoal, PageGoal, RestGoal, CancelGoal, StreamGoal
      <4> QED
        BY <4>1 DEF ConsoleTypeOK, JobTypes, PageTypes, QueryTypes, StreamTypes, BoundTypes, LaunchRecord, CancelRecord, Events, ListFetch
    <3>5. JobsKnown'
      <4>1. watched' # 0 => row'[watched'] # None
        BY <3>1, <3>2 DEF RowGoal, PageGoal, PageTypes, JobsKnown
      <4>2. \A j \in Jobs : poll'[j] # "idle" => row'[j] # None
        BY <3>1, <3>2 DEF RowGoal, PollGoal, JobsKnown
      <4> QED
        BY <3>1, <4>1, <4>2 DEF JobsKnown, RowGoal, LaunchGoal, RestGoal, CancelGoal
    <3> QED
      BY <3>1, <3>4, <3>5, <3>c DEF ConsoleInv, StreamGoal, PageGoal, LaunchGoal, TableOfSource
  <2> QED
    BY <2>1, <2>2
<1> QED
  BY <1>1, <1>2, PTL DEF ConsoleSpec

\* Whatever the pages, the polls, the stream and the goroutines of any number of
\* jobs do, and however answers are late or lost: an end the live page shows is
\* one the job has had, its subscription ends with the job it knows of, and a job
\* copies a table of its source.
THEOREM ConsoleIsSound == ConsoleSpec => []ConsoleSound
<1> USE Words
<1>1. ConsoleInv => ConsoleSound
  <2> SUFFICES ASSUME ConsoleInv PROVE EndIsReal
    BY DEF ConsoleInv, ConsoleSound
  <2>0. JobTypes /\ JobsKnown /\ StreamOfJob /\ EndsRead /\ PageTypes /\ StreamTypes
    BY TypeParts DEF ConsoleInv
  <2> SUFFICES ASSUME page = "live", mounted = watched, Shown \in Ended
               PROVE  /\ worker[watched] \in {"succeeded", "failed", "closing", "done"}
                      /\ Shown = "completed" => row[watched] \notin {"failed", "cancelled"}
    BY DEF EndIsReal
  <2>1. watched \in Jobs
    BY <2>0 DEF PageTypes
  <2>2. CASE streamed # None
    BY <2>0, <2>1, <2>2 DEF Shown, StreamTypes, StreamOfJob, Won, JobsKnown
  <2>3. CASE streamed = None
    BY <2>0, <2>1, <2>3 DEF Shown, EndsRead, JobsKnown
  <2> QED
    BY <2>2, <2>3
<1> QED
  BY <1>1, ConsoleInvHolds, PTL

\* What the stream has said is only replaced by what it says next, while the page stays.
LEMMA StreamedStep ==
  ASSUME ConsoleNext, page = "live", page' = "live"
  PROVE  streamed' = streamed \/ Deliver
<1>1. ASSUME NEW i \in Jobs, Begin(i) \/ Progress(i) \/ Succeed(i) \/ Fail(i) \/ Settle(i) \/ EndJob(i) PROVE streamed' = streamed
  BY <1>1 DEF Begin, Progress, Succeed, Fail, Settle, EndJob, ServerOnly
<1>2. ASSUME NEW i \in Jobs, PollTimer(i) \/ AnswerPoll(i) \/ ReceivePoll(i) \/ SubmitCancel(i) PROVE streamed' = streamed
  BY <1>2 DEF PollTimer, AnswerPoll, ReceivePoll, SubmitCancel, streamVars
<1>3. ASSUME NEW i \in Jobs, StartMigration(i) \/ RefuseLaunch(i) \/ SubmitLaunch(i) \/ FailLaunch(i) PROVE streamed' = streamed
  BY <1>3 DEF StartMigration, RefuseLaunch, SubmitLaunch, FailLaunch, streamVars
<1>4. ASSUME NEW i \in Jobs, GoLive(i) \/ FinishLaunch(i) PROVE streamed' = streamed
  BY <1>4 DEF GoLive, FinishLaunch
<1>5. ASSUME NEW c \in Conns, ChooseSource(c) \/ ChooseTarget(c) PROVE streamed' = streamed
  BY <1>5 DEF ChooseSource, ChooseTarget, OnWizard, streamVars
<1>6. CASE FinishCancel \/ ServeCancel \/ ListTimer \/ AnswerList \/ ReceiveList \/ Connect \/ RefuseStream \/ Break \/ Rerender
  BY <1>6 DEF FinishCancel, ServeCancel, ListTimer, AnswerList, ReceiveList, Connect, RefuseStream, Break, Rerender, streamVars
<1>7. CASE GoList \/ GoNew \/ Refresh \/ ChooseTable \/ NextStep \/ BackStep
  BY <1>7 DEF GoList, GoNew, Refresh, ChooseTable, NextStep, BackStep, OnWizard, streamVars
<1> QED
  BY <1>1, <1>2, <1>3, <1>4, <1>5, <1>6, <1>7 DEF ConsoleNext

\* Polls that answer late and events that come late never take back an end that the live
\* page of a job has shown.
THEOREM EndsStayShown == ConsoleSpec => NoRegress
<1> USE Words
<1>1. ConsoleInv /\ [ConsoleNext]_consoleVars
        => [(/\ page = "live" /\ page' = "live" /\ watched' = watched /\ visits' = visits
             /\ mounted = watched /\ Shown \in Ended)
               => Shown' = Shown]_consoleVars
  <2> SUFFICES ASSUME ConsoleInv, ConsoleNext, page = "live", page' = "live", watched' = watched,
                      mounted = watched, Shown \in Ended
               PROVE  Shown' = Shown
    OBVIOUS
  <2>0. StreamOfJob /\ EndsRead /\ PageTypes /\ StreamTypes /\ StreamEndsWithJob
    BY TypeParts DEF ConsoleInv
  <2>1. watched \in Jobs
    BY <2>0 DEF PageTypes
  <2>2. CASE streamed # None
    <3>1. streamed = "completed" /\ \A k \in 1..Len(channel) : channel[k] = "eof"
      BY <2>0, <2>2 DEF Shown, StreamTypes, StreamOfJob
    <3>2. Deliver => streamed' = streamed
      <4>1. SUFFICES ASSUME Deliver PROVE streamed' = streamed
        OBVIOUS
      <4>2. channel \in Seq(Events) /\ channel # <<>>
        BY <2>0, <4>1 DEF Deliver, StreamTypes
      <4>3. Head(channel) = channel[1] /\ 1 \in 1..Len(channel)
        BY <4>2
      <4>4. Head(channel) = "eof"
        BY <3>1, <4>3
      <4> QED
        BY <4>1, <4>4 DEF Deliver
    <3>3. streamed' = streamed
      BY <3>2, StreamedStep
    <3> QED
      BY <2>2, <3>3 DEF Shown
  <2>3. CASE streamed = None
    <3>1. detail[watched] \in Ended
      BY <2>3 DEF Shown
    <3>2. streamed' = streamed
      BY <2>0, <3>1, StreamedStep DEF StreamEndsWithJob, Deliver
    <3>3. detail'[watched] = detail[watched]
      BY <2>0, <2>1, <3>1, PollStep DEF PollGoal, EndsRead
    <3> QED
      BY <2>3, <3>2, <3>3 DEF Shown
  <2> QED
    BY <2>2, <2>3
<1> QED
  BY <1>1, ConsoleInvHolds, PTL DEF ConsoleSpec, NoRegress
===============================================================================
