---------------------------- MODULE StreamPipeline ----------------------------
(***************************************************************************)
(* One migration's data path: the producer goroutine started by an          *)
(* adapter's StreamRows, the bounded channels rowCh and errCh, and the      *)
(* consumer loop of Streamer.Stream that writes each batch to the target.   *)
(* Rows are numbered in the order in which the source returns them and the  *)
(* source does not change while it is read.                                 *)
(*                                                                          *)
(* A definition whose name ends in "_" and a word is not part of the        *)
(* specification: it is the definition after it with a bug a programmer     *)
(* could have made, and the properties must tell the two apart.             *)
(***************************************************************************)
EXTENDS Naturals, Sequences, FiniteSets

CONSTANTS MaxRows,     \* bound on the rows of the source table
          BatchSize,   \* rows of a full batch
          ChanCap      \* capacity of rowCh, 4 in every adapter

ASSUME PipelineAssumption == /\ MaxRows \in Nat
                             /\ BatchSize \in Nat \ {0}
                             /\ ChanCap \in Nat \ {0}

VARIABLES \* the job, which no step changes
          sourceRows,   \* rows of the source table
          sourceKind,   \* "sql": Postgres, MySQL, SQLite; or "mongo"
          targetKind,   \* likewise
          ctxDone,      \* the job's context is cancelled
          \* the consumer, Streamer.Stream
          consumer,     \* its step
          ret,          \* what it returned
          held,         \* the batch taken from rowCh and not yet settled, at most one
          migrated,     \* rows counted as migrated
          tableExists,  \* the target table exists
          target,       \* the batches the target has, as the target got them
          \* the producer, the goroutine of StreamRows
          producer,     \* its step
          window,       \* rows the open query has to deliver
          offset,       \* rows fetched in earlier batches
          outgoing,     \* the batch at rowCh <-, at most one
          \* the channels
          rowCh, rowClosed, errCh, errClosed,
          \* history
          sent,         \* every batch that entered rowCh
          readFault,    \* how a read failed: reported on errCh, or silently cut short
          late         \* rows written after the cancellation

job == <<sourceRows, sourceKind, targetKind>>
consumerVars == <<consumer, ret, held, migrated, tableExists, target, late>>
producerVars == <<producer, window, offset, outgoing, sent, readFault>>
channels == <<rowCh, rowClosed, errCh, errClosed>>
vars == <<job, ctxDone, consumerVars, producerVars, channels>>

\* Takes the last batch for a full one.
Slice_Full(n) == [i \in 1..(IF sourceRows <= n THEN 0 ELSE BatchSize) |-> n + i]

\* The next rows of the source, at most one batch, after the first n.
Slice(n) == [i \in 1..(IF sourceRows <= n THEN 0
                       ELSE IF sourceRows - n < BatchSize THEN sourceRows - n
                       ELSE BatchSize) |-> n + i]

Kinds == {"sql", "mongo"}

Init == /\ sourceRows \in 0..MaxRows
        /\ sourceKind \in Kinds
        /\ targetKind \in Kinds
        /\ ctxDone = FALSE
        /\ consumer = "setup"
        /\ ret = "none"
        /\ held = <<>>
        /\ migrated = 0
        /\ tableExists \in (IF targetKind = "mongo" THEN {TRUE} ELSE BOOLEAN)
        /\ target = <<>>
        /\ producer = "off"
        /\ window = <<>>
        /\ offset = 0
        /\ outgoing = <<>>
        /\ rowCh = <<>>
        /\ rowClosed = FALSE
        /\ errCh = <<>>
        /\ errClosed = FALSE
        /\ sent = <<>>
        /\ readFault = "none"
        /\ late = 0

-----------------------------------------------------------------------------
(***************************************************************************)
(* The producer                                                             *)
(***************************************************************************)

\* The return after errCh <- err is missing.
ReportReadError_GoOn ==
    /\ errCh' = Append(errCh, "error")
    /\ readFault' = "reported"
    /\ producer' = "query"
    /\ UNCHANGED <<window, outgoing>>

\* errCh <- err and return, which runs the two deferred closes.
ReportReadError ==
    /\ errCh' = Append(errCh, "error")
    /\ readFault' = "reported"
    /\ producer' = "closing"
    /\ UNCHANGED <<window, outgoing>>

\* Tries the query again for ever.
OpenQuery_Retry ==
    /\ producer = "query"
    /\ ~ctxDone /\ consumer # "returned"
    /\ window' = Slice(offset)
    /\ producer' = "read"
    /\ UNCHANGED <<job, ctxDone, consumerVars, offset, outgoing, sent, readFault, channels>>

\* The context check at the head of the loop and the query for the next batch.
\* It fails when the context is cancelled or Stream, having returned, has closed
\* the source connection; the database may fail it as well.
OpenQuery ==
    /\ producer = "query"
    /\ \/ /\ ~ctxDone /\ consumer # "returned"
          /\ window' = Slice(offset)
          /\ producer' = "read"
          /\ UNCHANGED <<outgoing, errCh, readFault>>
       \/ ReportReadError
    /\ UNCHANGED <<job, ctxDone, consumerVars, offset, sent, rowCh, rowClosed, errClosed>>

\* A full batch is taken for the last one.
ReadRowsSQL_LastFull ==
    /\ producer = "read" /\ sourceKind = "sql"
    /\ producer' = IF window = <<>> THEN "closing" ELSE "send"
    /\ outgoing' = IF window = <<>> THEN <<>> ELSE <<[rows |-> window, last |-> Len(window) <= BatchSize]>>
    /\ window' = <<>>
    /\ UNCHANGED <<job, ctxDone, consumerVars, offset, sent, readFault, channels>>

\* The loop over rows.Next of the SQL adapters.  A Scan error is reported.  When
\* the connection breaks or the context is cancelled Next just returns false, and
\* rows.Err is not asked: the batch is what was read so far.
ReadRowsSQL ==
    /\ producer = "read" /\ sourceKind = "sql"
    /\ \/ \E n \in 0..Len(window) :
            /\ readFault' = IF n < Len(window) THEN "silent" ELSE readFault
            /\ IF n = 0
               THEN producer' = "closing" /\ UNCHANGED outgoing
               ELSE /\ producer' = "send"
                    /\ outgoing' = <<[rows |-> SubSeq(window, 1, n), last |-> n < BatchSize]>>
            /\ window' = <<>>
            /\ UNCHANGED errCh
       \/ ReportReadError
    /\ UNCHANGED <<job, ctxDone, consumerVars, offset, sent, rowCh, rowClosed, errClosed>>

\* A full batch is taken for the last one.
ReadRowsMongo_LastFull ==
    /\ producer = "read" /\ sourceKind = "mongo"
    /\ producer' = "send"
    /\ outgoing' = <<[rows |-> window, last |-> Len(window) <= BatchSize]>>
    /\ window' = <<>>
    /\ UNCHANGED <<job, ctxDone, consumerVars, offset, sent, readFault, channels>>

\* The loop over cursor.Next of the MongoDB adapter.  Here a failure is always
\* reported; the last batch is sent even when it is empty.
ReadRowsMongo ==
    /\ producer = "read" /\ sourceKind = "mongo"
    /\ \/ /\ producer' = "send"
          /\ outgoing' = <<[rows |-> window, last |-> Len(window) < BatchSize]>>
          /\ window' = <<>>
          /\ UNCHANGED <<errCh, readFault>>
       \/ ReportReadError
    /\ UNCHANGED <<job, ctxDone, consumerVars, offset, sent, rowCh, rowClosed, errClosed>>

\* The offset goes on by a row, not by a batch.
SendBatch_Offset ==
    /\ producer = "send"
    /\ Len(rowCh) < ChanCap
    /\ rowCh' = Append(rowCh, outgoing[1])
    /\ sent' = Append(sent, outgoing[1])
    /\ producer' = IF outgoing[1].last THEN "closing" ELSE "query"
    /\ offset' = IF outgoing[1].last THEN offset ELSE offset + 1
    /\ outgoing' = <<>>
    /\ UNCHANGED <<job, ctxDone, consumerVars, window, readFault, rowClosed, errCh, errClosed>>

\* The channel has no bound.
SendBatch_NoBound ==
    /\ producer = "send"
    /\ rowCh' = Append(rowCh, outgoing[1])
    /\ sent' = Append(sent, outgoing[1])
    /\ producer' = IF outgoing[1].last THEN "closing" ELSE "query"
    /\ offset' = IF outgoing[1].last THEN offset ELSE offset + BatchSize
    /\ outgoing' = <<>>
    /\ UNCHANGED <<job, ctxDone, consumerVars, window, readFault, rowClosed, errCh, errClosed>>

\* rowCh <- batch: waits for room, and for nothing else.
SendBatch ==
    /\ producer = "send"
    /\ Len(rowCh) < ChanCap
    /\ rowCh' = Append(rowCh, outgoing[1])
    /\ sent' = Append(sent, outgoing[1])
    /\ producer' = IF outgoing[1].last THEN "closing" ELSE "query"
    /\ offset' = IF outgoing[1].last THEN offset ELSE offset + BatchSize
    /\ outgoing' = <<>>
    /\ UNCHANGED <<job, ctxDone, consumerVars, window, readFault, rowClosed, errCh, errClosed>>

CloseErrCh ==
    /\ producer = "closing"
    /\ errClosed' = TRUE
    /\ producer' = "closingRowCh"
    /\ UNCHANGED <<job, ctxDone, consumerVars, window, offset, outgoing, sent, readFault, rowCh, rowClosed, errCh>>

\* The row channel is never closed.
CloseRowCh_Skip ==
    /\ producer = "closingRowCh"
    /\ producer' = "done"
    /\ UNCHANGED <<job, ctxDone, consumerVars, window, offset, outgoing, sent, readFault, channels>>

CloseRowCh ==
    /\ producer = "closingRowCh"
    /\ rowClosed' = TRUE
    /\ producer' = "done"
    /\ UNCHANGED <<job, ctxDone, consumerVars, window, offset, outgoing, sent, readFault, rowCh, errCh, errClosed>>

-----------------------------------------------------------------------------
(***************************************************************************)
(* The consumer                                                             *)
(***************************************************************************)

\* return, up to the deferred Close of the two connections.
Return(result) == consumer' = "closing" /\ ret' = result

\* Everything before StreamRows: the connections are looked up, decrypted and
\* opened, and a missing SQL table is created.  Errors of the creation, and of
\* the calls that lead to it, are ignored.
Setup ==
    /\ consumer = "setup"
    /\ \/ /\ ~ctxDone
          /\ consumer' = "select"
          /\ producer' = "query"
          /\ tableExists' \in {b \in BOOLEAN : tableExists => b}
          /\ UNCHANGED ret
       \/ /\ Return("error")
          /\ UNCHANGED <<producer, tableExists>>
    /\ UNCHANGED <<job, ctxDone, held, migrated, target, late, window, offset, outgoing, sent, readFault, channels>>

\* The select loop.  Go picks any ready case, so each case is an action; a closed
\* errCh is ready too and does nothing.
SelectDone ==
    /\ consumer = "select" /\ ctxDone
    /\ Return("error")
    /\ UNCHANGED <<job, ctxDone, held, migrated, tableExists, target, late, producerVars, channels>>

SelectBatch ==
    /\ consumer = "select" /\ rowCh # <<>>
    /\ held' = <<Head(rowCh)>>
    /\ rowCh' = Tail(rowCh)
    /\ consumer' = "insert"
    /\ UNCHANGED <<job, ctxDone, ret, migrated, tableExists, target, late, producerVars, rowClosed, errCh, errClosed>>

\* Completed is broadcast and nil returned.
SelectClosed ==
    /\ consumer = "select" /\ rowCh = <<>> /\ rowClosed
    /\ Return("nil")
    /\ UNCHANGED <<job, ctxDone, held, migrated, tableExists, target, late, producerVars, channels>>

SelectError ==
    /\ consumer = "select" /\ errCh # <<>>
    /\ errCh' = Tail(errCh)
    /\ Return("error")
    /\ UNCHANGED <<job, ctxDone, held, migrated, tableExists, target, late, producerVars, rowCh, rowClosed, errClosed>>

\* The insert does not get the job's context.
BeginInsert_Background ==
    /\ consumer = "insert"
    /\ \/ /\ held[1].rows = <<>>
          /\ consumer' = "select"
          /\ held' = <<>>
          /\ UNCHANGED ret
       \/ /\ held[1].rows # <<>> /\ tableExists
          /\ consumer' = "executing"
          /\ UNCHANGED <<ret, held>>
       \/ /\ held[1].rows # <<>> /\ ~tableExists
          /\ Return("error")
          /\ UNCHANGED held
    /\ UNCHANGED <<job, ctxDone, migrated, tableExists, target, late, producerVars, channels>>

\* BulkInsert up to the statement: nothing to do for an empty batch, an error
\* for a cancelled context or a table that is not there.
BeginInsert ==
    /\ consumer = "insert"
    /\ \/ /\ held[1].rows = <<>>
          /\ consumer' = "select"
          /\ held' = <<>>
          /\ UNCHANGED ret
       \/ /\ held[1].rows # <<>> /\ ~ctxDone /\ tableExists
          /\ consumer' = "executing"
          /\ UNCHANGED <<ret, held>>
       \/ /\ held[1].rows # <<>> /\ (ctxDone \/ ~tableExists)
          /\ Return("error")
          /\ UNCHANGED held
    /\ UNCHANGED <<job, ctxDone, migrated, tableExists, target, late, producerVars, channels>>

\* The rows are inserted one by one.
Leftovers_ByRow(rows) == 0..Len(rows)

\* What a failed insert of rows may leave: a SQL statement all or nothing (its
\* acknowledgement can be what was lost), InsertMany any first part.
Leftovers(rows) == IF targetKind = "sql" THEN {0, Len(rows)} ELSE 0..Len(rows)

Write(rows) == /\ target' = IF rows = <<>> THEN target ELSE Append(target, rows)
               /\ late' = IF ctxDone THEN late + Len(rows) ELSE late

\* The batch is counted before the error is looked at.
EndInsert_CountFirst ==
    /\ consumer = "executing"
    /\ migrated' = migrated + Len(held[1].rows)
    /\ \/ /\ Write(held[1].rows)
          /\ held' = <<>>
          /\ consumer' = "select"
          /\ UNCHANGED ret
       \/ /\ \E n \in Leftovers(held[1].rows) : Write(SubSeq(held[1].rows, 1, n))
          /\ Return("error")
          /\ UNCHANGED held
    /\ UNCHANGED <<job, ctxDone, tableExists, producerVars, channels>>

\* The statement ends: the batch is counted and its progress broadcast, or Stream
\* returns the error.
EndInsert ==
    /\ consumer = "executing"
    /\ \/ /\ Write(held[1].rows)
          /\ migrated' = migrated + Len(held[1].rows)
          /\ held' = <<>>
          /\ consumer' = "select"
          /\ UNCHANGED ret
       \/ /\ \E n \in Leftovers(held[1].rows) : Write(SubSeq(held[1].rows, 1, n))
          /\ Return("error")
          /\ UNCHANGED <<held, migrated>>
    /\ UNCHANGED <<job, ctxDone, tableExists, producerVars, channels>>

CloseConnections ==
    /\ consumer = "closing"
    /\ consumer' = "returned"
    /\ UNCHANGED <<job, ctxDone, ret, held, migrated, tableExists, target, late, producerVars, channels>>

-----------------------------------------------------------------------------
\* The cancel function of the job is called.
Cancel ==
    /\ ~ctxDone
    /\ ctxDone' = TRUE
    /\ UNCHANGED <<job, consumerVars, producerVars, channels>>

ProducerStep == \/ OpenQuery \/ ReadRowsSQL \/ ReadRowsMongo
                \/ SendBatch \/ CloseErrCh \/ CloseRowCh

ConsumerStep == \/ Setup \/ SelectDone \/ SelectBatch \/ SelectClosed
                \/ SelectError \/ BeginInsert \/ EndInsert \/ CloseConnections

Next == ProducerStep \/ ConsumerStep \/ Cancel

Spec == Init /\ [][Next]_vars

\* Both goroutines are scheduled and every database call ends, with a result or an
\* error.  Cancel need not happen.
FairSpec == Spec /\ WF_vars(ProducerStep) /\ WF_vars(ConsumerStep)
-----------------------------------------------------------------------------
(***************************************************************************)
(* Properties                                                               *)
(***************************************************************************)

Batches == [rows : Seq(1..sourceRows), last : BOOLEAN]

\* Every variable has its type; the one-place buffers hold at most one element.
TypeOK == /\ sourceRows \in 0..MaxRows
          /\ sourceKind \in Kinds
          /\ targetKind \in Kinds
          /\ ctxDone \in BOOLEAN
          /\ consumer \in {"setup", "select", "insert", "executing", "closing", "returned"}
          /\ ret \in {"none", "nil", "error"}
          /\ held \in Seq(Batches) /\ Len(held) <= 1
          /\ migrated \in Nat
          /\ tableExists \in BOOLEAN
          /\ target \in Seq(Seq(1..sourceRows))
          /\ producer \in {"off", "query", "read", "send", "closing", "closingRowCh", "done"}
          /\ window \in Seq(1..sourceRows)
          /\ offset \in Nat
          /\ outgoing \in Seq(Batches) /\ Len(outgoing) <= 1
          /\ rowCh \in Seq(Batches)
          /\ rowClosed \in BOOLEAN
          /\ errCh \in Seq({"error"})
          /\ errClosed \in BOOLEAN
          /\ sent \in Seq(Batches)
          /\ readFault \in {"none", "reported", "silent"}
          /\ late \in Nat

\* The rows of a source table that the i-th batch of n rows stands for.
RowsOfBatch(i, n) == [k \in 1..n |-> (i - 1) * BatchSize + k]

\* The target is an initial part of the source: batch after batch in source order,
\* no row twice, none left out before the last one, whatever fails, is cancelled
\* or is cut short on the way, and for MongoDB's partial inserts too.
TargetInOrder ==
    \A i \in 1..Len(target) :
        /\ Len(target[i]) \in 1..BatchSize
        /\ target[i] = RowsOfBatch(i, Len(target[i]))
        /\ i < Len(target) => Len(target[i]) = BatchSize

\* A SQL target is left at a batch boundary: what it has of a batch is all of what
\* the producer sent.
WholeBatches ==
    targetKind = "sql" =>
        /\ Len(target) <= Len(sent)
        /\ \A i \in 1..Len(target) : target[i] = sent[i].rows

\* Rows the target has, by TargetInOrder.
TargetRows == IF target = <<>> THEN 0
              ELSE (Len(target) - 1) * BatchSize + Len(target[Len(target)])

\* The migrated count follows the target: exact as long as nothing failed, and
\* after a failed insert never more than the target has nor a batch less.
MigratedTracksTarget ==
    /\ migrated <= TargetRows /\ TargetRows <= migrated + BatchSize
    /\ ret # "error" => migrated = TargetRows

\* A stream that reports success and read its source without a fault has moved the
\* whole table, also when a cancellation came too late to stop it.
CompletedIsComplete ==
    ret = "nil" /\ readFault = "none" => TargetRows = sourceRows /\ migrated = sourceRows

\* A cancellation lets at most the insert that was executing finish.
CancelBounded == late <= BatchSize

\* Rows in memory are bounded whatever the size of the table: the channel, one
\* batch being sent or read and one being written.
MemoryBounded == Len(rowCh) + Len(outgoing) + Len(held)
                 + (IF window = <<>> THEN 0 ELSE 1) <= ChanCap + 2

\* The producer never blocks on errCh and neither channel is used after its close:
\* one error at most, the row channel closed last, both only by an ending producer.
ChannelDiscipline ==
    /\ Len(errCh) <= 1
    /\ rowClosed => errClosed
    /\ producer \in {"query", "read", "send"} => ~errClosed /\ errCh = <<>>

\* What the consumer does with the target and its count is sound, whatever fails.
TargetSound == TargetInOrder /\ WholeBatches /\ MigratedTracksTarget

\* What the two goroutines do with the channels between them is sound.
ChannelsSound == TypeOK /\ MemoryBounded /\ ChannelDiscipline

\* Stream always returns: end of table, error and cancellation all get it out of
\* its loop.
StreamReturns == <>(consumer = "returned")

\* Once Stream has returned the producer ends too, or it waits for ever for room in
\* a channel that nobody reads; this needs a table with more batches than the
\* channel holds.
ProducerEndsOrIsStuck ==
    consumer = "returned" ~>
        \/ producer \in {"off", "done"}
        \/ producer = "send" /\ Len(rowCh) = ChanCap /\ sourceRows >= ChanCap * BatchSize

(***************************************************************************)
(* What the repository's documents say and the code does not do             *)
(***************************************************************************)

\* backend/README.md:254: "Zero-Leak Teardown".  The producer goroutine ends once
\* Stream has returned.
ProducerEnds == consumer = "returned" ~> producer \in {"off", "done"}

\* Docs/testing/Phase_5_Migration_Engine.md:86: "Completed migration writes 100% of
\* rows to target table with matching count".  A reported error apart, a stream
\* that returned nil has written the table.
CompletedWritesAll == ret = "nil" /\ readFault # "reported" => TargetRows = sourceRows

\* Docs/testing/Phase_5_Migration_Engine.md:89: "Database connection errors during
\* migration transition job to `failed` state".  A read error the adapter reported
\* makes Stream return an error, also when nobody cancels.
ReportedErrorFails == readFault = "reported" /\ ~ctxDone => ret # "nil"
=============================================================================
