------------------------------ MODULE RowProofs -------------------------------
(***************************************************************************)
(* Proofs about the two components that carry rows: StreamPipeline, which   *)
(* copies a table, and SchemaStudio, which shows and edits one.             *)
(*                                                                          *)
(* The pipeline is proved about for every length of the table, every batch  *)
(* size and every capacity of the channel. Its inductive invariant has      *)
(* three layers, each proved on top of the ones before it: Shape (types and *)
(* control), Log (what the producer has sent) and Writing with Results      *)
(* (what the consumer has made of it).                                      *)
(*                                                                          *)
(* The studio is proved about for any databases, tables and page sizes and  *)
(* any number of moves, requests, writes of others and faults. Parts is its *)
(* inductive invariant: RowsGood (what is cached, fetched and owed is in    *)
(* the order in which it was read and written), ViewGood, WriteGood (every  *)
(* write was asked for) and DialogGood. A step keeps each of them for       *)
(* reasons of its own; most leave RowsGood through Asks: whatever they      *)
(* fetch has yet to be read.                                                *)
(***************************************************************************)
EXTENDS StreamPipeline, SchemaStudio, SequenceTheorems, FiniteSetTheorems, WellFoundedInduction, TLAPS

\* The i-th batch of n rows: it has n rows, all of them of the source when the
\* source is long enough, and its first m rows are the i-th batch of m rows.
LEMMA RowsFact ==
  ASSUME NEW i \in Nat \ {0}, NEW n \in Nat
  PROVE  /\ RowsOfBatch(i, n) \in Seq(Nat)
         /\ Len(RowsOfBatch(i, n)) = n
         /\ \A k \in 1..n : RowsOfBatch(i, n)[k] = (i - 1) * BatchSize + k
         /\ \A r \in Nat : (i - 1) * BatchSize + n <= r => RowsOfBatch(i, n) \in Seq(1..r)
         /\ \A m \in 0..n : SubSeq(RowsOfBatch(i, n), 1, m) = RowsOfBatch(i, m)
         /\ RowsOfBatch(i, n) = <<>> <=> n = 0
<1> DEFINE base == (i - 1) * BatchSize
<1>1. base \in Nat
  BY PipelineAssumption
<1> DEFINE f(x) == [k \in 1..x |-> base + k]
<1>2. \A x : RowsOfBatch(i, x) = f(x)
  BY DEF RowsOfBatch
<1> HIDE DEF base
<1>3. ASSUME NEW x \in Nat, NEW r \in Nat, base + x <= r PROVE f(x) \in Seq(1..r)
  <2>1. f(x) \in [1..x -> 1..r]
    BY <1>1, <1>3
  <2> QED BY <2>1, SeqDef
<1>4. \A x \in Nat : f(x) \in Seq(Nat) /\ Len(f(x)) = x
  BY <1>1
<1>5. \A m \in 0..n : SubSeq(f(n), 1, m) = f(m)
  BY <1>1, <1>4
<1>6. f(n) = <<>> <=> n = 0
  BY <1>4
<1> QED
  BY <1>2, <1>3, <1>4, <1>5, <1>6 DEF base

\* Which step of a goroutine goes with what it holds and with the two channels.
Control ==
    /\ consumer = "setup" => producer = "off"
    /\ consumer \in {"setup", "select"} => held = <<>>
    /\ consumer \in {"insert", "executing"} => held # <<>>
    /\ consumer \in {"setup", "select", "insert", "executing"} <=> ret = "none"
    /\ producer \in {"off", "query", "send"} => window = <<>>
    /\ producer = "send" <=> outgoing # <<>>
    /\ producer \in {"off", "query", "read", "send"} => errCh = <<>>
    /\ errClosed <=> producer \in {"closingRowCh", "done"}
    /\ rowClosed <=> producer = "done"
    /\ Len(errCh) <= 1
    /\ Len(rowCh) <= ChanCap

\* The first layer: types and control.
Shape == TypeOK /\ Control

\* What a query delivers: at most a batch, and less only at the end of the table.
LEMMA SliceFact ==
  ASSUME sourceRows \in Nat, NEW n \in Nat
  PROVE  /\ Slice(n) \in Seq(1..sourceRows)
         /\ Len(Slice(n)) <= BatchSize
         /\ \A i \in 1..Len(Slice(n)) : Slice(n)[i] = n + i
         /\ Len(Slice(n)) < BatchSize => (n <= sourceRows => n + Len(Slice(n)) = sourceRows)
         /\ n + Len(Slice(n)) <= sourceRows \/ Slice(n) = <<>>
<1> DEFINE m == IF sourceRows <= n THEN 0
                ELSE IF sourceRows - n < BatchSize THEN sourceRows - n ELSE BatchSize
           f == [i \in 1..m |-> n + i]
<1>1. m \in Nat /\ m <= BatchSize /\ (m = 0 \/ n + m <= sourceRows)
      /\ (m < BatchSize => (n <= sourceRows => n + m = sourceRows))
  BY PipelineAssumption
<1>2. Slice(n) = f
  BY DEF Slice
<1> HIDE DEF m
<1>3. f \in [1..m -> 1..sourceRows]
  BY <1>1
<1>4. f \in Seq(1..sourceRows) /\ Len(f) = m
  BY <1>1, <1>3, SeqDef
<1>5. m = 0 => f = <<>>
  BY <1>1, <1>4
<1> QED
  BY <1>1, <1>2, <1>4, <1>5

\* A one-place buffer that is full.
LEMMA SingleFact ==
  ASSUME NEW S, NEW x \in S
  PROVE <<x>> \in Seq(S) /\ Len(<<x>>) = 1 /\ <<x>> # <<>> /\ <<x>>[1] = x
  OBVIOUS

\* The only batch of a one-place buffer, and the first of a channel.
LEMMA PrefixFact ==
  ASSUME NEW S, NEW s \in Seq(S), NEW n \in 0..Len(s)
  PROVE  /\ SubSeq(s, 1, n) \in Seq(S)
         /\ Len(SubSeq(s, 1, n)) = n
         /\ \A i \in 1..n : SubSeq(s, 1, n)[i] = s[i]
  OBVIOUS

\* The first batch of a channel or buffer that has one, and what is behind it.
LEMMA HeadFact ==
  ASSUME NEW s \in Seq(Batches), s # <<>>
  PROVE  /\ s[1] \in Batches /\ s[1].rows \in Seq(1..sourceRows) /\ s[1].last \in BOOLEAN
         /\ Head(s) = s[1] /\ Tail(s) \in Seq(Batches) /\ Len(Tail(s)) = Len(s) - 1
<1>1. Len(s) \in Nat \ {0}
  BY EmptySeq
<1>2. s[1] \in Batches
  BY <1>1
<1> QED
  BY <1>1, <1>2 DEF Batches

\* Types and control hold at the start.
LEMMA ShapeInit == Init => Shape
<1> SUFFICES ASSUME Init PROVE Shape
  OBVIOUS
<1>1. \A S : <<>> \in Seq(S)
  OBVIOUS
<1>2. Len(<<>>) = 0
  OBVIOUS
<1>3. tableExists \in BOOLEAN
  BY DEF Init
<1>4. TypeOK
  <2>1. /\ held \in Seq(Batches) /\ outgoing \in Seq(Batches) /\ rowCh \in Seq(Batches) /\ sent \in Seq(Batches)
        /\ target \in Seq(Seq(1..sourceRows)) /\ window \in Seq(1..sourceRows) /\ errCh \in Seq({"error"})
        /\ Len(held) <= 1 /\ Len(outgoing) <= 1
    BY <1>1, <1>2 DEF Init
  <2> QED
    BY <1>3, <2>1 DEF Init, TypeOK
<1>5. Control
  BY <1>2, PipelineAssumption DEF Init, Control
<1> QED
  BY <1>4, <1>5 DEF Shape

\* Every step of the producer keeps types and control.
LEMMA ProducerShape == Shape /\ ProducerStep => Shape'
<1> SUFFICES ASSUME Shape, ProducerStep PROVE Shape'
  OBVIOUS
<1> USE DEF Shape, job, consumerVars
<1>0. sourceRows \in Nat /\ <<>> \in Seq(1..sourceRows) /\ <<>> \in Seq(Batches) /\ Len(<<>>) = 0
      /\ Append(<<>>, "error") \in Seq({"error"}) /\ Len(Append(<<>>, "error")) = 1
  BY PipelineAssumption DEF TypeOK
<1>b. sourceRows' = sourceRows => Batches' = Batches
  BY DEF Batches
<1>c. \A r \in Seq(1..sourceRows), b \in BOOLEAN : [rows |-> r, last |-> b] \in Batches
  BY DEF Batches
<1>e. ASSUME ReportReadError, errCh = <<>> PROVE errCh' \in Seq({"error"}) /\ Len(errCh') = 1
  BY <1>0, <1>e DEF ReportReadError
<1>r. ASSUME ReportReadError, producer \in {"query", "read"},
             UNCHANGED <<job, ctxDone, consumerVars, offset, sent, rowCh, rowClosed, errClosed>>
      PROVE  Shape'
  <2>1. window' = window /\ outgoing' = outgoing /\ producer' = "closing" /\ readFault' = "reported"
    BY <1>r DEF ReportReadError
  <2>2. errCh' \in Seq({"error"}) /\ Len(errCh') = 1
    BY <1>r, <1>e DEF Control
  <2>3. TypeOK'
    BY <1>r, <1>b, <2>1, <2>2 DEF TypeOK
  <2> QED
    BY <1>r, <2>1, <2>2, <2>3 DEF Control, TypeOK
<1>1. CASE OpenQuery
  <2>1. CASE UNCHANGED errCh
    <3>1. window' \in Seq(1..sourceRows)
      BY <1>1, <2>1, <1>0, SliceFact DEF OpenQuery, TypeOK, ReportReadError
    <3> QED
      BY <1>1, <2>1, <3>1, <1>0, <1>b DEF OpenQuery, ReportReadError, TypeOK, Control
  <2>2. CASE ReportReadError
    BY <1>1, <2>2, <1>r DEF OpenQuery
  <2> QED
    BY <1>1, <2>1, <2>2 DEF OpenQuery
<1>2. CASE ReadRowsSQL
  <2>1. CASE ReportReadError
    BY <1>2, <2>1, <1>r DEF ReadRowsSQL
  <2>2. ASSUME NEW n \in 0..Len(window), n = 0, window' = <<>>, UNCHANGED <<outgoing, errCh>>, producer' = "closing",
               readFault' \in {"silent", readFault}
        PROVE  Shape'
    BY <1>2, <2>2, <1>0, <1>b DEF ReadRowsSQL, TypeOK, Control
  <2>3. ASSUME NEW n \in 0..Len(window), n # 0, window' = <<>>, UNCHANGED errCh, producer' = "send",
               readFault' \in {"silent", readFault},
               outgoing' = <<[rows |-> SubSeq(window, 1, n), last |-> n < BatchSize]>>
        PROVE  Shape'
    <3>1. SubSeq(window, 1, n) \in Seq(1..sourceRows) /\ (n < BatchSize) \in BOOLEAN
      BY DEF TypeOK
    <3>2. outgoing' \in Seq(Batches) /\ Len(outgoing') = 1 /\ outgoing' # <<>>
      BY <1>c, <2>3, <3>1, SingleFact
    <3> QED
      BY <1>2, <2>3, <3>2, <1>0, <1>b DEF ReadRowsSQL, TypeOK, Control
  <2> QED
    BY <1>2, <2>1, <2>2, <2>3 DEF ReadRowsSQL
<1>3. CASE ReadRowsMongo
  <2>1. CASE ReportReadError
    BY <1>3, <2>1, <1>r DEF ReadRowsMongo
  <2>2. CASE ~ReportReadError
    <3>1. window \in Seq(1..sourceRows) /\ (Len(window) < BatchSize) \in BOOLEAN
      BY DEF TypeOK
    <3>2. outgoing' \in Seq(Batches) /\ Len(outgoing') = 1 /\ outgoing' # <<>>
      BY <1>3, <2>2, <1>c, <3>1, SingleFact DEF ReadRowsMongo
    <3>3. /\ producer' = "send" /\ window' = <<>>
          /\ UNCHANGED <<job, ctxDone, consumerVars, offset, sent, readFault, channels>>
      BY <1>3, <2>2 DEF ReadRowsMongo, channels
    <3>4. TypeOK'
      BY <3>2, <3>3, <1>0, <1>b DEF TypeOK, channels
    <3> QED
      BY <1>3, <3>2, <3>3, <3>4, <1>0 DEF ReadRowsMongo, Control, channels
  <2> QED
    BY <2>1, <2>2
<1>4. CASE SendBatch
  <2>0. outgoing \in Seq(Batches) /\ outgoing # <<>>
    BY <1>4 DEF SendBatch, TypeOK, Control
  <2>1. outgoing[1] \in Batches /\ outgoing[1].last \in BOOLEAN
    BY <2>0, HeadFact
  <2>2. rowCh' \in Seq(Batches) /\ sent' \in Seq(Batches) /\ Len(rowCh') <= ChanCap
    BY <1>4, <2>1, PipelineAssumption DEF SendBatch, TypeOK
  <2>3. offset' \in Nat
    BY <1>4, PipelineAssumption DEF SendBatch, TypeOK
  <2> QED
    BY <1>4, <2>1, <2>2, <2>3, <1>0, <1>b DEF SendBatch, TypeOK, Control
<1>5. CASE CloseErrCh
  BY <1>5, <1>b DEF CloseErrCh, TypeOK, Control
<1>6. CASE CloseRowCh
  BY <1>6, <1>b DEF CloseRowCh, TypeOK, Control
<1> QED
  BY <1>1, <1>2, <1>3, <1>4, <1>5, <1>6 DEF ProducerStep

\* Every step of Stream keeps types and control.
LEMMA ConsumerShape == Shape /\ ConsumerStep => Shape'
<1> SUFFICES ASSUME Shape, ConsumerStep PROVE Shape'
  OBVIOUS
<1> USE DEF Shape, job, producerVars, channels
<1>0. sourceRows \in Nat /\ <<>> \in Seq(Batches) /\ Len(<<>>) <= 1
  BY PipelineAssumption DEF TypeOK
<1>b. sourceRows' = sourceRows => Batches' = Batches
  BY DEF Batches
<1>t. held \in Seq(Batches) /\ Len(held) <= 1
  BY DEF TypeOK
<1>h. held # <<>> => held[1].rows \in Seq(1..sourceRows) /\ Len(held[1].rows) \in Nat
  BY HeadFact DEF TypeOK
<1>1. CASE Setup
  <2>1. TypeOK'
    BY <1>1, <1>b DEF Setup, Return, TypeOK
  <2> QED
    BY <1>1, <2>1 DEF Setup, Return, TypeOK, Control
<1>2. CASE SelectDone
  BY <1>2, <1>b DEF SelectDone, Return, TypeOK, Control
<1>3. CASE SelectBatch
  <2>1. rowCh' \in Seq(Batches) /\ Len(rowCh') <= ChanCap
    BY <1>3, HeadFact, PipelineAssumption DEF SelectBatch, TypeOK, Control
  <2>2. held' \in Seq(Batches) /\ Len(held') = 1 /\ held' # <<>>
    BY <1>3, HeadFact, SingleFact DEF SelectBatch, TypeOK
  <2>3. TypeOK'
    BY <1>3, <1>b, <2>1, <2>2 DEF SelectBatch, TypeOK
  <2> QED
    BY <1>3, <2>1, <2>2, <2>3 DEF SelectBatch, Control, TypeOK
<1>4. CASE SelectClosed
  BY <1>4, <1>b DEF SelectClosed, Return, TypeOK, Control
<1>5. CASE SelectError
  <2>0. errCh \in Seq({"error"}) /\ errCh # <<>> /\ errCh' = Tail(errCh) /\ Len(errCh) <= 1
    BY <1>5 DEF SelectError, TypeOK, Control
  <2>1. errCh' \in Seq({"error"}) /\ Len(errCh') = 0 /\ producer \notin {"off", "query", "read", "send"}
    <3>1. errCh' \in Seq({"error"}) /\ Len(errCh') = Len(errCh) - 1
      BY <2>0, HeadTailProperties
    <3>2. Len(errCh) \in Nat \ {0}
      BY <2>0, EmptySeq
    <3> QED
      BY <2>0, <3>1, <3>2 DEF Control
  <2>2. TypeOK'
    BY <1>5, <1>b, <2>1 DEF SelectError, Return, TypeOK
  <2> QED
    BY <1>5, <2>1, <2>2 DEF SelectError, Return, Control, TypeOK
<1>6. CASE BeginInsert
  <2>0. /\ consumer' \in {"select", "executing", "closing"} /\ ret' \in {ret, "error"} /\ (held' = held \/ held' = <<>>)
        /\ UNCHANGED <<job, ctxDone, migrated, tableExists, target, late, producerVars, channels>>
    BY <1>6 DEF BeginInsert, Return
  <2>1. TypeOK'
    <3>1. held' \in Seq(Batches) /\ Len(held') <= 1
      BY <2>0, <1>t, <1>0
    <3> QED
      BY <2>0, <3>1, <1>b DEF TypeOK
  <2> QED
    BY <1>6, <2>1 DEF BeginInsert, Return, Control, TypeOK
<1>7. CASE EndInsert
  <2>0. held # <<>> /\ consumer = "executing"
    BY <1>7 DEF EndInsert, Control
  <2>1. ASSUME NEW r \in Seq(1..sourceRows), Write(r)
        PROVE  target' \in Seq(Seq(1..sourceRows)) /\ late' \in Nat
    <3>1. target \in Seq(Seq(1..sourceRows)) /\ late \in Nat /\ Len(r) \in Nat
      BY DEF TypeOK
    <3>2. Append(target, r) \in Seq(Seq(1..sourceRows))
      BY <3>1
    <3>3. (target' = target \/ target' = Append(target, r)) /\ (late' = late \/ late' = late + Len(r))
      BY <2>1 DEF Write
    <3>4. target' \in Seq(Seq(1..sourceRows))
      BY <3>1, <3>2, <3>3, Zenon
    <3>5. late' \in Nat
      BY <3>1, <3>3
    <3> QED
      BY <3>4, <3>5
  <2>2. \A n \in Leftovers(held[1].rows) : SubSeq(held[1].rows, 1, n) \in Seq(1..sourceRows)
    <3>1. Leftovers(held[1].rows) \subseteq 0..Len(held[1].rows)
      BY <2>0, <1>h DEF Leftovers
    <3>2. ASSUME NEW n \in 0..Len(held[1].rows) PROVE SubSeq(held[1].rows, 1, n) \in Seq(1..sourceRows)
      BY <2>0, <1>h, PrefixFact
    <3> QED
      BY <3>1, <3>2
  <2>3. target' \in Seq(Seq(1..sourceRows)) /\ late' \in Nat
    BY <1>7, <2>0, <2>1, <2>2, <1>h DEF EndInsert
  <2>4. migrated' \in Nat
    BY <1>7, <2>0, <1>h DEF EndInsert, TypeOK
  <2>5. /\ consumer' \in {"select", "closing"} /\ ret' \in {ret, "error"} /\ (held' = held \/ held' = <<>>)
        /\ UNCHANGED <<job, ctxDone, tableExists, producerVars, channels>>
    BY <1>7 DEF EndInsert, Return
  <2>6. TypeOK'
    <3>1. held' \in Seq(Batches) /\ Len(held') <= 1
      BY <2>5, <1>t, <1>0
    <3> QED
      BY <2>3, <2>4, <2>5, <3>1, <1>b DEF TypeOK
  <2> QED
    BY <1>7, <2>6 DEF EndInsert, Return, Control, TypeOK
<1>8. CASE CloseConnections
  BY <1>8, <1>b DEF CloseConnections, TypeOK, Control
<1> QED
  BY <1>1, <1>2, <1>3, <1>4, <1>5, <1>6, <1>7, <1>8 DEF ConsumerStep

\* Types and control always hold.
LEMMA ShapeHolds == Spec => []Shape
<1>1. Shape /\ [Next]_vars => Shape'
  <2> SUFFICES ASSUME Shape, [Next]_vars PROVE Shape'
    OBVIOUS
  <2>1. sourceRows' = sourceRows => Batches' = Batches
    BY DEF Batches
  <2>2. CASE Cancel
    BY <2>1, <2>2 DEF Cancel, Shape, TypeOK, Control, job, consumerVars, producerVars, channels
  <2>3. CASE UNCHANGED vars
    BY <2>1, <2>3 DEF vars, Shape, TypeOK, Control, job, consumerVars, producerVars, channels
  <2> QED
    BY <2>2, <2>3, ProducerShape, ConsumerShape DEF Next
<1> QED
  BY <1>1, ShapeInit, PTL DEF Spec

\* At most a channel of batches and two more are in memory, whatever the size of
\* the table; the producer never blocks on errCh, and neither channel is used
\* after its close (the goroutine of StreamRows, the select of Stream).
THEOREM ChannelsAreSound == Spec => []ChannelsSound
<1>1. Shape => ChannelsSound
  BY PipelineAssumption DEF Shape, ChannelsSound, TypeOK, Control, MemoryBounded, ChannelDiscipline
<1> QED
  BY <1>1, ShapeHolds, PTL

-----------------------------------------------------------------------------
\* The producer has not begun to end, and the consumer not begun to return.
Reading == producer \in {"off", "query", "read", "send"}
Working == consumer \in {"setup", "select", "insert", "executing"}

\* Rows in the batches sent, of which all but the last are full; batches the
\* consumer has taken.
SentRows == IF sent = <<>> THEN 0 ELSE (Len(sent) - 1) * BatchSize + Len(sent[Len(sent)].rows)
Taken == Len(sent) - Len(rowCh)

\* b is the i-th batch of the source, or an initial part of it, and marked as the
\* last exactly when it is not full.
BatchIs(b, i) == /\ b.rows = RowsOfBatch(i, Len(b.rows))
                 /\ Len(b.rows) <= BatchSize
                 /\ b.last <=> Len(b.rows) < BatchSize

\* The second layer, on the producer alone: what was sent is the source, batch by
\* batch; only the last batch may be short, and without a fault it ends where the
\* source ends.
Log ==
  /\ \A i \in 1..Len(sent) : BatchIs(sent[i], i)
  /\ \A i \in 1..Len(sent) : sent[i].last => i = Len(sent) /\ ~Reading
  /\ Reading => offset = Len(sent) * BatchSize /\ offset <= sourceRows
  /\ producer = "off" => sent = <<>>
  /\ producer \in {"off", "query", "read"} => readFault = "none"
  /\ producer = "read" => window = Slice(offset)
  /\ producer = "send" => /\ BatchIs(outgoing[1], Len(sent) + 1)
                          /\ ~outgoing[1].last => readFault = "none" /\ offset + BatchSize <= sourceRows
                          /\ outgoing[1].last /\ readFault = "none" => offset + Len(outgoing[1].rows) = sourceRows
  /\ ~Reading /\ readFault = "none" => SentRows = sourceRows

\* The third layer, on the two together: the channel holds what was sent and not
\* taken; while Stream works the target has what was taken, but for the batch at
\* hand or an empty last one; nothing is written after a cancellation but by the
\* insert that was executing.
Writing ==
  /\ Len(target) <= Taken
  /\ \A i \in 1..Len(rowCh) : rowCh[i] = sent[Taken + i]
  /\ Working => /\ \A i \in 1..Len(target) : target[i] = sent[i].rows
                /\ migrated = TargetRows
  /\ consumer \in {"setup", "select"} => \/ Taken = Len(target)
                                         \/ Taken = Len(target) + 1 /\ sent[Taken].rows = <<>>
  /\ consumer \in {"insert", "executing"} => Taken = Len(target) + 1 /\ held[1] = sent[Taken]
  /\ consumer = "executing" => held[1].rows # <<>>
  /\ ret = "nil" => rowClosed
  /\ late > 0 => ctxDone /\ consumer # "executing"

\* Whole batches, counted in rows.
LEMMA Times ==
  ASSUME NEW k \in Nat
  PROVE  /\ k * BatchSize \in Nat
         /\ (k + 1) * BatchSize = k * BatchSize + BatchSize
         /\ 0 * BatchSize = 0
  BY PipelineAssumption

\* Nothing has been sent at the start.
LEMMA LogInit == Init /\ Shape => Log
<1> SUFFICES ASSUME Init, Shape PROVE Log
  OBVIOUS
<1>1. sent = <<>> /\ Len(sent) = 0 /\ offset = 0 /\ producer = "off" /\ readFault = "none" /\ sourceRows \in Nat
  BY DEF Init, Shape, TypeOK
<1> QED
  BY <1>1, Times DEF Log, Reading

\* One more batch on the list of those sent.
LEMMA AppendFact ==
  ASSUME NEW s \in Seq(Batches), NEW b \in Batches
  PROVE  /\ Len(Append(s, b)) = Len(s) + 1
         /\ Append(s, b) # <<>>
         /\ \A i \in 1..Len(s) : Append(s, b)[i] = s[i]
         /\ Append(s, b)[Len(s) + 1] = b
  OBVIOUS

\* What the query after k full batches delivers, cut short anywhere, is the next
\* batch or its beginning.
LEMMA SliceBatch ==
  ASSUME sourceRows \in Nat, NEW k \in Nat, NEW n \in 0..Len(Slice(k * BatchSize))
  PROVE  SubSeq(Slice(k * BatchSize), 1, n) = RowsOfBatch(k + 1, n)
<1> DEFINE o == k * BatchSize  w == Slice(o)
<1>1. o \in Nat
  BY Times
<1>2. w \in Seq(1..sourceRows) /\ \A i \in 1..Len(w) : w[i] = o + i
  BY <1>1, SliceFact
<1>3. RowsOfBatch(k + 1, n) \in Seq(Nat) /\ Len(RowsOfBatch(k + 1, n)) = n
      /\ \A i \in 1..n : RowsOfBatch(k + 1, n)[i] = o + i
  <2>1. k + 1 \in Nat \ {0} /\ (k + 1) - 1 = k
    OBVIOUS
  <2>2. \A j \in 1..n : RowsOfBatch(k + 1, n)[j] = ((k + 1) - 1) * BatchSize + j
    BY <2>1, RowsFact
  <2> QED
    BY <2>1, <2>2, RowsFact
<1>4. SubSeq(w, 1, n) \in Seq(1..sourceRows) /\ Len(SubSeq(w, 1, n)) = n
      /\ \A i \in 1..n : SubSeq(w, 1, n)[i] = w[i]
  BY <1>2, PrefixFact
<1>n. n \in 0..Len(w) /\ Len(w) \in Nat
  BY <1>2
<1> HIDE DEF o, w
<1>5. SubSeq(w, 1, n) \in Seq(Nat)
  BY <1>4, SeqMonotonic
<1>6. \A i \in 1..Len(SubSeq(w, 1, n)) : SubSeq(w, 1, n)[i] = RowsOfBatch(k + 1, n)[i]
  BY <1>n, <1>2, <1>3, <1>4
<1>7. \A s \in Seq(Nat), t \in Seq(Nat) :
         Len(s) = Len(t) /\ (\A i \in 1..Len(s) : s[i] = t[i]) => s = t
  BY SeqEqual
<1>8. Len(SubSeq(w, 1, n)) = Len(RowsOfBatch(k + 1, n))
  BY <1>3, <1>4
<1> QED
  BY <1>3, <1>5, <1>6, <1>7, <1>8, Zenon DEF o, w

\* Every step of the producer keeps the log of what was sent.
LEMMA LogProducer == Shape /\ Log /\ ProducerStep => Log'
<1> SUFFICES ASSUME Shape, Log, ProducerStep PROVE Log'
  OBVIOUS
<1> USE DEF Log
<1>0. /\ sourceRows \in Nat /\ offset \in Nat /\ sent \in Seq(Batches) /\ Len(sent) \in Nat
      /\ window \in Seq(1..sourceRows) /\ Len(window) \in Nat
  BY DEF Shape, TypeOK
<1>s. ASSUME producer = "send"
      PROVE  /\ outgoing[1] \in Batches /\ Len(outgoing[1].rows) \in Nat /\ outgoing[1].last \in BOOLEAN
             /\ outgoing # <<>>
  BY <1>s, HeadFact, EmptySeq DEF Shape, TypeOK, Control
<1>r. ASSUME ReportReadError, producer \in {"query", "read"},
             UNCHANGED <<job, ctxDone, consumerVars, offset, sent, rowCh, rowClosed, errClosed>>
      PROVE  Log'
  BY <1>r DEF ReportReadError, Reading, SentRows, BatchIs, job
<1>w. producer = "read" =>
        /\ \A n \in 0..Len(window) : SubSeq(window, 1, n) = RowsOfBatch(Len(sent) + 1, n)
        /\ Len(window) <= BatchSize /\ offset = Len(sent) * BatchSize /\ offset <= sourceRows
        /\ Len(window) < BatchSize => offset + Len(window) = sourceRows
        /\ Len(window) = BatchSize => offset + BatchSize <= sourceRows
  <2> SUFFICES ASSUME producer = "read"
               PROVE  /\ \A n \in 0..Len(window) : SubSeq(window, 1, n) = RowsOfBatch(Len(sent) + 1, n)
                      /\ Len(window) <= BatchSize /\ offset = Len(sent) * BatchSize /\ offset <= sourceRows
                      /\ Len(window) < BatchSize => offset + Len(window) = sourceRows
                      /\ Len(window) = BatchSize => offset + BatchSize <= sourceRows
    OBVIOUS
  <2>1. window = Slice(offset) /\ offset = Len(sent) * BatchSize /\ offset <= sourceRows
    BY DEF Reading
  <2>2. \A n \in 0..Len(window) : SubSeq(window, 1, n) = RowsOfBatch(Len(sent) + 1, n)
    BY <1>0, <2>1, SliceBatch
  <2>3. Len(Slice(offset)) <= BatchSize /\ (Len(Slice(offset)) < BatchSize => offset + Len(Slice(offset)) = sourceRows)
        /\ (offset + Len(Slice(offset)) <= sourceRows \/ Slice(offset) = <<>>)
    BY <1>0, <2>1, SliceFact
  <2>4. Len(window) = BatchSize => window # <<>>
    BY <1>0, PipelineAssumption
  <2> QED
    BY <2>1, <2>2, <2>3, <2>4
<1>1. CASE OpenQuery
  <2>1. CASE ReportReadError
    BY <1>1, <1>r, <2>1 DEF OpenQuery
  <2>2. CASE ~ReportReadError
    <3>1. producer = "query" /\ producer' = "read" /\ window' = Slice(offset)
          /\ UNCHANGED <<sourceRows, offset, sent, readFault, outgoing>>
      BY <1>1, <2>2 DEF OpenQuery, job
    <3>2. window' = Slice(offset)'
      BY <3>1 DEF Slice
    <3> QED
      BY <3>1, <3>2 DEF Reading, SentRows, BatchIs
  <2> QED
    BY <2>1, <2>2
<1>n. ASSUME NEW n \in 0..Len(window), producer = "read", producer' = "send", n > 0 \/ sourceKind = "mongo",
             outgoing' = <<[rows |-> SubSeq(window, 1, n), last |-> n < BatchSize]>>,
             readFault' = IF n < Len(window) THEN "silent" ELSE readFault,
             UNCHANGED <<sourceRows, offset, sent>>
      PROVE  Log'
  <2>1. outgoing'[1].rows = RowsOfBatch(Len(sent) + 1, n) /\ outgoing'[1].last = (n < BatchSize)
    BY <1>n, <1>w
  <2>2. Len(RowsOfBatch(Len(sent) + 1, n)) = n
    BY <1>0, RowsFact
  <2>a. n \in Nat /\ n <= Len(window) /\ Len(window) <= BatchSize /\ readFault = "none"
    BY <1>0, <1>n, <1>w DEF Reading
  <2>b. Len(outgoing'[1].rows) = n
    BY <2>1, <2>2
  <2>3. BatchIs(outgoing'[1], Len(sent) + 1)
    <3>1. n <= BatchSize
      BY <1>0, <2>a, PipelineAssumption
    <3> QED
      BY <2>1, <2>b, <3>1 DEF BatchIs
  <2>4. /\ ~outgoing'[1].last => readFault' = "none" /\ offset + BatchSize <= sourceRows
        /\ outgoing'[1].last /\ readFault' = "none" => offset + Len(outgoing'[1].rows) = sourceRows
    <3>1. ~(n < BatchSize) => n = Len(window) /\ Len(window) = BatchSize
      BY <1>0, <2>a, PipelineAssumption
    <3>2. readFault' = "none" => n = Len(window)
      BY <1>0, <1>n, <2>a
    <3>3. n = Len(window) => readFault' = "none"
      BY <1>0, <1>n, <2>a
    <3>4. n < BatchSize /\ n = Len(window) => offset + n = sourceRows
      BY <1>n, <1>w
    <3>5. ~(n < BatchSize) => offset + BatchSize <= sourceRows
      BY <1>n, <1>w, <3>1
    <3> QED
      BY <2>1, <2>b, <3>1, <3>2, <3>3, <3>4, <3>5
  <2> QED
    BY <1>n, <2>3, <2>4 DEF Reading, SentRows, BatchIs
<1>2. CASE ReadRowsSQL
  <2>1. CASE ReportReadError
    BY <1>2, <2>1, <1>r DEF ReadRowsSQL
  <2>2. PICK n \in 0..Len(window) :
          ReportReadError \/
            /\ readFault' = IF n < Len(window) THEN "silent" ELSE readFault
            /\ IF n = 0 THEN producer' = "closing" /\ UNCHANGED outgoing
               ELSE /\ producer' = "send"
                    /\ outgoing' = <<[rows |-> SubSeq(window, 1, n), last |-> n < BatchSize]>>
    BY <1>0, <1>2 DEF ReadRowsSQL
  <2>3. CASE ~ReportReadError /\ n # 0
    BY <1>0, <1>2, <1>n, <2>2, <2>3 DEF ReadRowsSQL, job
  <2>4. CASE ~ReportReadError /\ n = 0
    <3>1. producer = "read" /\ producer' = "closing" /\ UNCHANGED <<sourceRows, offset, sent>>
      BY <1>2, <2>2, <2>4 DEF ReadRowsSQL, job
    <3>2. readFault' = "none" => SentRows = sourceRows
      <4> SUFFICES ASSUME readFault' = "none" PROVE SentRows = sourceRows
        OBVIOUS
      <4>1. Len(window) = 0
        BY <1>0, <2>2, <2>4
      <4>2. Len(sent) * BatchSize = sourceRows
        BY <1>0, <1>w, <3>1, <4>1, PipelineAssumption
      <4>3. CASE sent = <<>>
        BY <1>0, <4>2, <4>3, Times DEF SentRows
      <4>4. CASE sent # <<>>
        <5>1. Len(sent) \in 1..Len(sent) /\ Len(sent) - 1 \in Nat
          BY <1>0, <4>4, EmptySeq
        <5>2. ~sent[Len(sent)].last /\ BatchIs(sent[Len(sent)], Len(sent))
          BY <3>1, <5>1 DEF Reading
        <5>3. sent[Len(sent)].last \in BOOLEAN /\ Len(sent[Len(sent)].rows) \in Nat
          <6>1. sent[Len(sent)] \in Batches
            BY <1>0, <5>1, ElementOfSeq
          <6>2. sent[Len(sent)].last \in BOOLEAN /\ sent[Len(sent)].rows \in Seq(1..sourceRows)
            BY <6>1 DEF Batches
          <6> QED
            BY <6>2
        <5>4. Len(sent[Len(sent)].rows) = BatchSize
          BY <5>2, <5>3, PipelineAssumption DEF BatchIs
        <5>5. (Len(sent) - 1) * BatchSize + BatchSize = Len(sent) * BatchSize
          BY <5>1, Times
        <5> QED
          BY <4>2, <4>4, <5>4, <5>5 DEF SentRows
      <4> QED
        BY <4>3, <4>4
    <3> QED
      BY <3>1, <3>2 DEF Reading, SentRows, BatchIs
  <2> QED
    BY <2>1, <2>3, <2>4
<1>3. CASE ReadRowsMongo
  <2>1. CASE ReportReadError
    BY <1>3, <2>1, <1>r DEF ReadRowsMongo
  <2>2. CASE ~ReportReadError
    <3>1. Len(window) \in 0..Len(window) /\ SubSeq(window, 1, Len(window)) = window
      BY <1>0, SubSeqFull
    <3> QED
      BY <1>3, <2>2, <3>1, <1>n, <1>0 DEF ReadRowsMongo, job
  <2> QED
    BY <2>1, <2>2
<1>4. CASE SendBatch
  <2> DEFINE b == outgoing[1]  k == Len(sent)
  <2>1. /\ producer = "send" /\ sent' = Append(sent, b)
        /\ producer' = IF b.last THEN "closing" ELSE "query"
        /\ offset' = IF b.last THEN offset ELSE offset + BatchSize
        /\ UNCHANGED <<sourceRows, window, readFault>> /\ outgoing' = <<>>
    BY <1>4 DEF SendBatch, job
  <2>2. b \in Batches /\ b.last \in BOOLEAN /\ BatchIs(b, k + 1) /\ k \in Nat /\ Len(b.rows) \in Nat
    BY <1>0, <1>s, <2>1
  <2>3. /\ Len(sent') = k + 1 /\ sent' # <<>> /\ sent'[k + 1] = b
        /\ \A i \in 1..k : sent'[i] = sent[i]
    BY <1>0, <2>1, <2>2, AppendFact
  <2>4. \A i \in 1..Len(sent') : BatchIs(sent'[i], i)
    <3>1. \A i \in 1..(k + 1) : i \in 1..k \/ i = k + 1
      BY <2>2
    <3> QED
      BY <2>2, <2>3, <3>1
  <2>5. \A i \in 1..Len(sent') : sent'[i].last => i = Len(sent') /\ ~Reading'
    <3>1. \A i \in 1..(k + 1) : i \in 1..k \/ i = k + 1
      BY <2>2
    <3>2. \A i \in 1..k : ~sent[i].last
      BY <2>1 DEF Reading
    <3> QED
      BY <2>1, <2>2, <2>3, <3>1, <3>2 DEF Reading
  <2>6. Reading' => offset' = Len(sent') * BatchSize /\ offset' <= sourceRows
    BY <1>0, <2>1, <2>2, <2>3, Times DEF Reading
  <2>7. ~Reading' /\ readFault' = "none" => SentRows' = sourceRows
    <3>1. b.last => offset = k * BatchSize /\ (readFault = "none" => offset + Len(b.rows) = sourceRows)
      BY <2>1 DEF Reading
    <3>2. (k + 1) - 1 = k
      BY <2>2
    <3> QED
      BY <2>1, <2>2, <2>3, <3>1, <3>2 DEF Reading, SentRows
  <2>8. producer' = "query" => readFault' = "none"
    BY <2>1
  <2> QED
    BY <2>1, <2>4, <2>5, <2>6, <2>7, <2>8 DEF Reading, BatchIs
<1>5. CASE CloseErrCh
  BY <1>5 DEF CloseErrCh, Reading, SentRows, BatchIs, job
<1>6. CASE CloseRowCh
  BY <1>6 DEF CloseRowCh, Reading, SentRows, BatchIs, job
<1> QED
  BY <1>1, <1>2, <1>3, <1>4, <1>5, <1>6 DEF ProducerStep

\* Stream only starts the producer, with nothing sent.
LEMMA LogConsumer == Shape /\ Log /\ ConsumerStep => Log'
<1> SUFFICES ASSUME Shape, Log, ConsumerStep PROVE Log'
  OBVIOUS
<1>1. CASE Setup
  <2>1. UNCHANGED <<sourceRows, sent, offset, readFault, window, outgoing>>
        /\ producer = "off" /\ producer' \in {"off", "query"}
    BY <1>1 DEF Setup, Shape, Control, job
  <2> QED
    BY <2>1 DEF Log, Reading, SentRows, BatchIs, Slice
<1>2. CASE ~Setup
  <2>1. UNCHANGED <<sourceRows, producerVars>>
    BY <1>2 DEF ConsumerStep, SelectDone, SelectBatch, SelectClosed, SelectError, BeginInsert, EndInsert,
                CloseConnections, job, producerVars
  <2> QED
    BY <2>1 DEF producerVars, Log, Reading, SentRows, BatchIs, Slice
<1> QED
  BY <1>1, <1>2

\* What was sent is always the source, batch by batch.
LEMMA LogHolds == Spec => []Log
<1>1. Init => Log
  BY LogInit, ShapeInit
<1>2. Shape /\ Log /\ [Next]_vars => Log'
  <2> SUFFICES ASSUME Shape, Log, [Next]_vars PROVE Log'
    OBVIOUS
  <2>1. CASE UNCHANGED <<sourceRows, producerVars>>
    BY <2>1 DEF producerVars, Log, Reading, SentRows, BatchIs, Slice
  <2>2. CASE Cancel \/ UNCHANGED vars
    BY <2>1, <2>2 DEF Cancel, vars, job
  <2> QED
    BY <2>2, LogProducer, LogConsumer DEF Next
<1> QED
  BY <1>1, <1>2, ShapeHolds, PTL DEF Spec

\* What was sent, batch by batch.
LEMMA SentFact ==
  ASSUME Shape, Log, NEW i \in 1..Len(sent)
  PROVE  /\ sent[i] \in Batches /\ Len(sent[i].rows) \in 0..BatchSize
         /\ sent[i].rows \in Seq(1..sourceRows)
         /\ sent[i].rows = RowsOfBatch(i, Len(sent[i].rows))
         /\ i < Len(sent) => Len(sent[i].rows) = BatchSize
<1>1. sent \in Seq(Batches) /\ Len(sent) \in Nat
  BY DEF Shape, TypeOK
<1>2. sent[i] \in Batches
  BY <1>1, ElementOfSeq
<1>3. sent[i].last \in BOOLEAN /\ sent[i].rows \in Seq(1..sourceRows)
  BY <1>2 DEF Batches
<1>4. BatchIs(sent[i], i) /\ (sent[i].last => i = Len(sent))
  BY DEF Log
<1>5. Len(sent[i].rows) \in Nat
  BY <1>3
<1>6. i < Len(sent) => ~sent[i].last
  BY <1>1, <1>4
<1> QED
  BY <1>2, <1>3, <1>4, <1>5, <1>6, PipelineAssumption DEF BatchIs

\* A target whose every batch was followed by another one has full batches only.
LEMMA FullFact ==
  ASSUME Shape, Log, Working, Writing, Len(target) < Len(sent)
  PROVE  TargetRows = Len(target) * BatchSize
<1>1. target \in Seq(Seq(1..sourceRows)) /\ Len(target) \in Nat /\ Len(sent) \in Nat
  BY DEF Shape, TypeOK
<1>2. CASE target = <<>>
  BY <1>2, Times DEF TargetRows
<1>3. CASE target # <<>>
  <2>1. Len(target) \in 1..Len(target) /\ Len(target) \in 1..Len(sent) /\ Len(target) - 1 \in Nat
    BY <1>1, <1>3, EmptySeq
  <2>2. Len(target[Len(target)]) = BatchSize
    BY <2>1, SentFact DEF Writing
  <2>3. (Len(target) - 1) * BatchSize + BatchSize = Len(target) * BatchSize
    BY <2>1, Times
  <2> QED
    BY <1>3, <2>2, <2>3 DEF TargetRows
<1> QED
  BY <1>2, <1>3

\* The target, as far as this job is concerned, is empty at the start.
LEMMA WritingInit == Init => Writing
<1> SUFFICES ASSUME Init PROVE Writing
  OBVIOUS
<1>1. sent = <<>> /\ rowCh = <<>> /\ target = <<>> /\ migrated = 0 /\ consumer = "setup" /\ ret = "none" /\ late = 0
  BY DEF Init
<1>2. Len(<<>>) = 0
  OBVIOUS
<1> QED
  BY <1>1, <1>2 DEF Writing, Taken, TargetRows

\* A step of the producer changes what is in the channel, never what was taken.
LEMMA WritingProducer == Shape /\ Writing /\ ProducerStep => Writing'
<1> SUFFICES ASSUME Shape, Writing, ProducerStep PROVE Writing'
  OBVIOUS
<1>1. UNCHANGED <<consumerVars, ctxDone>> /\ (rowClosed => rowClosed')
  BY DEF ProducerStep, OpenQuery, ReadRowsSQL, ReadRowsMongo, SendBatch, CloseErrCh, CloseRowCh, ReportReadError
<1>0. /\ Len(sent) \in Nat /\ Len(rowCh) \in Nat /\ Len(target) \in Nat
      /\ target \in Seq(Seq(1..sourceRows))
  BY DEF Shape, TypeOK
<1>t. TargetRows' = TargetRows /\ Working' = Working
  BY <1>1 DEF TargetRows, Working, consumerVars
<1>2. CASE SendBatch
  <2> DEFINE b == outgoing[1]
  <2>1. b \in Batches /\ sent' = Append(sent, b) /\ rowCh' = Append(rowCh, b) /\ sent \in Seq(Batches) /\ rowCh \in Seq(Batches)
    BY <1>2, HeadFact, EmptySeq DEF SendBatch, Shape, TypeOK, Control
  <2> HIDE DEF b
  <2>2. /\ Len(sent') = Len(sent) + 1 /\ Len(rowCh') = Len(rowCh) + 1
        /\ sent'[Len(sent) + 1] = b /\ rowCh'[Len(rowCh) + 1] = b
        /\ \A i \in 1..Len(sent) : sent'[i] = sent[i]
        /\ \A i \in 1..Len(rowCh) : rowCh'[i] = rowCh[i]
    BY <2>1, AppendFact
  <2>3. Taken' = Taken /\ Taken \in Nat /\ Taken + Len(rowCh) = Len(sent)
    BY <1>0, <2>2 DEF Taken, Writing
  <2>4. \A i \in 1..Len(rowCh') : rowCh'[i] = sent'[Taken' + i]
    <3>1. \A i \in 1..(Len(rowCh) + 1) : (i \in 1..Len(rowCh) /\ Taken + i \in 1..Len(sent)) \/ i = Len(rowCh) + 1
      BY <1>0, <2>3
    <3>2. Taken + (Len(rowCh) + 1) = Len(sent) + 1
      BY <1>0, <2>3
    <3> QED
      BY <2>2, <2>3, <3>1, <3>2 DEF Writing
  <2>5. \A i \in 1..Len(target) : i \in 1..Len(sent)
    BY <1>0, <2>3 DEF Writing
  <2>6. \A i \in 1..Len(target) : sent'[i] = sent[i]
    BY <2>2, <2>5
  <2>7. Taken > 0 => sent'[Taken] = sent[Taken]
    <3>1. Taken > 0 => Taken \in 1..Len(sent)
      BY <1>0, <2>3
    <3> QED
      BY <2>2, <3>1
  <2>8. Taken = Len(target) + 1 => Taken > 0
    BY <1>0
  <2> QED
    BY <1>1, <1>t, <2>3, <2>4, <2>6, <2>7, <2>8 DEF Writing, Working, consumerVars
<1>3. CASE ~SendBatch
  <2>1. UNCHANGED <<sent, rowCh>>
    BY <1>3 DEF ProducerStep, OpenQuery, ReadRowsSQL, ReadRowsMongo, CloseErrCh, CloseRowCh, ReportReadError, channels
  <2> QED
    BY <1>1, <1>t, <2>1 DEF Writing, Taken, Working, consumerVars
<1> QED
  BY <1>2, <1>3

\* What the select loop takes next is the first batch the target does not have.
LEMMA TakeFact ==
  ASSUME Shape, Log, Writing, SelectBatch
  PROVE  /\ Taken = Len(target) /\ Taken' = Taken + 1 /\ Taken + 1 \in 1..Len(sent)
         /\ held'[1] = sent[Taken + 1]
         /\ Len(rowCh') = Len(rowCh) - 1
         /\ \A i \in 1..Len(rowCh') : rowCh'[i] = sent[Taken' + i]
<1>0. /\ Len(sent) \in Nat /\ Len(rowCh) \in Nat /\ Len(target) \in Nat
      /\ rowCh \in Seq(Batches) /\ rowCh # <<>> /\ sent' = sent
      /\ held' = <<Head(rowCh)>> /\ rowCh' = Tail(rowCh) /\ consumer = "select"
  BY DEF Shape, TypeOK, SelectBatch, producerVars
<1>1. Len(rowCh) > 0 /\ Head(rowCh) = rowCh[1] /\ Len(rowCh') = Len(rowCh) - 1
  BY <1>0, EmptySeq, HeadFact
<1>2. Taken = Len(target)
  <2>1. CASE Taken = Len(target) + 1 /\ sent[Taken].rows = <<>>
    <3>1. Taken \in 1..Len(sent) /\ Taken < Len(sent)
      BY <1>0, <1>1, <2>1 DEF Taken
    <3>2. Len(sent[Taken].rows) = BatchSize
      BY <3>1, SentFact
    <3>3. Len(<<>>) = 0
      OBVIOUS
    <3> QED
      BY <2>1, <3>2, <3>3, PipelineAssumption
  <2> QED
    BY <1>0, <2>1 DEF Writing
<1>3. Taken' = Taken + 1 /\ Taken + 1 \in 1..Len(sent)
  BY <1>0, <1>1, <1>2 DEF Taken
<1>4. held'[1] = sent[Taken + 1]
  BY <1>0, <1>1 DEF Writing
<1>5. \A i \in 1..Len(rowCh') : rowCh'[i] = rowCh[i + 1] /\ i + 1 \in 1..Len(rowCh)
  <2>1. \A i \in 1..Len(Tail(rowCh)) : Tail(rowCh)[i] = rowCh[i + 1]
    BY <1>0, HeadTailProperties
  <2> QED
    BY <1>0, <1>1, <2>1
<1>6. \A i \in 1..Len(rowCh') : Taken' + i = Taken + (i + 1)
  BY <1>0, <1>2, <1>3
<1>7. \A i \in 1..Len(rowCh') : rowCh'[i] = sent[Taken' + i]
  BY <1>5, <1>6 DEF Writing
<1> QED
  BY <1>1, <1>2, <1>3, <1>4, <1>7

\* One insert that leaves the first m rows of the batch at hand.
LEMMA WriteFact ==
  ASSUME Shape, Log, Writing, TargetInOrder, consumer = "executing",
         NEW m \in 0..Len(held[1].rows), Write(SubSeq(held[1].rows, 1, m))
  PROVE  /\ held[1] = sent[Len(target) + 1] /\ Len(target) + 1 \in 1..Len(sent)
         /\ Taken = Len(target) + 1 /\ Len(held[1].rows) \in 1..BatchSize
         /\ TargetInOrder'
         /\ TargetRows = Len(target) * BatchSize /\ TargetRows' = TargetRows + m
         /\ m = 0 => target' = target
         /\ m > 0 => /\ Len(target') = Len(target) + 1
                     /\ target'[Len(target) + 1] = SubSeq(held[1].rows, 1, m)
                     /\ \A i \in 1..Len(target) : target'[i] = target[i]
         /\ late' <= BatchSize /\ late' \in Nat /\ (late' > 0 => ctxDone)
<1> DEFINE k == Len(target)  r == held[1].rows  p == SubSeq(r, 1, m)
<1>0. /\ Len(sent) \in Nat /\ Len(rowCh) \in Nat /\ k \in Nat /\ target \in Seq(Seq(1..sourceRows))
      /\ late \in Nat
  BY DEF Shape, TypeOK
<1>1. Taken = k + 1 /\ held[1] = sent[k + 1] /\ k + 1 \in 1..Len(sent) /\ k < Len(sent) /\ r # <<>>
  <2>1. Taken = k + 1 /\ held[1] = sent[Taken] /\ r # <<>>
    BY DEF Writing
  <2> QED
    BY <1>0, <2>1 DEF Taken
<1>2. Len(r) \in 1..BatchSize /\ r = RowsOfBatch(k + 1, Len(r)) /\ r \in Seq(1..sourceRows)
  <2>1. Len(r) \in 0..BatchSize /\ r = RowsOfBatch(k + 1, Len(r)) /\ r \in Seq(1..sourceRows)
    BY <1>1, SentFact
  <2>2. Len(r) # 0
    BY <1>1, <2>1, EmptySeq
  <2> QED
    BY <2>1, <2>2, PipelineAssumption
<1>3. p = RowsOfBatch(k + 1, m) /\ Len(p) = m /\ p \in Seq(1..sourceRows) /\ m \in Nat /\ m <= BatchSize
      /\ (p = <<>> <=> m = 0)
  <2>1. k + 1 \in Nat \ {0} /\ Len(r) \in Nat /\ m \in 0..Len(r) /\ m \in Nat /\ m <= BatchSize
    BY <1>0, <1>2, PipelineAssumption
  <2>2. SubSeq(RowsOfBatch(k + 1, Len(r)), 1, m) = RowsOfBatch(k + 1, m)
    BY <2>1, RowsFact
  <2>3. p = RowsOfBatch(k + 1, m)
    BY <1>2, <2>2
  <2>4. Len(RowsOfBatch(k + 1, m)) = m /\ (RowsOfBatch(k + 1, m) = <<>> <=> m = 0)
    BY <2>1, RowsFact
  <2> QED
    BY <1>2, <2>1, <2>3, <2>4, PrefixFact
<1>4. TargetRows = k * BatchSize
  BY <1>1, FullFact DEF Working
<1>5. \A i \in 1..k : Len(target[i]) = BatchSize
  <2>1. \A i \in 1..k : i \in 1..Len(sent) /\ i < Len(sent) /\ target[i] = sent[i].rows
    BY <1>0, <1>1 DEF Writing, Working
  <2> QED
    BY <2>1, SentFact
<1>6. Write(p)
  OBVIOUS
<1> HIDE DEF p, r
<1>w. target' = (IF p = <<>> THEN target ELSE Append(target, p)) /\ late' = IF ctxDone THEN late + m ELSE late
  BY <1>3, <1>6 DEF Write
<1>7. late' <= BatchSize /\ late' \in Nat /\ (late' > 0 => ctxDone)
  <2>1. late = 0
    BY <1>0 DEF Writing
  <2> QED
    BY <1>3, <1>w, <2>1, PipelineAssumption
<1>8. CASE m = 0
  <2>1. target' = target
    BY <1>3, <1>8, <1>w
  <2>2. TargetInOrder' /\ TargetRows' = TargetRows
    BY <2>1 DEF TargetInOrder, TargetRows
  <2>3. TargetRows \in Nat
    BY <1>0, <1>4, Times
  <2>4. TargetRows' = TargetRows + m
    BY <1>8, <2>2, <2>3
  <2> QED
    BY <1>1, <1>2, <1>4, <1>7, <1>8, <2>1, <2>2, <2>4 DEF r
<1>9. CASE m > 0
  <2>1. target' = Append(target, p)
    BY <1>3, <1>9, <1>w
  <2>2. /\ Len(target') = k + 1 /\ target' # <<>> /\ target'[k + 1] = p
        /\ \A i \in 1..k : target'[i] = target[i]
    BY <1>0, <1>3, <2>1
  <2>3. \A i \in 1..(k + 1) : i \in 1..k \/ i = k + 1
    BY <1>0
  <2>4. TargetInOrder'
    <3>1. ASSUME NEW i \in 1..k
          PROVE  Len(target'[i]) \in 1..BatchSize /\ target'[i] = RowsOfBatch(i, Len(target'[i])) /\ Len(target'[i]) = BatchSize
      BY <1>5, <2>2, <3>1 DEF TargetInOrder
    <3>2. Len(target'[k + 1]) \in 1..BatchSize /\ target'[k + 1] = RowsOfBatch(k + 1, Len(target'[k + 1]))
      BY <1>3, <1>9, <2>2
    <3>3. \A i \in 1..(k + 1) : i < k + 1 => i \in 1..k
      BY <1>0
    <3> QED
      BY <2>2, <2>3, <3>1, <3>2, <3>3 DEF TargetInOrder
  <2>5. TargetRows' = TargetRows + m
    <3>1. (k + 1) - 1 = k
      BY <1>0
    <3>2. TargetRows' = ((k + 1) - 1) * BatchSize + Len(p)
      BY <2>2 DEF TargetRows
    <3> QED
      BY <1>3, <1>4, <3>1, <3>2
  <2> QED
    BY <1>1, <1>2, <1>4, <1>7, <1>9, <2>2, <2>4, <2>5 DEF r, p
<1> QED
  BY <1>3, <1>8, <1>9

\* What the runs check of the target.
Results == TargetSound /\ CompletedIsComplete /\ CancelBounded

\* The steps of Stream that leave the target alone.
Moving == \/ Setup \/ SelectDone \/ SelectBatch \/ SelectClosed \/ SelectError \/ BeginInsert \/ CloseConnections

\* Those steps keep the relation between target, channel and log.
LEMMA MovingWriting == Shape /\ Log /\ Writing /\ Moving => Writing'
<1> SUFFICES ASSUME Shape, Log, Writing, Moving PROVE Writing'
  OBVIOUS
<1>0. /\ UNCHANGED <<sent, target, migrated, late, ctxDone, rowClosed>>
      /\ TargetRows' = TargetRows
      /\ Len(target) \in Nat /\ Len(sent) \in Nat /\ Len(rowCh) \in Nat /\ late \in Nat
  BY DEF Shape, TypeOK, Moving, Setup, SelectDone, SelectBatch, SelectClosed, SelectError, BeginInsert, CloseConnections,
         producerVars, channels, TargetRows
<1>k. ASSUME UNCHANGED rowCh PROVE Taken' = Taken
  BY <1>0, <1>k DEF Taken
<1>1. CASE Setup \/ SelectDone \/ SelectError \/ CloseConnections \/ SelectClosed
  <2>1. /\ UNCHANGED <<rowCh, held>> /\ consumer' \in {"select", "closing", "returned"}
        /\ consumer' = "select" => consumer = "setup"
        /\ ret' \in {ret, "error"} \/ rowClosed
    BY <1>1 DEF Setup, SelectDone, SelectClosed, SelectError, CloseConnections, Return, producerVars, channels
  <2>2. Working' => Working
    BY <2>1 DEF Working
  <2> QED
    BY <1>0, <1>k, <2>1, <2>2 DEF Writing
<1>2. CASE SelectBatch
  <2>1. consumer = "select" /\ consumer' = "insert" /\ UNCHANGED ret
    BY <1>2 DEF SelectBatch
  <2>2. /\ Taken' = Len(target) + 1 /\ held'[1] = sent'[Taken']
        /\ \A i \in 1..Len(rowCh') : rowCh'[i] = sent'[Taken' + i]
    BY <1>0, <1>2, TakeFact
  <2>3. Len(target') <= Taken'
    BY <1>0, <2>2
  <2> QED
    BY <1>0, <2>1, <2>2, <2>3 DEF Writing, Working
<1>3. CASE BeginInsert
  <2>1. /\ consumer = "insert" /\ UNCHANGED rowCh
        /\ \/ held[1].rows = <<>> /\ consumer' = "select" /\ UNCHANGED ret
           \/ held[1].rows # <<>> /\ ~ctxDone /\ consumer' = "executing" /\ UNCHANGED <<ret, held>>
           \/ consumer' = "closing" /\ ret' = "error"
    BY <1>3 DEF BeginInsert, Return, channels
  <2>2. Taken = Len(target) + 1 /\ held[1] = sent[Taken]
    BY <2>1 DEF Writing
  <2> QED
    BY <1>0, <1>k, <2>1, <2>2 DEF Writing, Working
<1> QED
  BY <1>1, <1>2, <1>3 DEF Moving

\* At the end of the channel the target has everything that was sent.
LEMMA ClosedFact ==
  ASSUME Shape, Log, Writing, SelectClosed, readFault = "none"
  PROVE  TargetRows = sourceRows
<1>0. /\ Len(sent) \in Nat /\ Len(target) \in Nat /\ target \in Seq(Seq(1..sourceRows)) /\ sent \in Seq(Batches)
      /\ consumer = "select" /\ rowCh = <<>> /\ Len(rowCh) = 0 /\ rowClosed
  BY DEF Shape, TypeOK, SelectClosed
<1>e. (sent = <<>> <=> Len(sent) = 0) /\ (target = <<>> <=> Len(target) = 0)
  BY <1>0, EmptySeq
<1>1. SentRows = sourceRows
  BY <1>0 DEF Shape, Control, Log, Reading
<1>2. Taken = Len(sent)
  BY <1>0 DEF Taken
<1>w. Working
  BY <1>0 DEF Working
<1>3. CASE Taken = Len(target) /\ sent = <<>>
  BY <1>0, <1>1, <1>2, <1>3, EmptySeq DEF SentRows, TargetRows
<1>4. CASE Taken = Len(target) /\ sent # <<>>
  <2>1. Len(target) = Len(sent) /\ Len(sent) \in 1..Len(sent) /\ target # <<>>
    BY <1>0, <1>e, <1>2, <1>4
  <2>2. target[Len(target)] = sent[Len(sent)].rows
    BY <1>w, <2>1 DEF Writing
  <2> QED
    BY <1>1, <1>4, <2>1, <2>2 DEF SentRows, TargetRows
<1>5. CASE Taken = Len(target) + 1 /\ sent[Taken].rows = <<>>
  <2>1. Len(target) < Len(sent) /\ sent # <<>> /\ Len(sent) - 1 = Len(target)
    BY <1>0, <1>e, <1>2, <1>5
  <2>2. TargetRows = Len(target) * BatchSize
    BY <1>w, <2>1, FullFact
  <2>3. SentRows = Len(target) * BatchSize + 0
    BY <1>2, <1>5, <2>1 DEF SentRows
  <2>4. Len(target) * BatchSize \in Nat
    BY <1>0, Times
  <2> QED
    BY <1>1, <2>2, <2>3, <2>4
<1> QED
  BY <1>0, <1>3, <1>4, <1>5 DEF Writing

\* While Stream works its count is exact.
LEMMA RowsAreNat ==
  ASSUME Shape, Writing, Working PROVE migrated \in Nat /\ TargetRows = migrated
  BY DEF Shape, TypeOK, Writing

\* Those steps leave the target sound; the one that returns nil finds it whole.
LEMMA MovingResults == Shape /\ Log /\ Writing /\ Results /\ Moving => Results'
<1> SUFFICES ASSUME Shape, Log, Writing, Results, Moving PROVE Results'
  OBVIOUS
<1>0. /\ UNCHANGED <<sent, target, migrated, late, sourceRows, targetKind, readFault>>
      /\ TargetRows' = TargetRows
  BY DEF Moving, Setup, SelectDone, SelectBatch, SelectClosed, SelectError, BeginInsert, CloseConnections,
         producerVars, channels, TargetRows, job
<1>1. TargetInOrder' /\ WholeBatches' /\ CancelBounded'
  BY <1>0 DEF Results, TargetSound, TargetInOrder, WholeBatches, CancelBounded
<1>2. CASE SelectClosed
  <2>1. TargetRows = migrated /\ (readFault = "none" => TargetRows = sourceRows)
    BY <1>2, ClosedFact, RowsAreNat DEF Working, SelectClosed
  <2> QED
    BY <1>0, <1>1, <2>1 DEF Results, TargetSound, MigratedTracksTarget, CompletedIsComplete
<1>3. CASE ~SelectClosed
  <2>1. ret' \in {ret, "error"}
    BY <1>3 DEF Moving, Setup, SelectDone, SelectBatch, SelectError, BeginInsert, CloseConnections, Return
  <2> QED
    BY <1>0, <1>1, <2>1 DEF Results, TargetSound, MigratedTracksTarget, CompletedIsComplete
<1> QED
  BY <1>2, <1>3

\* An insert, done, failed or half done, leaves the target sound.
LEMMA InsertHolds == Shape /\ Log /\ Writing /\ Results /\ EndInsert => Writing' /\ Results'
<1> SUFFICES ASSUME Shape, Log, Writing, Results, EndInsert PROVE Writing' /\ Results'
  OBVIOUS
<1> DEFINE r == held[1].rows  k == Len(target)
<1>0. /\ consumer = "executing" /\ UNCHANGED <<sent, rowCh, rowClosed, sourceRows, targetKind, ctxDone>>
      /\ migrated \in Nat /\ k \in Nat /\ Len(sent) \in Nat
  BY DEF EndInsert, Shape, TypeOK, job, producerVars, channels
<1>1. TargetInOrder /\ WholeBatches /\ MigratedTracksTarget
  BY DEF Results, TargetSound
<1>r. held[1] = sent[k + 1] /\ r \in Seq(1..sourceRows) /\ Len(r) \in Nat /\ ret = "none" /\ ret # "nil"
  <2>1. held # <<>> /\ ret = "none" /\ held \in Seq(Batches)
    BY <1>0 DEF Shape, Control, TypeOK
  <2>2. r \in Seq(1..sourceRows)
    BY <2>1, HeadFact
  <2> QED
    BY <1>0, <2>1, <2>2 DEF Writing
<1>t. Taken' = Taken
  BY <1>0 DEF Taken
<1>m. migrated = TargetRows /\ \A i \in 1..k : target[i] = sent[i].rows
  BY <1>0 DEF Writing, Working
<1>2. ASSUME NEW m \in 0..Len(r), Write(SubSeq(r, 1, m)),
             \/ m = Len(r) /\ migrated' = migrated + m /\ consumer' = "select" /\ UNCHANGED ret
             \/ (targetKind = "sql" => m \in {0, Len(r)}) /\ migrated' = migrated /\ consumer' = "closing" /\ ret' = "error"
      PROVE  Writing' /\ Results'
  <2>1. /\ k + 1 \in 1..Len(sent) /\ Taken = k + 1 /\ Len(r) \in 1..BatchSize
        /\ TargetInOrder' /\ TargetRows' = TargetRows + m
        /\ m = 0 => target' = target
        /\ m > 0 => /\ Len(target') = k + 1
                    /\ target'[k + 1] = SubSeq(r, 1, m)
                    /\ \A i \in 1..k : target'[i] = target[i]
        /\ late' <= BatchSize /\ late' \in Nat /\ (late' > 0 => ctxDone)
    BY <1>0, <1>1, <1>2, WriteFact
  <2>2. m \in Nat /\ m <= BatchSize /\ migrated' \in Nat
    BY <1>0, <1>2, <2>1, PipelineAssumption
  <2>3. ASSUME m = Len(r) \/ m = 0
        PROVE  \A i \in 1..Len(target') : target'[i] = sent[i].rows
    <3>1. CASE m = 0
      BY <1>m, <2>1, <3>1
    <3>2. CASE m > 0
      <4>1. m = Len(r)
        BY <2>3, <3>2
      <4>2. target'[k + 1] = sent[k + 1].rows
        BY <1>r, <2>1, <3>2, <4>1, SubSeqFull
      <4>3. \A i \in 1..(k + 1) : i \in 1..k \/ i = k + 1
        BY <1>0
      <4> QED
        BY <1>m, <2>1, <3>2, <4>2, <4>3
    <3> QED
      BY <2>2, <3>1, <3>2
  <2>4. Len(target') \in {k, k + 1} /\ Len(target') <= Len(sent) /\ Len(target') <= Taken
    BY <1>0, <2>1, <2>2
  <2>5. WholeBatches'
    <3>1. targetKind = "sql" => m = Len(r) \/ m = 0
      BY <1>2
    <3> QED
      BY <1>0, <2>3, <2>4, <3>1 DEF WholeBatches
  <2>6. MigratedTracksTarget'
    <3>1. TargetRows \in Nat /\ TargetRows' = migrated + m
      BY <1>0, <1>m, <2>1
    <3>2. migrated' <= TargetRows' /\ TargetRows' <= migrated' + BatchSize
      <4>1. migrated \in Nat /\ m \in Nat /\ m <= BatchSize /\ BatchSize \in Nat
        BY <1>0, <2>2, PipelineAssumption
      <4>2. migrated' = migrated \/ migrated' = migrated + m
        BY <1>2
      <4> QED
        BY <3>1, <4>1, <4>2
    <3>3. ret' # "error" => migrated' = TargetRows'
      BY <1>0, <1>2, <2>2, <3>1
    <3> QED
      BY <3>2, <3>3 DEF MigratedTracksTarget
  <2>7. ret' # "nil"
    BY <1>2, <1>r
  <2>8. Results'
    BY <2>1, <2>5, <2>6, <2>7 DEF Results, TargetSound, CompletedIsComplete, CancelBounded
  <2>9. CASE consumer' = "select"
    <3>1. m = Len(r) /\ UNCHANGED ret /\ migrated' = migrated + m
      BY <1>2, <2>9
    <3>2. Len(target') = k + 1 /\ \A i \in 1..Len(target') : target'[i] = sent[i].rows
      BY <2>1, <2>3, <3>1
    <3> QED
      BY <1>0, <1>m, <1>t, <2>1, <2>4, <2>7, <2>8, <2>9, <3>1, <3>2 DEF Writing, Working
  <2>10. CASE consumer' = "closing"
    BY <1>0, <1>t, <2>1, <2>4, <2>7, <2>8, <2>10 DEF Writing, Working
  <2> QED
    BY <1>2, <2>9, <2>10
<1>3. CASE Write(r) /\ migrated' = migrated + Len(r) /\ consumer' = "select" /\ UNCHANGED ret
  <2>1. SubSeq(r, 1, Len(r)) = r /\ Len(r) \in 0..Len(r)
    BY <1>r, SubSeqFull
  <2> QED
    BY <1>2, <1>3, <2>1
<1>4. ASSUME NEW n \in Leftovers(r), Write(SubSeq(r, 1, n)), Return("error"), migrated' = migrated
      PROVE  Writing' /\ Results'
  <2>1. n \in 0..Len(r) /\ (targetKind = "sql" => n \in {0, Len(r)})
    BY <1>r, <1>4 DEF Leftovers
  <2>2. consumer' = "closing" /\ ret' = "error"
    BY <1>4 DEF Return
  <2> QED
    BY <1>2, <1>4, <2>1, <2>2
<1> QED
  BY <1>3, <1>4 DEF EndInsert

\* The producer does not reach the target; once the channel is closed it does
\* nothing at all.
LEMMA ProducerResults == Shape /\ Log /\ Writing /\ Results /\ ProducerStep => Results'
<1> SUFFICES ASSUME Shape, Writing, Results, ProducerStep PROVE Results'
  OBVIOUS
<1>1. UNCHANGED <<job, consumerVars>>
  BY DEF ProducerStep, OpenQuery, ReadRowsSQL, ReadRowsMongo, SendBatch, CloseErrCh, CloseRowCh
<1>2. ret = "nil" => readFault' = readFault
  BY DEF Writing, Shape, Control, ProducerStep, OpenQuery, ReadRowsSQL, ReadRowsMongo, SendBatch, CloseErrCh, CloseRowCh
<1>3. TargetRows' = TargetRows /\ TargetInOrder' /\ MigratedTracksTarget' /\ CancelBounded'
  BY <1>1 DEF consumerVars, TargetRows, Results, TargetSound, TargetInOrder, MigratedTracksTarget, CancelBounded
<1>4. CompletedIsComplete'
  BY <1>1, <1>2, <1>3 DEF consumerVars, job, Results, CompletedIsComplete
<1>5. WholeBatches'
  <2>1. sent \in Seq(Batches) /\ Len(sent) \in Nat /\ Len(target) \in Nat
    BY DEF Shape, TypeOK
  <2>2. Len(sent') \in Nat /\ Len(sent) <= Len(sent') /\ \A i \in 1..Len(sent) : sent'[i] = sent[i]
    <3>1. CASE SendBatch
      <4>1. outgoing[1] \in Batches
        BY <3>1, HeadFact, EmptySeq DEF SendBatch, Shape, TypeOK, Control
      <4> QED
        BY <2>1, <3>1, <4>1, AppendFact DEF SendBatch
    <3>2. CASE ~SendBatch
      BY <2>1, <3>2 DEF ProducerStep, OpenQuery, ReadRowsSQL, ReadRowsMongo, CloseErrCh, CloseRowCh
    <3> QED
      BY <3>1, <3>2
  <2>3. \A i \in 1..Len(target) : Len(target) <= Len(sent) => i \in 1..Len(sent)
    BY <2>1
  <2> QED
    BY <1>1, <2>1, <2>2, <2>3 DEF job, consumerVars, Results, TargetSound, WholeBatches
<1> QED
  BY <1>3, <1>4, <1>5 DEF Results, TargetSound

\* The target is always sound.
LEMMA ResultsHold == Spec => [](Writing /\ Results)
<1>1. Init => Writing /\ Results
  <2> SUFFICES ASSUME Init PROVE Writing /\ Results
    OBVIOUS
  <2>1. target = <<>> /\ sent = <<>> /\ migrated = 0 /\ ret = "none" /\ late = 0 /\ Len(<<>>) = 0
    BY DEF Init
  <2> QED
    BY <2>1, WritingInit, PipelineAssumption
       DEF Results, TargetSound, TargetInOrder, WholeBatches, MigratedTracksTarget, CompletedIsComplete, CancelBounded, TargetRows
<1>2. Shape /\ Log /\ Writing /\ Results /\ [Next]_vars => Writing' /\ Results'
  <2> SUFFICES ASSUME Shape, Log, Writing, Results, [Next]_vars PROVE Writing' /\ Results'
    OBVIOUS
  <2>1. CASE Cancel \/ UNCHANGED vars
    <3>1. UNCHANGED <<job, consumerVars, producerVars, channels>> /\ (ctxDone => ctxDone')
      BY <2>1 DEF Cancel, vars
    <3>2. UNCHANGED <<TargetRows, Taken>>
      BY <3>1 DEF consumerVars, producerVars, channels, TargetRows, Taken
    <3>3. Writing'
      BY <3>1, <3>2 DEF consumerVars, producerVars, channels, Writing, Working
    <3> QED
      BY <3>1, <3>2, <3>3 DEF job, consumerVars, producerVars, Results, TargetSound, TargetInOrder, WholeBatches,
                              MigratedTracksTarget, CompletedIsComplete, CancelBounded
  <2>2. CASE ProducerStep
    BY <2>2, WritingProducer, ProducerResults
  <2>3. CASE ConsumerStep
    BY <2>3, MovingWriting, MovingResults, InsertHolds DEF ConsumerStep, Moving
  <2> QED
    BY <2>1, <2>2, <2>3 DEF Next
<1> QED
  BY <1>1, <1>2, ShapeHolds, LogHolds, PTL DEF Spec

\* Whatever fails, is cancelled or is cut short, the target of Stream is an initial
\* part of the source in source order, a SQL target ends at a batch boundary, and
\* the count of migrated rows follows it.
THEOREM TargetIsSound == Spec => []TargetSound
BY ResultsHold, PTL DEF Results

\* When Stream returns nil and no read failed, the whole table was written and
\* counted.
THEOREM CompletedIsWhole == Spec => []CompletedIsComplete
BY ResultsHold, PTL DEF Results

\* After the cancellation at most one batch is still written: the one whose insert
\* was executing.
THEOREM CancelIsBounded == Spec => []CancelBounded
BY ResultsHold, PTL DEF Results

-----------------------------------------------------------------------------
(***************************************************************************)
(* The schema studio                                                        *)
(***************************************************************************)
\* Nothing that was read is newer than its table, and an answer on its way is to
\* the query it was sent for and no older than what is cached of it.
ReadInOrder ==
    /\ \A e \in cached : e.at <= SeenBy(e.query)
    /\ \A f \in fetching : \A e \in f.got :
           /\ e.query = f.query /\ e.at <= SeenBy(f.query)
           /\ \A g \in cached : g.query = f.query => g.at <= e.at

\* A write that is owed has been made, and a fetch that was not joined has read it.
OwedInOrder ==
    /\ \A o \in owed : o.query.table # Whole /\ o.at <= SeenBy(o.query)
    /\ \A o \in owed, f \in fetching : \A e \in f.got : f.query = o.query /\ ~o.first => o.at <= e.at

\* A request that was applied has made a write its table has seen.
AppliedInOrder == \A i \in Saves : saves[i].step = "applied" =>
                      saves[i].made <= version[saves[i].conn][saves[i].table]

\* A request under way says what it writes, and where.
SaveRecord == [step : {None, "sent", "applied", "refused", "over"}, kind : WriteKinds \cup {None},
               conn : Conns \cup {None}, table : Tables \cup {None}, mounted : BOOLEAN,
               left : BOOLEAN, again : SUBSET Queries, made : Nat]

SavesKnown ==
    /\ saves \in [Saves -> SaveRecord]
    /\ \A i \in Saves : /\ saves[i].step \in {None, "over"} => saves[i].kind = None
                        /\ saves[i].step \in {"sent", "applied", "refused"} =>
                               saves[i].kind \in WriteKinds /\ saves[i].conn \in Conns /\ saves[i].table \in Tables

\* An open dialog is of one of the kinds.
DialogKnown ==
    /\ dialog \in [kind : WriteKinds \cup {None}, conn : Conns \cup {None}, table : Tables \cup {None}, save : Saves \cup {0}]
    /\ dialog # Closed => dialog.kind \in WriteKinds

\* Every write was asked for by a request that reached the server, or made by others.
Answering == {i \in Saves : saves[i].step \notin {None, "sent"}}
WritesCounted == \A c \in Conns, t \in Tables : version[c][t] <= Cardinality(Answering) + troubles

StudioInv == /\ StudioTypeOK /\ ReadInOrder /\ OwedInOrder /\ AppliedInOrder /\ SavesKnown /\ DialogKnown /\ WritesCounted
             /\ DialogOfTable /\ OwnWritesShown /\ BusyDialogWaits

\* The cache and the fetches under way: one of a query.
CacheGood(C) == \A e \in C : /\ e \in Entries
                             /\ \A g \in C : g.query = e.query => g = e
FetchRecord == [query : Queries, since : Nat, got : SUBSET Entries]
FetchGood(F) == \A f \in F : /\ f \in FetchRecord
                             /\ f.got = {} \/ \E e \in f.got : f.got = {e}
                             /\ \A g \in F : g.query = f.query => g = f

\* The types of the other variables.
DataTypes == /\ present \in [Conns -> SUBSET Tables]
             /\ rows \in [Conns -> [Tables -> [Writes -> 0..MaxTableRows]]]
             /\ version \in [Conns -> [Tables -> Nat]]

ViewTypes == /\ conn \in Conns /\ table \in Tables \cup {None} /\ tab \in Tabs
             /\ page \in Nat \ {0} /\ limit \in Limits /\ sort \in Tables \cup {None} /\ search \in BOOLEAN

OwedTypes == \A o \in owed : o.query \in Queries /\ o.at \in Nat /\ o.first \in BOOLEAN
BoundTypes == moves \in 0..MaxMoves /\ troubles \in 0..MaxTroubles

LeavingTypes == \A v \in leaving : v.query \in Queries /\ v.query.table # Whole /\ v.rows \subseteq Entries /\ leaving = {v}

\* The invariant in parts: what was read and is owed, what is on screen, what is written.
RowsGood == CacheGood(cached) /\ FetchGood(fetching) /\ OwedTypes /\ ReadInOrder /\ OwedInOrder /\ OwnWritesShown
ViewGood == ViewTypes /\ failed \subseteq OnScreen /\ LeavingTypes
WriteGood == DataTypes /\ BoundTypes /\ SavesKnown /\ AppliedInOrder /\ WritesCounted
DialogGood == DialogKnown /\ DialogOfTable /\ BusyDialogWaits
Parts == RowsGood /\ ViewGood /\ WriteGood /\ DialogGood

\* The constants as the assumption gives them.
LEMMA ConstFact ==
  /\ First \in Conns /\ Documents \subseteq Conns /\ Shared \subseteq Conns /\ Leading \in Tables
  /\ None \notin Tables /\ Whole \notin Tables /\ None # Whole
  /\ MaxTableRows \in Nat /\ MaxMoves \in Nat /\ MaxSaves \in Nat /\ MaxTroubles \in Nat
  /\ 1 \in 0..MaxTableRows /\ Limits \subseteq Nat /\ 0 \notin Limits /\ Limits # {}
<1>1. MaxTableRows \in Nat /\ MaxTableRows # 0
  BY StudioAssumption
<1>2. 1 \in 0..MaxTableRows
  BY <1>1
<1> QED
  BY <1>2, StudioAssumption DEF None, Whole

\* There is a smallest page size.
LEMMA SmallestFact == Smallest \in Limits
<1>1. Limits \subseteq Nat /\ Limits # {}
  BY ConstFact
<1> DEFINE R == OpToRel(<, Nat)
<1>2. R = {p \in Nat \X Nat : p[1] < p[2]}
  BY Zenon DEF OpToRel
<1>3. IsWellFoundedOn(R, Nat)
  BY NatLessThanWellFounded, Zenon
<1> HIDE DEF R
<1>4. \E l \in Limits : \A m \in Limits : ~ (<<m, l>> \in R)
  BY <1>1, <1>3, WFMin
<1>5. \A l, m \in Limits : <<m, l>> \in R <=> m < l
  BY <1>1, <1>2
<1>6. \A l, m \in Limits : ~ (m < l) => l <= m
  BY <1>1
<1>7. \E l \in Limits : \A m \in Limits : l <= m
  BY <1>4, <1>5, <1>6
<1> QED
  BY <1>7 DEF Smallest

\* Of requests there are only so many.
LEMMA CountFact ==
  ASSUME NEW S \in SUBSET Saves
  PROVE  IsFiniteSet(S) /\ Cardinality(S) \in Nat /\ Cardinality(S) <= MaxSaves
<1>1. IsFiniteSet(Saves) /\ Cardinality(Saves) = MaxSaves
  <2>1. Cardinality(1..MaxSaves) = IF 1 > MaxSaves THEN 0 ELSE MaxSaves - 1 + 1
    BY ConstFact, FS_Interval
  <2> QED
    BY <2>1, ConstFact, FS_Interval DEF Saves
<1> QED
  BY <1>1, FS_Subset, FS_CardinalityType

\* A table sees no more writes than there can be.
LEMMA VersionFact == ASSUME WriteGood, NEW c \in Conns, NEW t \in Tables PROVE version[c][t] \in Writes
<1>1. Answering \in SUBSET Saves
  BY DEF Answering
<1>2. Cardinality(Answering) \in Nat /\ Cardinality(Answering) <= MaxSaves
  BY <1>1, CountFact
<1> QED
  BY <1>2, ConstFact DEF WriteGood, WritesCounted, DataTypes, BoundTypes, Writes

\* The invariant is its parts.
LEMMA PartsFact == StudioInv <=> Parts
<1>1. ASSUME Parts PROVE StudioInv
  <2>1. \A c \in Conns, t \in Tables : version[c][t] \in Writes
    BY <1>1, VersionFact DEF Parts
  <2>2. version \in [Conns -> [Tables -> Writes]]
    BY <1>1, <2>1 DEF Parts, WriteGood, DataTypes
  <2>3. \A e \in cached : e \in Entries /\ EntryOf(e.query) = {e}
    BY <1>1 DEF Parts, RowsGood, CacheGood, EntryOf
  <2>4. dialog.save \in Saves \cup {0} /\ dialog.kind \in WriteKinds \cup {None}
    BY <1>1 DEF Parts, DialogGood, DialogKnown
  <2> QED
    BY <1>1, <2>2, <2>3, <2>4 DEF Parts, RowsGood, ViewGood, WriteGood, DialogGood, StudioInv, StudioTypeOK, DataTypes, ViewTypes, OwedTypes, BoundTypes, LeavingTypes, FetchGood, FetchRecord
<1>2. ASSUME StudioInv PROVE Parts
  <2>1. CacheGood(cached)
    BY <1>2 DEF StudioInv, StudioTypeOK, CacheGood, EntryOf
  <2>2. version \in [Conns -> [Tables -> Nat]]
    <3>1. version \in [Conns -> [Tables -> Writes]]
      BY <1>2 DEF StudioInv, StudioTypeOK
    <3> QED
      BY <3>1, ConstFact DEF Writes
  <2> QED
    BY <1>2, <2>1, <2>2 DEF Parts, RowsGood, ViewGood, WriteGood, DialogGood, StudioInv, StudioTypeOK, DataTypes, ViewTypes, OwedTypes, BoundTypes, LeavingTypes, FetchGood, FetchRecord
<1> QED
  BY <1>1, <1>2

-----------------------------------------------------------------------------
(***************************************************************************)
(* What is on screen                                                        *)
(***************************************************************************)
\* The key of a schema and the key of a page are queries.
LEMMA SchemaFact == \A c \in Conns : SchemaOf(c) \in Queries
  BY ConstFact DEF SchemaOf, Queries

LEMMA PageFact ==
  ASSUME NEW c \in Conns, NEW t \in Tables, NEW p \in Nat, NEW l \in Limits, NEW s \in Tables \cup {None}, NEW b \in BOOLEAN
  PROVE  [conn |-> c, table |-> t, page |-> p, limit |-> l, sort |-> s, search |-> b] \in Queries
  BY ConstFact DEF Queries

\* One of the tables is shown, if there are any.
LEMMA FirstOfFact == ASSUME NEW S, S # {} PROVE FirstOf(S) \in S
  BY DEF FirstOf

\* The tables of a cached schema are tables.
LEMMA TablesFact ==
  ASSUME NEW C, CacheGood(C), NEW q
  PROVE  UNION {e.tables : e \in {d \in C : d.query = q}} \subseteq Tables
<1>1. \A e \in C : e.tables \subseteq Tables
  BY DEF CacheGood, Entries
<1> QED
  BY <1>1

\* The table on screen, now and after a step.
LEMMA TableFact ==
  ASSUME CacheGood(cached)
  PROVE  Listed \subseteq Tables /\ Table \in Tables \cup {None} /\ (Table # None => Table \in Listed)
<1>1. Listed \subseteq Tables
  BY TablesFact, Zenon DEF Listed, EntryOf
<1>2. Listed # {} => FirstOf(Listed) \in Listed
  BY FirstOfFact, Zenon
<1> QED
  BY <1>1, <1>2 DEF Table

\* The same after a step.
LEMMA NextTableFact ==
  ASSUME CacheGood(cached')
  PROVE  Listed' \subseteq Tables /\ Table' \in Tables \cup {None} /\ (Table' # None => Table' \in Listed')
<1>1. Listed' \subseteq Tables
  BY TablesFact, Zenon DEF Listed, EntryOf
<1>2. Listed' # {} => FirstOf(Listed') \in Listed'
  BY FirstOfFact, Zenon
<1>3. Table' = IF table' \in Listed' THEN table' ELSE IF Listed' # {} THEN FirstOf(Listed') ELSE None
  BY Zenon DEF Table
<1> QED
  BY <1>1, <1>2, <1>3

\* What is on screen are queries, and those of rows are of a table.
LEMMA ScreenFact ==
  ASSUME CacheGood(cached), ViewTypes
  PROVE  OnScreen \subseteq Queries /\ (Table # None => Table \in Tables /\ RowsQuery \in Queries)
<1>1. Table # None => Table \in Tables
  BY TableFact
<1>2. Table # None => RowsQuery \in Queries
  <2>1. page \in Nat
    BY DEF ViewTypes
  <2> QED
    BY <1>1, <2>1, PageFact, Zenon DEF RowsQuery, ViewTypes
<1>3. SchemaOf(conn) \in Queries
  BY SchemaFact DEF ViewTypes
<1> QED
  BY <1>1, <1>2, <1>3 DEF OnScreen

\* The same after a step.
LEMMA NextScreenFact ==
  ASSUME CacheGood(cached'), ViewTypes'
  PROVE  OnScreen' \subseteq Queries
<1>1. Table' # None => Table' \in Tables
  BY NextTableFact
<1>2. Table' # None => RowsQuery' \in Queries
  <2>1. page' \in Nat
    BY DEF ViewTypes
  <2>2. /\ conn' \in Conns /\ limit' \in Limits /\ sort' \in Tables \cup {None} /\ search' \in BOOLEAN
    BY DEF ViewTypes
  <2> QED
    BY <1>1, <2>1, <2>2, PageFact, Zenon DEF RowsQuery
<1>3. SchemaOf(conn') \in Queries
  BY SchemaFact DEF ViewTypes
<1>4. OnScreen' \subseteq {SchemaOf(conn'), RowsQuery'} /\ (Table' = None => OnScreen' \subseteq {SchemaOf(conn')})
  BY DEF OnScreen
<1> QED
  BY <1>1, <1>2, <1>3, <1>4

\* The viewer that is mounted, if one is, is of rows of a table.
LEMMA ViewerFact ==
  ASSUME CacheGood(cached), ViewGood
  PROVE  \A v \in Viewer : /\ v.query \in Queries /\ v.query.table # Whole /\ v.rows \subseteq Entries /\ Viewer = {v}
                           /\ v.query.conn \in Conns /\ v.query.table \in Tables /\ v.query.page \in Nat
<1>1. \A v \in Viewer : v.query \in Queries /\ v.query.table # Whole /\ v.rows \subseteq Entries /\ Viewer = {v}
  <2>1. CASE leaving # {}
    BY <2>1 DEF Viewer, ViewGood, LeavingTypes
  <2>2. CASE leaving = {} /\ OnGrid
    <3> DEFINE w == [query |-> RowsQuery, rows |-> EntryOf(RowsQuery)]
    <3>1. Viewer = {w}
      BY <2>2 DEF Viewer
    <3>2. RowsQuery \in Queries /\ RowsQuery.table = Table /\ Table # Whole
      BY <2>2, ScreenFact, ConstFact DEF OnGrid, ViewGood, RowsQuery
    <3>3. EntryOf(RowsQuery) \subseteq Entries
      BY DEF EntryOf, CacheGood
    <3> QED
      BY <3>1, <3>2, <3>3
  <2>3. CASE leaving = {} /\ ~OnGrid
    BY <2>3 DEF Viewer
  <2> QED
    BY <2>1, <2>2, <2>3
<1> QED
  BY <1>1 DEF Queries

\* A dialog of the viewer that was mounted is one of the viewer that is.
Matches(v, w) == w.query.table = v.query.table /\ (w.query.conn \in Documents) = (v.query.conn \in Documents)
ViewerKept == \A v \in Viewer : \E w \in Viewer' : Matches(v, w)

\* The viewer stays with the page it shows.
LEMMA SameViewer == ASSUME UNCHANGED <<leaving, conn, tab, Table>> PROVE ViewerKept
<1>1. OnGrid' = OnGrid
  BY DEF OnGrid
<1>2. RowsQuery.conn = conn /\ RowsQuery.table = Table /\ RowsQuery'.conn = conn /\ RowsQuery'.table = Table
  BY DEF RowsQuery
<1>3. CASE leaving # {}
  BY <1>3 DEF ViewerKept, Viewer, Matches
<1>4. CASE leaving = {} /\ OnGrid
  <2> DEFINE v == [query |-> RowsQuery, rows |-> EntryOf(RowsQuery)]
             w == [query |-> RowsQuery', rows |-> EntryOf(RowsQuery)']
  <2>1. Viewer = {v} /\ Viewer' = {w}
    BY <1>1, <1>4 DEF Viewer
  <2>2. Matches(v, w)
    BY <1>2 DEF Matches
  <2> QED
    BY <2>1, <2>2 DEF ViewerKept
<1>5. CASE leaving = {} /\ ~OnGrid
  BY <1>5 DEF ViewerKept, Viewer
<1> QED
  BY <1>3, <1>4, <1>5

\* With the page under it the viewer stays, or goes and takes its dialog with it, or
\* is on its way out.
LEMMA MountFact ==
  ASSUME CacheGood(cached), ViewGood, Mount
  PROVE  /\ LeavingTypes' /\ saves' \in {saves, Unmounted(saves)}
         /\ dialog' = Closed \/ (dialog' = dialog /\ saves' = saves /\ ViewerKept)
<1>1. /\ leaving' = IF Stays THEN {} ELSE Viewer
      /\ dialog' = IF Replaced THEN Closed ELSE dialog
      /\ saves' = IF Replaced THEN Unmounted(saves) ELSE saves
  BY DEF Mount
<1>2. LeavingTypes'
  BY <1>1, ViewerFact DEF LeavingTypes
<1>3. ASSUME ~Replaced PROVE ViewerKept
  <2>1. CASE ~Stays
    <3>1. leaving' = Viewer
      BY <1>1, <2>1
    <3>2. Viewer # {} => Viewer' = Viewer
      BY <3>1 DEF Viewer
    <3> QED
      BY <3>2 DEF ViewerKept, Matches
  <2>2. ASSUME Stays, NEW v \in Viewer PROVE \E w \in Viewer' : Matches(v, w)
    <3>1. leaving' = {} /\ (v.query.conn \in Documents) = (conn' \in Documents)
      BY <1>1, <1>3, <2>2 DEF Replaced
    <3>2. v.query.table \in Tables /\ v.query.table # None
      BY <2>2, ViewerFact, ConstFact
    <3>3. tab' = "data" /\ Table' = v.query.table
      <4>1. CASE leaving # {}
        <5>1. leaving = {v}
          BY <4>1, <2>2 DEF Viewer, ViewGood, LeavingTypes
        <5>2. GridKey' = <<"data", v.query.table>>
          BY <2>2, <4>1, <5>1 DEF Stays
        <5> QED
          BY <5>2 DEF GridKey
      <4>2. CASE leaving = {}
        <5>1. GridKey' = GridKey /\ OnGrid
          BY <2>2, <4>2 DEF Stays, Viewer
        <5>2. tab' = tab /\ Table' = Table /\ tab = "data"
          BY <5>1 DEF GridKey, OnGrid
        <5>3. v.query = RowsQuery
          BY <2>2, <4>2, <5>1 DEF Viewer
        <5>4. v.query.table = Table
          BY <5>3 DEF RowsQuery
        <5> QED
          BY <5>2, <5>4
      <4> QED
        BY <4>1, <4>2
    <3> DEFINE w == [query |-> RowsQuery', rows |-> EntryOf(RowsQuery)']
    <3>4. w \in Viewer'
      BY <3>1, <3>2, <3>3 DEF Viewer, OnGrid
    <3>5. w.query.table = Table' /\ w.query.conn = conn'
      BY DEF RowsQuery
    <3>6. Matches(v, w)
      BY <3>1, <3>3, <3>5 DEF Matches
    <3> QED
      BY <3>4, <3>6
  <2> QED
    BY <2>1, <2>2 DEF ViewerKept
<1> QED
  BY <1>1, <1>2, <1>3

-----------------------------------------------------------------------------
(***************************************************************************)
(* What is fetched                                                          *)
(***************************************************************************)
\* F still fetches what was fetched, and whatever is new in it has yet to be read.
Asks(fs, F) == /\ FetchGood(F)
               /\ \A f \in F : f \in fs \/ f.got = {}
               /\ \A g \in fs : \E f \in F : f.query = g.query

\* Two refetches after each other are one.
LEMMA AsksTrans == ASSUME NEW A, NEW B, NEW C, Asks(A, B), Asks(B, C) PROVE Asks(A, C)
  BY DEF Asks

\* To fetch what is fetched already is to go on.
LEMMA AsksSame == ASSUME NEW A, FetchGood(A) PROVE Asks(A, A)
  BY DEF Asks

\* A fetch that has just been sent.
LEMMA AskedFact ==
  ASSUME NEW q
  PROVE  Sent(q).query = q /\ Sent(q).got = {} /\ (DataTypes /\ q \in Queries => Sent(q) \in FetchRecord)
<1>1. DataTypes /\ q \in Queries => SeenBy(q) \in Nat
  BY DEF DataTypes, Queries, SeenBy
<1> QED
  BY <1>1 DEF Sent, FetchRecord

\* Fetching also queries that are not fetched yet keeps one fetch of each.
LEMMA AddFact ==
  ASSUME DataTypes, NEW fs, FetchGood(fs), NEW Q \in SUBSET Queries, \A q \in Q : ~\E f \in fs : f.query = q
  PROVE  Asks(fs, fs \cup {Sent(q) : q \in Q})
<1> DEFINE F == fs \cup {Sent(q) : q \in Q}
<1>1. \A f \in F : f \in fs \/ (f.query \in Q /\ f = Sent(f.query) /\ f.got = {})
  BY AskedFact
<1> HIDE DEF F
<1>2. fs \subseteq F
  BY DEF F
<1>3. \A f, g \in F : g.query = f.query => g = f
  BY <1>1 DEF FetchGood
<1>4. \A f \in F : f \in FetchRecord /\ (f.got = {} \/ \E e \in f.got : f.got = {e})
  <2>1. \A f \in F : f \in fs \/ (f.query \in Queries /\ f = Sent(f.query))
    BY <1>1
  <2>2. \A f \in F : f \in FetchRecord
    BY <2>1, AskedFact DEF FetchGood
  <2> QED
    BY <1>1, <2>2 DEF FetchGood
<1>5. FetchGood(F)
  BY <1>3, <1>4 DEF FetchGood
<1>6. Asks(fs, F)
  BY <1>1, <1>2, <1>5 DEF Asks
<1> QED
  BY <1>6 DEF F

\* A part of the fetches is as good as they are.
LEMMA FewerFact == ASSUME NEW fs, FetchGood(fs), NEW gs \in SUBSET fs PROVE FetchGood(gs)
  BY DEF FetchGood

\* What comes on screen is asked for.
LEMMA ObserveFact ==
  ASSUME DataTypes, CacheGood(cached'), ViewTypes', NEW fs, FetchGood(fs), Observe(fs)
  PROVE  Asks(fs, fetching') /\ failed' \subseteq OnScreen'
<1> DEFINE Q == {r \in OnScreen' \ OnScreen : ~Has(r)' /\ ~\E f \in fs : f.query = r}
<1>1. Q \in SUBSET Queries /\ \A q \in Q : ~\E f \in fs : f.query = q
  BY NextScreenFact
<1>2. Asks(fs, fs \cup {Sent(q) : q \in Q})
  BY <1>1, AddFact, Zenon
<1> QED
  BY <1>2 DEF Observe

\* A refetched query is fetched from new, but for a first fetch, which goes on.
LEMMA RefetchedFact ==
  ASSUME DataTypes, NEW fs, FetchGood(fs), NEW q \in Queries
  PROVE  /\ Asks(fs, Refetched(fs, q))
         /\ \E f \in Refetched(fs, q) : f.query = q
         /\ (Has(q) \/ ~\E f \in fs : f.query = q) => \A f \in Refetched(fs, q) : f.query = q => f.got = {}
<1>1. CASE ~Has(q) /\ \E f \in fs : f.query = q
  <2>1. Refetched(fs, q) = fs
    BY <1>1 DEF Refetched
  <2> QED
    BY <1>1, <2>1, AsksSame
<1>2. CASE ~(~Has(q) /\ \E f \in fs : f.query = q)
  <2> DEFINE gs == {f \in fs : f.query # q}
             F == gs \cup {Sent(q)}
  <2>1. Refetched(fs, q) = F
    BY <1>2 DEF Refetched
  <2>2. FetchGood(gs)
    BY FewerFact
  <2>3. \A f \in F : f \in gs \/ f = Sent(q)
    OBVIOUS
  <2>4. Sent(q) \in F /\ gs \subseteq F
    OBVIOUS
  <2>5. \A f \in gs : f.query # q /\ f \in fs
    OBVIOUS
  <2>6. \A g \in fs : g \in gs \/ g.query = q
    OBVIOUS
  <2> HIDE DEF F, gs
  <2>7. FetchGood(F)
    BY <2>2, <2>3, <2>5, AskedFact DEF FetchGood
  <2>8. Asks(fs, F)
    BY <2>3, <2>4, <2>5, <2>6, <2>7, AskedFact DEF Asks
  <2> QED
    BY <2>1, <2>3, <2>4, <2>5, <2>8, AskedFact
<1> QED
  BY <1>1, <1>2

-----------------------------------------------------------------------------
(***************************************************************************)
(* What was read and is owed                                                *)
(***************************************************************************)
\* A write that is owed from this step on: its page is fetched, and unless the
\* fetch was joined, it has yet to be read.
Fresh(o, F) == /\ o.query \in Queries /\ o.at \in Nat /\ o.first \in BOOLEAN
               /\ o.query.table # Whole /\ o.at <= SeenBy(o.query)
               /\ \E f \in F : f.query = o.query
               /\ ~o.first => \A f \in F : f.query = o.query => f.got = {}

\* Asking for more rows, and owing writes from now on, keeps the order of what was read.
LEMMA AsksRows ==
  ASSUME RowsGood, cached' = cached, version' = version, Asks(fetching, fetching'),
         \A o \in owed' : o \in owed \/ Fresh(o, fetching')
  PROVE  RowsGood'
<1>1. \A q : SeenBy(q)' = SeenBy(q)
  BY DEF SeenBy
<1>2. CacheGood(cached') /\ FetchGood(fetching')
  BY DEF RowsGood, Asks
<1>3. OwedTypes'
  BY DEF RowsGood, OwedTypes, Fresh
<1>4. ReadInOrder'
  <2>1. \A e \in cached' : e.at <= SeenBy(e.query)'
    BY <1>1 DEF RowsGood, ReadInOrder
  <2>2. ASSUME NEW f \in fetching', NEW e \in f.got
        PROVE  e.query = f.query /\ e.at <= SeenBy(f.query)' /\ \A g \in cached' : g.query = f.query => g.at <= e.at
    <3>1. f \in fetching
      BY <2>2 DEF Asks
    <3> QED
      BY <1>1, <3>1, <2>2 DEF RowsGood, ReadInOrder
  <2> QED
    BY <2>1, <2>2 DEF ReadInOrder
<1>5. OwedInOrder'
  <2>1. ASSUME NEW o \in owed' PROVE o.query.table # Whole /\ o.at <= SeenBy(o.query)'
    BY <1>1, <2>1 DEF RowsGood, OwedInOrder, Fresh
  <2>2. ASSUME NEW o \in owed', NEW f \in fetching', NEW e \in f.got, f.query = o.query, ~o.first
        PROVE  o.at <= e.at
    <3>1. f \in fetching
      BY <2>2 DEF Asks
    <3>2. CASE o \in owed
      BY <3>1, <3>2, <2>2 DEF RowsGood, OwedInOrder
    <3>3. CASE Fresh(o, fetching')
      BY <3>3, <2>2 DEF Fresh
    <3> QED
      BY <3>2, <3>3
  <2> QED
    BY <2>1, <2>2 DEF OwedInOrder
<1>6. OwnWritesShown'
  <2>1. ASSUME NEW o \in owed', NEW e \in cached', e.query = o.query
        PROVE  o.first \/ (\E f \in fetching' : f.query = o.query) \/ e.at >= o.at
    <3>1. CASE o \in owed
      BY <3>1, <2>1 DEF RowsGood, OwnWritesShown, EntryOf, Fetching, Asks
    <3>2. CASE Fresh(o, fetching')
      BY <3>2 DEF Fresh
    <3> QED
      BY <3>1, <3>2
  <2> QED
    BY <2>1 DEF OwnWritesShown, EntryOf, Fetching
<1> QED
  BY <1>2, <1>3, <1>4, <1>5, <1>6 DEF RowsGood

\* Nothing of it changes.
LEMMA SameRows ==
  ASSUME RowsGood, UNCHANGED <<cached, fetching, owed, version>>
  PROVE  RowsGood'
<1>1. Asks(fetching, fetching')
  BY AsksSame DEF RowsGood
<1> QED
  BY <1>1, AsksRows

\* Tables only see more writes.
LEMMA WriteRows ==
  ASSUME RowsGood, UNCHANGED <<cached, fetching, owed>>, DataTypes, DataTypes',
         \A c \in Conns, t \in Tables : version[c][t] <= version'[c][t]
  PROVE  RowsGood'
<1>1. \A q \in Queries : SeenBy(q) \in Nat /\ SeenBy(q)' \in Nat /\ SeenBy(q) <= SeenBy(q)'
  BY DEF SeenBy, Queries, DataTypes
<1>2. \A e \in cached : e.query \in Queries /\ e.at \in Nat
  BY DEF RowsGood, CacheGood, Entries
<1>3. \A f \in fetching : f.query \in Queries /\ \A e \in f.got : e.at \in Nat
  BY DEF RowsGood, FetchGood, FetchRecord, Entries
<1>4. \A o \in owed : o.query \in Queries /\ o.at \in Nat
  BY DEF RowsGood, OwedTypes
<1>5. ReadInOrder'
  <2>1. \A e \in cached : e.at <= SeenBy(e.query)'
    BY <1>1, <1>2 DEF RowsGood, ReadInOrder
  <2>2. \A f \in fetching : \A e \in f.got : e.at <= SeenBy(f.query)'
    BY <1>1, <1>3 DEF RowsGood, ReadInOrder
  <2> QED
    BY <2>1, <2>2 DEF RowsGood, ReadInOrder
<1>6. OwedInOrder'
  <2>1. \A o \in owed : o.at <= SeenBy(o.query)'
    BY <1>1, <1>4 DEF RowsGood, OwedInOrder
  <2> QED
    BY <2>1 DEF RowsGood, OwedInOrder
<1>7. OwnWritesShown'
  BY DEF RowsGood, OwnWritesShown, EntryOf, Fetching
<1>8. OwedTypes'
  BY DEF RowsGood, OwedTypes
<1> QED
  BY <1>5, <1>6, <1>7, <1>8 DEF RowsGood

\* What the server finds is what the query's table has seen.
LEMMA FoundFact ==
  ASSUME WriteGood, NEW f \in FetchRecord, NEW e \in Found(f)
  PROVE  e.query = f.query /\ e.at = SeenBy(f.query) /\ e \in Entries
<1> DEFINE q == f.query
<1>1. q \in Queries /\ q.conn \in Conns /\ q.table \in Tables \cup {Whole} /\ f.since \in Nat
  BY DEF FetchRecord, Queries
<1>2. CASE q.table = Whole
  <2>1. e = [query |-> q, at |-> 0, total |-> 0, shows |-> FALSE, tables |-> present[q.conn]]
    BY <1>2 DEF Found
  <2>2. present[q.conn] \subseteq Tables
    BY <1>1 DEF WriteGood, DataTypes
  <2> QED
    BY <1>1, <1>2, <2>1, <2>2 DEF SeenBy, Entries
<1>3. CASE q.table # Whole
  <2> DEFINE b == RowsNow(q.conn, q.table) > (q.page - 1) * q.limit
  <2>1. PICK w \in f.since..SeenBy(q) : e = [query |-> q, at |-> SeenBy(q), total |-> rows[q.conn][q.table][w],
                                             shows |-> b, tables |-> {}]
    BY <1>3 DEF Found
  <2>2. b \in BOOLEAN
    OBVIOUS
  <2>3. q.table \in Tables /\ SeenBy(q) = version[q.conn][q.table] /\ SeenBy(q) \in Writes
    BY <1>1, <1>3, VersionFact DEF SeenBy
  <2>4. SeenBy(q) \in Nat /\ w \in Writes
    BY <1>1, <2>1, <2>3, ConstFact DEF Writes
  <2>5. rows[q.conn][q.table][w] \in Nat
    <3>1. rows[q.conn][q.table] \in [Writes -> 0..MaxTableRows]
      BY <1>1, <2>3 DEF WriteGood, DataTypes
    <3> QED
      BY <2>4, <3>1, ConstFact
  <2> HIDE DEF b
  <2>6. e \in Entries /\ e.query = q /\ e.at = SeenBy(q)
    <3> HIDE DEF q
    <3> QED
      BY <1>1, <2>1, <2>2, <2>4, <2>5 DEF Entries
  <2> QED
    BY <2>6
<1> QED
  BY <1>2, <1>3

\* A fetch reads what its table has seen, at least what is cached and owed.
LEMMA ReadRows ==
  ASSUME RowsGood, WriteGood, NEW f \in fetching, Read(f)
  PROVE  RowsGood'
<1> DEFINE q == f.query
<1>1. PICK e \in Found(f) : fetching' = (fetching \ {f}) \cup {[f EXCEPT !.since = 0, !.got = {e}]}
  BY DEF Read
<1>2. f.got = {} /\ UNCHANGED <<cached, owed, version>>
  BY DEF Read, serverVars
<1>3. f \in FetchRecord /\ q \in Queries
  BY DEF RowsGood, FetchGood, FetchRecord
<1> DEFINE r == [f EXCEPT !.since = 0, !.got = {e}]
<1>4. e.query = q /\ e.at = SeenBy(q) /\ e \in Entries
  BY <1>3, FoundFact DEF RowsGood
<1>5. r \in FetchRecord /\ r.query = q /\ r.got = {e}
  BY <1>3, <1>4 DEF FetchRecord
<1>6. fetching' = (fetching \ {f}) \cup {r}
  BY <1>1
<1> HIDE DEF r
<1>7. \A g \in fetching' : (g \in fetching /\ g # f) \/ g = r
  BY <1>2, <1>6
<1>8. \A g \in fetching : (g \in fetching' /\ g.query # q) \/ g = f
  BY <1>2, <1>6 DEF RowsGood, FetchGood
<1>9. r \in fetching'
  BY <1>2, <1>6
<1>10. \A h : SeenBy(h)' = SeenBy(h)
  BY <1>2, <1>6 DEF SeenBy
<1>11. CacheGood(cached') /\ OwedTypes' /\ FetchGood(fetching')
  <2>1. \A g, h \in fetching' : h.query = g.query => h = g
    BY <1>5, <1>7, <1>8 DEF RowsGood, FetchGood
  <2>2. \A g \in fetching' : /\ g \in FetchRecord
                             /\ g.got = {} \/ \E d \in g.got : g.got = {d}
    BY <1>5, <1>7 DEF RowsGood, FetchGood
  <2> QED
    BY <1>2, <1>6, <2>1, <2>2 DEF RowsGood, FetchGood, OwedTypes
<1>12. ReadInOrder'
  <2>1. ASSUME NEW g \in fetching', NEW d \in g.got
        PROVE  d.query = g.query /\ d.at <= SeenBy(g.query) /\ \A c \in cached : c.query = g.query => c.at <= d.at
    <3>1. CASE g \in fetching
      BY <3>1, <2>1 DEF RowsGood, ReadInOrder
    <3>2. CASE g = r
      <4>1. d = e /\ d.query = q /\ d.at = SeenBy(q) /\ g.query = q /\ d.at \in Nat
        BY <1>4, <1>5, <2>1, <3>2 DEF Entries
      <4> QED
        BY <4>1 DEF RowsGood, ReadInOrder
    <3> QED
      BY <1>7, <3>1, <3>2
  <2> QED
    BY <1>2, <1>6, <1>10, <2>1 DEF RowsGood, ReadInOrder
<1>13. OwedInOrder'
  <2>1. ASSUME NEW o \in owed, NEW g \in fetching', NEW d \in g.got, g.query = o.query, ~o.first
        PROVE  o.at <= d.at
    <3>1. CASE g \in fetching
      BY <3>1, <2>1 DEF RowsGood, OwedInOrder
    <3>2. CASE g = r
      <4>1. d = e /\ d.at = SeenBy(o.query)
        BY <1>4, <1>5, <2>1, <3>2
      <4> QED
        BY <4>1 DEF RowsGood, OwedInOrder
    <3> QED
      BY <1>7, <3>1, <3>2
  <2> QED
    BY <1>2, <1>6, <1>10, <2>1 DEF RowsGood, OwedInOrder
<1>14. OwnWritesShown'
  <2>1. \A g \in fetching : \E h \in fetching' : h.query = g.query
    BY <1>5, <1>8, <1>9
  <2> QED
    BY <1>2, <1>6, <2>1 DEF RowsGood, OwnWritesShown, EntryOf, Fetching
<1> QED
  BY <1>11, <1>12, <1>13, <1>14 DEF RowsGood

\* What an answer carries takes the place of what was cached of its query, and is
\* not older.
LEMMA StoredFact ==
  ASSUME RowsGood, NEW f \in fetching, NEW e \in f.got, cached' = Stored(e)
  PROVE  /\ CacheGood(cached') /\ f.got = {e} /\ e.query = f.query /\ e \in Entries /\ e \in cached'
         /\ \A g \in cached' : g = e \/ (g \in cached /\ g.query # f.query)
         /\ \A d \in cached, g \in cached' : g.query = d.query => g.at >= d.at
<1>1. e.query = f.query /\ f.got = {e} /\ e \in Entries
  BY DEF RowsGood, ReadInOrder, FetchGood, FetchRecord
<1>2. cached' = (cached \ {d \in cached : d.query = f.query}) \cup {e}
  BY <1>1 DEF Stored, EntryOf
<1>3. e \in cached' /\ \A g \in cached' : g = e \/ (g \in cached /\ g.query # f.query)
  BY <1>2
<1>4. CacheGood(cached')
  BY <1>1, <1>3 DEF RowsGood, CacheGood
<1>5. ASSUME NEW d \in cached, NEW g \in cached', g.query = d.query PROVE g.at >= d.at
  <2>1. d.at \in Nat /\ e.at \in Nat
    BY <1>1 DEF RowsGood, CacheGood, Entries
  <2>2. CASE g = e
    <3>1. d.at <= e.at
      BY <1>1, <1>5, <2>2 DEF RowsGood, ReadInOrder
    <3> QED
      BY <2>1, <2>2, <3>1
  <2>3. CASE g \in cached
    <3>1. g = d
      BY <1>5, <2>3 DEF RowsGood, CacheGood
    <3> QED
      BY <2>1, <3>1
  <2> QED
    BY <1>3, <2>2, <2>3
<1> QED
  BY <1>1, <1>3, <1>4, <1>5

\* An answer keeps the order, and what it was to show is owed no more.
LEMMA ReceiveRows ==
  ASSUME DataTypes, RowsGood, ViewTypes, NEW f \in fetching, Receive(f)
  PROVE  RowsGood' /\ ViewTypes' /\ failed' \subseteq OnScreen'
<1>1. /\ UNCHANGED viewVars /\ UNCHANGED version
      /\ owed' = {o \in owed : \A e \in f.got : o.query # f.query \/ o.at > e.at}
      /\ Observe(fetching \ {f})
  BY DEF Receive, serverVars
<1>2. PICK e \in f.got : cached' = Stored(e)
  BY DEF Receive
<1>3. /\ CacheGood(cached') /\ f.got = {e} /\ e.query = f.query /\ e \in Entries /\ e \in cached'
      /\ \A g \in cached' : g = e \/ (g \in cached /\ g.query # f.query)
  BY <1>2, StoredFact
<1>4. ViewTypes'
  BY <1>1 DEF ViewTypes, viewVars
<1> DEFINE fs == fetching \ {f}
<1>5. FetchGood(fs)
  BY FewerFact DEF RowsGood
<1>6. Asks(fs, fetching') /\ failed' \subseteq OnScreen'
  BY <1>1, <1>3, <1>4, <1>5, ObserveFact
<1>7. \A g \in fs : g \in fetching /\ g.query # f.query
  BY DEF RowsGood, FetchGood
<1>8. \A g \in fetching : g = f \/ g \in fs
  OBVIOUS
<1> HIDE DEF fs
<1>9. \A q : SeenBy(q)' = SeenBy(q)
  BY <1>1 DEF SeenBy
<1>10. \A o \in owed' : o \in owed /\ (o.query # f.query \/ o.at > e.at)
  BY <1>1
<1>11. OwedTypes'
  BY <1>10 DEF RowsGood, OwedTypes
<1>12. ReadInOrder'
  <2>1. e.at <= SeenBy(e.query)
    BY <1>3 DEF RowsGood, ReadInOrder
  <2>2. \A g \in cached' : g.at <= SeenBy(g.query)
    BY <1>3, <2>1 DEF RowsGood, ReadInOrder
  <2>3. ASSUME NEW g \in fetching', NEW d \in g.got
        PROVE  d.query = g.query /\ d.at <= SeenBy(g.query) /\ \A c \in cached' : c.query = g.query => c.at <= d.at
    <3>1. g \in fs
      BY <1>6, <2>3 DEF Asks
    <3>2. g \in fetching /\ g.query # f.query
      BY <1>7, <3>1
    <3> QED
      BY <1>3, <2>3, <3>2 DEF RowsGood, ReadInOrder
  <2> QED
    BY <1>9, <2>2, <2>3 DEF ReadInOrder
<1>13. OwedInOrder'
  <2>1. ASSUME NEW o \in owed', NEW g \in fetching', NEW d \in g.got, g.query = o.query, ~o.first
        PROVE  o.at <= d.at
    <3>1. g \in fetching
      BY <1>6, <1>7, <2>1 DEF Asks
    <3> QED
      BY <1>10, <2>1, <3>1 DEF RowsGood, OwedInOrder
  <2>2. \A o \in owed' : o.query.table # Whole /\ o.at <= SeenBy(o.query)
    BY <1>10 DEF RowsGood, OwedInOrder
  <2> QED
    BY <1>9, <2>1, <2>2 DEF OwedInOrder
<1>14. OwnWritesShown'
  <2>1. ASSUME NEW o \in owed', NEW d \in cached', d.query = o.query
        PROVE  o.first \/ (\E g \in fetching' : g.query = o.query) \/ d.at >= o.at
    <3>1. CASE o.query = f.query
      <4>1. o \in owed /\ o.at > e.at
        BY <1>10, <3>1
      <4>2. o.at \in Nat /\ e.at \in Nat
        BY <1>3, <4>1 DEF RowsGood, OwedTypes, Entries
      <4>3. ~o.first => o.at <= e.at
        BY <1>3, <3>1, <4>1 DEF RowsGood, OwedInOrder
      <4> QED
        BY <4>1, <4>2, <4>3
    <3>2. CASE o.query # f.query
      <4>1. d \in cached /\ o \in owed
        BY <1>3, <1>10, <2>1, <3>2
      <4>2. ASSUME NEW g \in fetching, g.query = o.query PROVE \E h \in fetching' : h.query = o.query
        BY <1>6, <1>8, <4>2, <3>2 DEF Asks
      <4> QED
        BY <2>1, <4>1, <4>2 DEF RowsGood, OwnWritesShown, EntryOf, Fetching
    <3> QED
      BY <3>1, <3>2
  <2> QED
    BY <2>1 DEF OwnWritesShown, EntryOf, Fetching
<1> QED
  BY <1>3, <1>4, <1>6, <1>11, <1>12, <1>13, <1>14 DEF RowsGood, Asks

\* A failed fetch leaves the cache, and what it was to show is owed no more.
LEMMA FailRows ==
  ASSUME RowsGood, NEW f \in fetching, FailFetch(f)
  PROVE  RowsGood'
<1>1. /\ UNCHANGED <<cached, version>>
      /\ fetching' = fetching \ {f} /\ owed' = {o \in owed : o.query # f.query}
  BY DEF FailFetch, serverVars
<1>2. \A q : SeenBy(q)' = SeenBy(q)
  BY <1>1 DEF SeenBy
<1>3. FetchGood(fetching')
  BY <1>1, FewerFact DEF RowsGood
<1>4. ReadInOrder' /\ OwedInOrder' /\ OwedTypes'
  BY <1>1, <1>2 DEF RowsGood, ReadInOrder, OwedInOrder, OwedTypes
<1>5. OwnWritesShown'
  <2>1. ASSUME NEW o \in owed', NEW g \in fetching, g.query = o.query PROVE g \in fetching'
    BY <1>1, <2>1
  <2> QED
    BY <1>1, <2>1 DEF RowsGood, OwnWritesShown, EntryOf, Fetching
<1> QED
  BY <1>1, <1>3, <1>4, <1>5 DEF RowsGood

\* Refresh fetches again what is on screen.
LEMMA RefreshRows ==
  ASSUME DataTypes, RowsGood, ViewTypes, Refresh
  PROVE  RowsGood'
<1> DEFINE fs == Refetched(fetching, SchemaOf(conn))
<1>1. /\ UNCHANGED <<cached, owed, version>>
      /\ fetching' = IF OnGrid THEN Refetched(fs, RowsQuery) ELSE fs
  BY DEF Refresh, serverVars
<1>2. Asks(fetching, fs) /\ FetchGood(fs)
  <2>1. SchemaOf(conn) \in Queries
    BY SchemaFact DEF ViewTypes
  <2> QED
    BY <2>1, RefetchedFact DEF RowsGood, Asks
<1> HIDE DEF fs
<1>3. OnGrid => Asks(fs, Refetched(fs, RowsQuery))
  <2>1. OnGrid => RowsQuery \in Queries
    BY ScreenFact DEF OnGrid, RowsGood
  <2> QED
    BY <1>2, <2>1, RefetchedFact
<1>4. Asks(fetching, fetching')
  BY <1>1, <1>2, <1>3, AsksTrans
<1> QED
  BY <1>1, <1>4, AsksRows

\* Coming back fetches the schema of the first database, if it is not there.
LEMMA ComeBackRows ==
  ASSUME DataTypes, RowsGood, ComeBack
  PROVE  RowsGood'
<1>1. /\ UNCHANGED <<cached, owed, version>>
      /\ fetching' = IF Has(SchemaOf(First)) \/ Fetching(SchemaOf(First)) THEN fetching
                     ELSE fetching \cup {Sent(SchemaOf(First))}
  BY DEF ComeBack, serverVars
<1>2. Asks(fetching, fetching')
  <2>1. CASE fetching' = fetching
    BY <2>1, AsksSame DEF RowsGood
  <2>2. CASE ~Fetching(SchemaOf(First)) /\ fetching' = fetching \cup {Sent(SchemaOf(First))}
    <3> DEFINE Q == {SchemaOf(First)}
    <3>1. Q \in SUBSET Queries
      BY SchemaFact, ConstFact
    <3>2. \A q \in Q : ~\E f \in fetching : f.query = q
      BY <2>2 DEF Fetching
    <3>3. Asks(fetching, fetching \cup {Sent(q) : q \in Q})
      BY <3>1, <3>2, AddFact, Zenon DEF RowsGood
    <3>4. {Sent(q) : q \in Q} = {Sent(SchemaOf(First))}
      OBVIOUS
    <3> QED
      BY <2>2, <3>3, <3>4
  <2> QED
    BY <1>1, <2>1, <2>2
<1> QED
  BY <1>1, <1>2, AsksRows

\* The fetches of a query, and what becomes of them when it is fetched again.
FetchOf(q) == {f \in fetching : f.query = q}
Redone(q) == Refetched(FetchOf(q), q)
AllRedone(again) == UNION {Redone(q) : q \in again}

\* Several queries are fetched again at once.
LEMMA AgainFact ==
  ASSUME DataTypes, FetchGood(fetching), NEW again \in SUBSET Queries, NEW F, F = FetchedAgain(again)
  PROVE  /\ Asks(fetching, F)
         /\ \A q \in again : \E f \in F : f.query = q
         /\ \A q \in again : (Has(q) \/ ~Fetching(q)) => \A f \in F : f.query = q => f.got = {}
<1>1. ASSUME NEW q \in again
      PROVE  /\ Asks(FetchOf(q), Redone(q)) /\ \E f \in Redone(q) : f.query = q
             /\ (Has(q) \/ ~Fetching(q)) => \A f \in Redone(q) : f.query = q => f.got = {}
             /\ \A f \in Redone(q) : f.query = q
  <2>1. FetchGood(FetchOf(q)) /\ q \in Queries
    BY FewerFact DEF FetchOf
  <2>2. /\ Asks(FetchOf(q), Redone(q)) /\ \E f \in Redone(q) : f.query = q
        /\ (Has(q) \/ ~\E f \in FetchOf(q) : f.query = q) => \A f \in Redone(q) : f.query = q => f.got = {}
    BY <2>1, RefetchedFact, Zenon DEF Redone
  <2>3. (\E f \in FetchOf(q) : f.query = q) => Fetching(q)
    BY DEF Fetching, FetchOf
  <2>4. \A f \in Redone(q) : f \in FetchOf(q) \/ f = Sent(q)
    BY DEF Redone, Refetched
  <2>5. \A f \in Redone(q) : f.query = q
    BY <2>4, AskedFact DEF FetchOf
  <2> QED
    BY <2>2, <2>3, <2>5
<1>2. \A q \in again : \A f \in FetchOf(q) : f \in fetching
  BY DEF FetchOf
<1>3. \A f \in fetching : f \in FetchOf(f.query)
  BY DEF FetchOf
<1>4. F = AllRedone(again) \cup {f \in fetching : f.query \notin again}
  BY Zenon DEF FetchedAgain, AllRedone, Redone, FetchOf
<1>5. \A f : f \in AllRedone(again) <=> \E q \in again : f \in Redone(q)
  BY DEF AllRedone
<1>6. \A f \in F : (f \in fetching /\ f.query \notin again) \/ \E q \in again : f \in Redone(q)
  BY <1>4, <1>5
<1>7. (\A f \in fetching : f.query \notin again => f \in F) /\ (\A q \in again : \A f \in Redone(q) : f \in F)
  BY <1>4, <1>5
<1>8. FetchGood(F)
  <2>1. \A q \in again : FetchGood(Redone(q))
    BY <1>1 DEF Asks
  <2>2. \A f \in F : (f \in fetching /\ f.query \notin again) \/ (f.query \in again /\ f \in Redone(f.query))
    BY <1>1, <1>6
  <2>3. ASSUME NEW f \in F, NEW g \in F, g.query = f.query PROVE g = f
    <3>1. CASE f.query \in again
      <4>1. f \in Redone(f.query) /\ g \in Redone(f.query)
        BY <2>2, <2>3, <3>1
      <4> QED
        BY <2>1, <2>3, <3>1, <4>1 DEF FetchGood
    <3>2. CASE f.query \notin again
      <4>1. f \in fetching /\ g \in fetching
        BY <2>2, <2>3, <3>2
      <4> QED
        BY <2>3, <4>1 DEF FetchGood
    <3> QED
      BY <3>1, <3>2
  <2>4. \A f \in F : f \in FetchRecord /\ (f.got = {} \/ \E e \in f.got : f.got = {e})
    BY <2>1, <2>2 DEF FetchGood
  <2> QED
    BY <2>3, <2>4 DEF FetchGood
<1>9. \A f \in F : f \in fetching \/ f.got = {}
  BY <1>1, <1>6, <1>2 DEF Asks
<1>10. \A g \in fetching : \E f \in F : f.query = g.query
  BY <1>1, <1>7
<1>11. Asks(fetching, F)
  BY <1>8, <1>9, <1>10 DEF Asks
<1>12. \A q \in again : (Has(q) \/ ~Fetching(q)) => \A f \in F : f.query = q => f.got = {}
  <2>1. ASSUME NEW q \in again, NEW f \in F, f.query = q PROVE f \in Redone(q)
    BY <1>1, <1>6, <2>1
  <2> QED
    BY <1>1, <2>1
<1> QED
  BY <1>1, <1>7, <1>11, <1>12

\* What a finished request's page shows are queries.
LEMMA ShowsFact == ASSUME RowsGood, ViewTypes, NEW s PROVE Shows(s) \in SUBSET Queries
<1>1. Table # None => RowsQuery \in Queries
  BY ScreenFact DEF RowsGood
<1>2. SchemaOf(conn) \in Queries
  BY SchemaFact DEF ViewTypes
<1> QED
  BY <1>1, <1>2 DEF Shows

\* A write that a refetched query of its table owes.
LEMMA OwingFact ==
  ASSUME RowsGood, ViewTypes, SavesKnown, AppliedInOrder, NEW i \in Saves, saves[i].step = "applied",
         NEW again \in SUBSET Queries, NEW q \in again, q.conn = saves[i].conn, q.table = saves[i].table,
         NEW F, \E f \in F : f.query = q, (Has(q) \/ ~Fetching(q)) => \A f \in F : f.query = q => f.got = {}
  PROVE  Fresh([query |-> q, at |-> saves[i].made, first |-> ~Has(q) /\ Fetching(q)], F)
<1> DEFINE s == saves[i]
           b == ~Has(q) /\ Fetching(q)
           new == [query |-> q, at |-> s.made, first |-> b]
<1>1. s.table \in Tables /\ s.made \in Nat /\ s.made <= version[s.conn][s.table]
  BY DEF SavesKnown, SaveRecord, AppliedInOrder
<1>2. q.table # Whole /\ SeenBy(q) = version[s.conn][s.table]
  BY <1>1, ConstFact DEF SeenBy
<1>3. new.query = q /\ new.at = s.made /\ new.first = b
  OBVIOUS
<1>4. b \in BOOLEAN /\ (~b => Has(q) \/ ~Fetching(q))
  BY Zenon
<1> HIDE DEF b, new, s
<1>5. ~new.first => \A f \in F : f.query = q => f.got = {}
  BY <1>3, <1>4, Zenon
<1>6. Fresh(new, F)
  BY <1>1, <1>2, <1>3, <1>4, <1>5 DEF Fresh
<1> QED
  BY <1>6 DEF new, b, s

\* When the answer to a write comes, the page it was sent from owes it and is fetched.
LEMMA SavedRows ==
  ASSUME DataTypes, RowsGood, ViewTypes, SavesKnown, AppliedInOrder, NEW i \in Saves, Saved(i)
  PROVE  RowsGood'
<1> DEFINE s == saves[i]
<1>1. /\ fetching' = FetchedAgain(Again(s)) /\ owed' = owed \cup Owing(s)
      /\ s.step = "applied" /\ UNCHANGED <<cached, version>>
  BY DEF Saved, serverVars
<1>2. Again(s) \in SUBSET Queries
  <2>1. s.again \in SUBSET Queries
    BY DEF SavesKnown, SaveRecord
  <2> HIDE DEF s
  <2> QED
    BY <2>1, ShowsFact DEF Again
<1>3. /\ Asks(fetching, fetching')
      /\ \A q \in Again(s) : \E f \in fetching' : f.query = q
      /\ \A q \in Again(s) : (Has(q) \/ ~Fetching(q)) => \A f \in fetching' : f.query = q => f.got = {}
  <2>1. FetchGood(fetching)
    BY DEF RowsGood
  <2> HIDE DEF s
  <2> QED
    BY <1>1, <1>2, <2>1, AgainFact
<1>4. ASSUME NEW o \in Owing(s) PROVE Fresh(o, fetching')
  <2>1. PICK q \in Again(s) : /\ q.conn = s.conn /\ q.table = s.table
                              /\ o = [query |-> q, at |-> s.made, first |-> ~Has(q) /\ Fetching(q)]
    BY <1>4 DEF Owing
  <2> DEFINE F == fetching'
  <2>2. /\ \E f \in F : f.query = q
        /\ (Has(q) \/ ~Fetching(q)) => \A f \in F : f.query = q => f.got = {}
    BY <1>3
  <2> HIDE DEF F
  <2>3. Fresh([query |-> q, at |-> s.made, first |-> ~Has(q) /\ Fetching(q)], F)
    BY <1>1, <1>2, <2>1, <2>2, OwingFact, Zenon
  <2>4. Fresh(o, F)
    BY <2>1, <2>3, Zenon
  <2> QED
    BY <2>4 DEF F
<1>5. \A o \in owed' : o \in owed \/ Fresh(o, fetching')
  BY <1>1, <1>4
<1> QED
  BY <1>1, <1>3, <1>5, AsksRows

-----------------------------------------------------------------------------
(***************************************************************************)
(* What is written                                                          *)
(***************************************************************************)
\* A record of a request says of what it is.
Fits(r) == /\ r \in SaveRecord
           /\ r.step \in {None, "over"} => r.kind = None
           /\ r.step \in {"sent", "applied", "refused"} => r.kind \in WriteKinds /\ r.conn \in Conns /\ r.table \in Tables

\* One request changes.
OneSave(i, r) == /\ saves' \in [Saves -> SaveRecord] /\ saves'[i] = r
                 /\ \A j \in Saves \ {i} : saves'[j] = saves[j]

\* Putting another record in the place of a request.
LEMMA PutFact ==
  ASSUME SavesKnown, NEW i \in Saves, NEW r \in SaveRecord, saves' = [saves EXCEPT ![i] = r]
  PROVE  OneSave(i, r)
  BY DEF SavesKnown, OneSave

\* Changing a field of a record.
LEMMA StepFact ==
  ASSUME NEW r \in SaveRecord, NEW x \in {None, "sent", "applied", "refused", "over"}
  PROVE  /\ [r EXCEPT !.step = x] \in SaveRecord
         /\ [r EXCEPT !.step = x].step = x /\ [r EXCEPT !.step = x].kind = r.kind
         /\ [r EXCEPT !.step = x].conn = r.conn /\ [r EXCEPT !.step = x].table = r.table
         /\ [r EXCEPT !.step = x].made = r.made
  BY DEF SaveRecord

LEMMA StepMounted ==
  ASSUME NEW r \in SaveRecord, NEW x
  PROVE  [r EXCEPT !.step = x].mounted = r.mounted
  BY DEF SaveRecord

LEMMA MadeFact ==
  ASSUME NEW r \in SaveRecord, NEW n \in Nat
  PROVE  /\ [r EXCEPT !.made = n] \in SaveRecord
         /\ [r EXCEPT !.made = n].step = r.step /\ [r EXCEPT !.made = n].kind = r.kind
         /\ [r EXCEPT !.made = n].conn = r.conn /\ [r EXCEPT !.made = n].table = r.table
         /\ [r EXCEPT !.made = n].made = n /\ [r EXCEPT !.made = n].mounted = r.mounted
  BY DEF SaveRecord

LEMMA MountedFact ==
  ASSUME NEW r \in SaveRecord
  PROVE  /\ [r EXCEPT !.mounted = FALSE] \in SaveRecord
         /\ [r EXCEPT !.mounted = FALSE].step = r.step /\ [r EXCEPT !.mounted = FALSE].kind = r.kind
         /\ [r EXCEPT !.mounted = FALSE].conn = r.conn /\ [r EXCEPT !.mounted = FALSE].table = r.table
         /\ [r EXCEPT !.mounted = FALSE].made = r.made
  BY DEF SaveRecord

LEMMA LeftFact ==
  ASSUME RowsGood, ViewTypes, NEW r \in SaveRecord
  PROVE  /\ Left(r) \in SaveRecord
         /\ Left(r).step = r.step /\ Left(r).kind = r.kind
         /\ Left(r).conn = r.conn /\ Left(r).table = r.table
         /\ Left(r).made = r.made
<1>1. Shows(r) \in SUBSET Queries
  BY ShowsFact
<1> QED
  BY <1>1 DEF Left, SaveRecord

\* A request that becomes another record: the writes are counted as before.
LEMMA OneWrites ==
  ASSUME WriteGood, NEW i \in Saves, NEW r, OneSave(i, r), Fits(r), BoundTypes',
         UNCHANGED serverVars, troubles <= troubles',
         r.step = "applied" => r.made <= version[r.conn][r.table],
         saves[i].step \notin {None, "sent"} => r.step \notin {None, "sent"}
  PROVE  WriteGood'
<1>1. DataTypes'
  BY DEF WriteGood, DataTypes, serverVars
<1>2. SavesKnown'
  <2>1. \A j \in Saves : Fits(saves'[j])
    BY DEF WriteGood, SavesKnown, OneSave, Fits
  <2> QED
    BY <2>1 DEF OneSave, SavesKnown, Fits
<1>3. AppliedInOrder'
  <2>1. version' = version
    BY DEF serverVars
  <2>2. ASSUME NEW j \in Saves, saves'[j].step = "applied"
        PROVE  saves'[j].made <= version[saves'[j].conn][saves'[j].table]
    BY <2>2 DEF WriteGood, AppliedInOrder, OneSave
  <2> QED
    BY <2>1, <2>2 DEF AppliedInOrder
<1>4. WritesCounted'
  <2>1. Answering \in SUBSET Saves /\ Answering' \in SUBSET Saves
    BY DEF Answering
  <2>2. Answering \subseteq Answering'
    BY DEF Answering, OneSave
  <2>3. Cardinality(Answering) <= Cardinality(Answering')
    BY <2>1, <2>2, CountFact, FS_Subset
  <2>4. Cardinality(Answering) \in Nat /\ Cardinality(Answering') \in Nat
    BY <2>1, CountFact
  <2>5. version' = version /\ troubles <= troubles' /\ troubles \in Nat /\ troubles' \in Nat
    BY ConstFact DEF serverVars, WriteGood, BoundTypes
  <2>6. \A c \in Conns, t \in Tables : version[c][t] \in Nat
    BY DEF WriteGood, DataTypes
  <2> QED
    BY <2>3, <2>4, <2>5, <2>6 DEF WriteGood, WritesCounted
<1> QED
  BY <1>1, <1>2, <1>3, <1>4 DEF WriteGood

\* With more trouble the writes are counted as before.
LEMMA CountedFact ==
  ASSUME WriteGood, Answering' = Answering, version' = version, troubles <= troubles', BoundTypes'
  PROVE  WritesCounted'
<1>1. Answering \in SUBSET Saves
  BY DEF Answering
<1>2. Cardinality(Answering) \in Nat
  BY <1>1, CountFact
<1>3. troubles \in Nat /\ troubles' \in Nat
  BY ConstFact DEF WriteGood, BoundTypes
<1>4. \A c \in Conns, t \in Tables : version[c][t] \in Nat
  BY DEF WriteGood, DataTypes
<1> QED
  BY <1>2, <1>3, <1>4 DEF WriteGood, WritesCounted

\* No request changes, nor any table.
LEMMA SameWrites ==
  ASSUME WriteGood, UNCHANGED <<serverVars, saves>>, troubles <= troubles', BoundTypes'
  PROVE  WriteGood'
<1>1. Answering' = Answering
  BY DEF Answering
<1>2. WritesCounted'
  BY <1>1, CountedFact DEF serverVars
<1> QED
  BY <1>1, <1>2 DEF WriteGood, DataTypes, SavesKnown, AppliedInOrder, serverVars

\* Requests only lose the dialogs they were sent from, or the page.
LEMMA ParkedWrites ==
  ASSUME WriteGood, UNCHANGED <<serverVars, troubles>>, BoundTypes', saves' \in [Saves -> SaveRecord],
         \A i \in Saves : /\ saves'[i].step = saves[i].step /\ saves'[i].kind = saves[i].kind
                         /\ saves'[i].conn = saves[i].conn /\ saves'[i].table = saves[i].table
                         /\ saves'[i].made = saves[i].made
  PROVE  WriteGood'
<1>1. SavesKnown' /\ AppliedInOrder'
  BY DEF WriteGood, SavesKnown, AppliedInOrder, serverVars
<1>2. Answering' = Answering
  BY DEF Answering
<1> QED
  BY <1>1, <1>2 DEF WriteGood, DataTypes, WritesCounted, serverVars

LEMMA UnmountedWrites ==
  ASSUME WriteGood, UNCHANGED <<serverVars, troubles>>, BoundTypes', saves' = Unmounted(saves)
  PROVE  WriteGood'
<1>1. \A i \in Saves : saves'[i] = [saves[i] EXCEPT !.mounted = FALSE]
  BY DEF Unmounted
<1>2. \A i \in Saves : /\ saves'[i] \in SaveRecord
                       /\ saves'[i].step = saves[i].step /\ saves'[i].kind = saves[i].kind
                       /\ saves'[i].conn = saves[i].conn /\ saves'[i].table = saves[i].table
                       /\ saves'[i].made = saves[i].made
  BY <1>1, MountedFact DEF WriteGood, SavesKnown
<1>3. saves' \in [Saves -> SaveRecord]
  BY <1>2 DEF Unmounted
<1> QED
  BY <1>2, <1>3, ParkedWrites

LEMMA LeftWrites ==
  ASSUME WriteGood, RowsGood, ViewTypes, UNCHANGED <<serverVars, troubles>>, BoundTypes',
         saves' = [i \in Saves |-> Left(saves[i])]
  PROVE  WriteGood'
<1>1. \A i \in Saves : saves[i] \in SaveRecord /\ saves'[i] = Left(saves[i])
  BY DEF WriteGood, SavesKnown
<1>2. \A i \in Saves : /\ saves'[i] \in SaveRecord
                       /\ saves'[i].step = saves[i].step /\ saves'[i].kind = saves[i].kind
                       /\ saves'[i].conn = saves[i].conn /\ saves'[i].table = saves[i].table
                       /\ saves'[i].made = saves[i].made
  BY <1>1, LeftFact
<1>3. saves' \in [Saves -> SaveRecord]
  BY <1>2
<1> QED
  BY <1>2, <1>3, ParkedWrites

\* A write raises one table's version.
LEMMA WrittenFact ==
  ASSUME DataTypes, NEW c \in Conns, NEW t \in Tables, NEW n \in 0..MaxTableRows, Written(c, t, n)
  PROVE  /\ rows' \in [Conns -> [Tables -> [Writes -> 0..MaxTableRows]]] /\ version' \in [Conns -> [Tables -> Nat]]
         /\ version'[c][t] = version[c][t] + 1
         /\ \A d \in Conns, u \in Tables : version[d][u] <= version'[d][u] /\ version'[d][u] <= version[d][u] + 1
<1>1. rows' \in [Conns -> [Tables -> [Writes -> 0..MaxTableRows]]]
  <2> DEFINE w == version[c][t] + 1
             R == [Writes -> 0..MaxTableRows]
             x == [rows[c][t] EXCEPT ![w] = n]
             y == [rows[c] EXCEPT ![t] = x]
  <2>1. rows[c][t] \in R /\ rows[c] \in [Tables -> R]
    BY DEF DataTypes
  <2>2. x \in R
    BY <2>1
  <2> HIDE DEF x, w, R
  <2>3. y \in [Tables -> R]
    BY <2>1, <2>2
  <2>4. rows' = [rows EXCEPT ![c] = y]
    BY DEF Written, x, y, w
  <2> HIDE DEF y
  <2>5. rows \in [Conns -> [Tables -> R]]
    BY DEF DataTypes, R
  <2>6. rows' \in [Conns -> [Tables -> R]]
    BY <2>3, <2>4, <2>5
  <2> QED
    BY <2>6 DEF R
<1>2. version' \in [Conns -> [Tables -> Nat]] /\ version'[c][t] = version[c][t] + 1
  BY DEF DataTypes, Written
<1>3. ASSUME NEW d \in Conns, NEW u \in Tables
      PROVE  version[d][u] <= version'[d][u] /\ version'[d][u] <= version[d][u] + 1
  BY DEF DataTypes, Written
<1> QED
  BY <1>1, <1>2, <1>3

\* A request that is sent says what the screen and the dialog say.
LEMMA RequestFact ==
  ASSUME RowsGood, ViewTypes, WriteGood, NEW i \in Next1, NEW k \in WriteKinds, Request(i, k)
  PROVE  \E r : OneSave(i, r) /\ Fits(r) /\ r.step = "sent" /\ r.kind = k /\ r.mounted = TRUE
<1> DEFINE r == [Unsent EXCEPT !.step = "sent", !.kind = k, !.conn = conn, !.table = Table, !.mounted = TRUE]
<1>1. Table \in Tables /\ conn \in Conns
  BY ScreenFact DEF RowsGood, ViewTypes, Request
<1>2. r \in SaveRecord /\ i \in Saves
  <2>1. Unsent \in SaveRecord
    BY ConstFact DEF Unsent, SaveRecord
  <2> QED
    BY <1>1, <2>1 DEF SaveRecord, Next1
<1>3. saves' = [saves EXCEPT ![i] = r]
  BY DEF Request
<1>4. r.step = "sent" /\ r.kind = k /\ r.conn = conn /\ r.table = Table
  BY DEF Unsent
<1>5. r.mounted = TRUE
  BY Zenon DEF Unsent
<1> HIDE DEF r
<1>6. OneSave(i, r)
  BY <1>2, <1>3, PutFact, Zenon DEF WriteGood
<1>7. Fits(r)
  BY <1>1, <1>2, <1>4 DEF Fits, None
<1> QED
  BY <1>4, <1>5, <1>6, <1>7, Zenon

\* Bounds that stay are kept.
LEMMA SameBounds == ASSUME BoundTypes, UNCHANGED bounds PROVE BoundTypes' /\ troubles' = troubles /\ troubles <= troubles'
  BY ConstFact DEF BoundTypes, bounds

\* A request is one more to be answered.
LEMMA RequestWrites ==
  ASSUME RowsGood, ViewTypes, WriteGood, NEW i \in Next1, NEW k \in WriteKinds, Request(i, k),
         UNCHANGED <<serverVars, bounds>>
  PROVE  WriteGood'
<1>1. PICK r : OneSave(i, r) /\ Fits(r) /\ r.step = "sent"
  BY RequestFact, Zenon
<1>2. i \in Saves /\ saves[i].step = None
  BY DEF Next1
<1>3. BoundTypes' /\ troubles <= troubles'
  BY SameBounds DEF WriteGood
<1>4. (r.step = "applied" => r.made <= version[r.conn][r.table])
      /\ (saves[i].step \notin {None, "sent"} => r.step \notin {None, "sent"})
  BY <1>1, <1>2
<1> QED
  BY <1>1, <1>2, <1>3, <1>4, OneWrites, Zenon

\* A request that is refused, or whose answer is lost.
LEMMA RefusedWrites ==
  ASSUME WriteGood, NEW i \in Saves, saves[i].step \in {"sent", "applied"}, BoundTypes',
         saves' = [saves EXCEPT ![i].step = "refused"], UNCHANGED serverVars, troubles <= troubles'
  PROVE  WriteGood' /\ \E r : OneSave(i, r) /\ r.step = "refused" /\ r.kind = saves[i].kind /\ r.mounted = saves[i].mounted
<1> DEFINE s == saves[i]
           r == [s EXCEPT !.step = "refused"]
<1>1. s \in SaveRecord
  BY DEF WriteGood, SavesKnown
<1>2. /\ r \in SaveRecord /\ r.step = "refused" /\ r.kind = s.kind /\ r.conn = s.conn /\ r.table = s.table
  BY <1>1, StepFact
<1>3. r.mounted = s.mounted
  BY <1>1, StepMounted
<1>4. saves' = [saves EXCEPT ![i] = r]
  OBVIOUS
<1>5. s.kind \in WriteKinds /\ s.conn \in Conns /\ s.table \in Tables
  BY DEF WriteGood, SavesKnown
<1> HIDE DEF r, s
<1>6. OneSave(i, r)
  BY <1>2, <1>4, PutFact, Zenon DEF WriteGood
<1>7. Fits(r)
  BY <1>2, <1>5 DEF Fits, None
<1>8. WriteGood'
  BY <1>2, <1>6, <1>7, OneWrites, ConstFact DEF None
<1> QED
  BY <1>2, <1>3, <1>6, <1>8, Zenon DEF s

\* A request that has been answered is forgotten.
LEMMA AnsweredWrites ==
  ASSUME WriteGood, NEW i \in Saves, Answered(i), UNCHANGED <<serverVars, bounds>>
  PROVE  WriteGood' /\ \A j \in Saves \ {i} : saves'[j] = saves[j]
<1> DEFINE r == [Unsent EXCEPT !.step = "over"]
<1>1. Unsent \in SaveRecord
  BY ConstFact DEF Unsent, SaveRecord
<1>2. r \in SaveRecord /\ r.step = "over" /\ r.kind = Unsent.kind
  BY <1>1, StepFact
<1>3. Unsent.kind = None
  BY DEF Unsent
<1>4. saves' = [saves EXCEPT ![i] = r]
  BY DEF Answered
<1> HIDE DEF r
<1>5. OneSave(i, r)
  BY <1>2, <1>4, PutFact, Zenon DEF WriteGood
<1>6. Fits(r)
  BY <1>2, <1>3 DEF Fits, None
<1>7. BoundTypes' /\ troubles <= troubles'
  BY SameBounds DEF WriteGood
<1>8. WriteGood'
  BY <1>2, <1>5, <1>6, <1>7, OneWrites DEF None
<1> QED
  BY <1>5, <1>8 DEF OneSave

\* The server makes the write a request asks for.
LEMMA ApplyFact ==
  ASSUME WriteGood, NEW i \in Saves, Apply(i)
  PROVE  /\ WriteGood'
         /\ \A c \in Conns, t \in Tables : version[c][t] <= version'[c][t]
         /\ \E r : OneSave(i, r) /\ r.step = "applied" /\ r.kind = saves[i].kind /\ r.mounted = saves[i].mounted
<1> DEFINE s == saves[i]
           m == version[s.conn][s.table] + 1
           p == [s EXCEPT !.step = "applied"]
           r == [p EXCEPT !.made = m]
<1>1. s.step = "sent" /\ saves' = [saves EXCEPT ![i].step = "applied", ![i].made = m] /\ UNCHANGED present
      /\ UNCHANGED bounds
  BY DEF Apply
<1>2. s \in SaveRecord /\ s.kind \in WriteKinds /\ s.conn \in Conns /\ s.table \in Tables
  BY <1>1 DEF WriteGood, SavesKnown
<1>3. PICK n \in Effect(s) : Written(s.conn, s.table, n)
  BY DEF Apply
<1>4. n \in 0..MaxTableRows
  <2>1. RowsNow(s.conn, s.table) \in 0..MaxTableRows
    <3>1. rows[s.conn][s.table] \in [Writes -> 0..MaxTableRows]
      BY <1>2 DEF WriteGood, DataTypes
    <3>2. version[s.conn][s.table] \in Writes
      BY <1>2, VersionFact
    <3> QED
      BY <3>1, <3>2 DEF RowsNow
  <2> HIDE DEF s
  <2> QED
    BY <1>2, <1>3, <2>1, ConstFact DEF Effect, WriteKinds
<1>5. /\ rows' \in [Conns -> [Tables -> [Writes -> 0..MaxTableRows]]] /\ version' \in [Conns -> [Tables -> Nat]]
      /\ version'[s.conn][s.table] = m
      /\ \A d \in Conns, u \in Tables : version[d][u] <= version'[d][u] /\ version'[d][u] <= version[d][u] + 1
  BY <1>2, <1>3, <1>4, WrittenFact DEF WriteGood
<1>6. DataTypes' /\ BoundTypes'
  BY <1>1, <1>5 DEF WriteGood, DataTypes, BoundTypes, bounds
<1>7. m \in Nat
  BY <1>2 DEF WriteGood, DataTypes
<1>8. p \in SaveRecord /\ p.step = "applied" /\ p.kind = s.kind /\ p.conn = s.conn /\ p.table = s.table
  BY <1>2, StepFact
<1>9. /\ r \in SaveRecord /\ r.step = "applied" /\ r.kind = s.kind /\ r.conn = s.conn /\ r.table = s.table /\ r.made = m
  BY <1>7, <1>8, MadeFact
<1>10. r.mounted = s.mounted
  BY <1>2 DEF SaveRecord
<1>11. saves' = [saves EXCEPT ![i] = r]
  BY <1>1 DEF WriteGood, SavesKnown
<1> HIDE DEF r, p
<1>12. OneSave(i, r)
  BY <1>9, <1>11, PutFact, Zenon DEF WriteGood
<1>13. SavesKnown'
  <2>1. Fits(r)
    BY <1>2, <1>9 DEF Fits, None
  <2>2. \A j \in Saves : Fits(saves'[j])
    BY <1>12, <2>1 DEF WriteGood, SavesKnown, OneSave, Fits
  <2> QED
    BY <1>12, <2>2 DEF OneSave, SavesKnown, Fits
<1>14. AppliedInOrder'
  <2>1. ASSUME NEW j \in Saves, saves'[j].step = "applied"
        PROVE  saves'[j].made <= version'[saves'[j].conn][saves'[j].table]
    <3>1. CASE j = i
      BY <1>5, <1>7, <1>9, <1>12, <3>1 DEF OneSave
    <3>2. CASE j # i
      <4>1. saves'[j] = saves[j]
        BY <1>12, <3>2 DEF OneSave
      <4>2. /\ saves[j].made <= version[saves[j].conn][saves[j].table]
            /\ saves[j].conn \in Conns /\ saves[j].table \in Tables /\ saves[j].made \in Nat
        BY <2>1, <4>1 DEF WriteGood, AppliedInOrder, SavesKnown, SaveRecord
      <4>3. /\ version[saves[j].conn][saves[j].table] \in Nat /\ version'[saves[j].conn][saves[j].table] \in Nat
            /\ version[saves[j].conn][saves[j].table] <= version'[saves[j].conn][saves[j].table]
        BY <1>5, <4>2 DEF WriteGood, DataTypes
      <4> QED
        BY <4>1, <4>2, <4>3
    <3> QED
      BY <3>1, <3>2
  <2> QED
    BY <2>1 DEF AppliedInOrder
<1>15. WritesCounted'
  <2>1. Answering \in SUBSET Saves
    BY DEF Answering
  <2>2. Answering' = Answering \cup {i} /\ i \notin Answering
    BY <1>1, <1>9, <1>12 DEF Answering, OneSave, None
  <2>3. Cardinality(Answering') = Cardinality(Answering) + 1 /\ Cardinality(Answering) \in Nat
    BY <2>1, <2>2, CountFact, FS_AddElement
  <2>4. troubles' = troubles /\ troubles \in Nat
    BY <1>1, ConstFact DEF WriteGood, BoundTypes, bounds
  <2>5. \A c \in Conns, t \in Tables : version[c][t] \in Nat /\ version'[c][t] \in Nat
    BY <1>5 DEF WriteGood, DataTypes
  <2>6. ASSUME NEW c \in Conns, NEW t \in Tables PROVE version'[c][t] <= Cardinality(Answering') + troubles
    <3>1. version[c][t] <= Cardinality(Answering) + troubles
      BY DEF WriteGood, WritesCounted
    <3>2. version'[c][t] <= version[c][t] + 1
      BY <1>5
    <3> QED
      BY <2>3, <2>4, <2>5, <3>1, <3>2
  <2> QED
    BY <2>4, <2>6 DEF WritesCounted
<1>16. WriteGood'
  BY <1>6, <1>13, <1>14, <1>15 DEF WriteGood
<1> QED
  BY <1>5, <1>9, <1>10, <1>12, <1>16

\* So do others.
LEMMA OutsideFact ==
  ASSUME WriteGood, NEW c \in Conns, NEW t \in Tables, NEW n \in 0..MaxTableRows, Written(c, t, n),
         Trouble, UNCHANGED <<saves, moves>>,
         present' \in [Conns -> SUBSET Tables]
  PROVE  WriteGood' /\ \A d \in Conns, u \in Tables : version[d][u] <= version'[d][u]
<1>1. /\ rows' \in [Conns -> [Tables -> [Writes -> 0..MaxTableRows]]] /\ version' \in [Conns -> [Tables -> Nat]]
      /\ \A d \in Conns, u \in Tables : version[d][u] <= version'[d][u] /\ version'[d][u] <= version[d][u] + 1
  BY WrittenFact DEF WriteGood
<1>2. \A d \in Conns, u \in Tables : version[d][u] \in Nat /\ version'[d][u] \in Nat
  BY <1>1 DEF WriteGood, DataTypes
<1>3. DataTypes' /\ BoundTypes'
  BY <1>1, ConstFact DEF WriteGood, DataTypes, BoundTypes, Trouble
<1>4. SavesKnown'
  BY DEF WriteGood, SavesKnown
<1>5. AppliedInOrder'
  <2>1. ASSUME NEW j \in Saves, saves[j].step = "applied"
        PROVE  saves[j].made <= version'[saves[j].conn][saves[j].table]
    <3>1. /\ saves[j].made <= version[saves[j].conn][saves[j].table]
          /\ saves[j].conn \in Conns /\ saves[j].table \in Tables /\ saves[j].made \in Nat
      BY <2>1 DEF WriteGood, AppliedInOrder, SavesKnown, SaveRecord
    <3> QED
      BY <1>1, <1>2, <3>1
  <2> QED
    BY <2>1 DEF AppliedInOrder
<1>6. WritesCounted'
  <2>1. Answering \in SUBSET Saves /\ Answering' = Answering
    BY DEF Answering
  <2>2. Cardinality(Answering) \in Nat /\ troubles \in Nat /\ troubles' = troubles + 1
    BY <2>1, CountFact, ConstFact DEF WriteGood, BoundTypes, Trouble
  <2> QED
    BY <1>1, <1>2, <2>1, <2>2 DEF WriteGood, WritesCounted
<1> QED
  BY <1>1, <1>3, <1>4, <1>5, <1>6 DEF WriteGood

-----------------------------------------------------------------------------
(***************************************************************************)
(* Dialogs                                                                  *)
(***************************************************************************)
\* No dialog is a good dialog.
LEMMA ClosedDialog == ASSUME dialog' = Closed PROVE DialogGood'
  BY ConstFact DEF Closed, DialogGood, DialogKnown, DialogOfTable, BusyDialogWaits

\* A dialog stays with its viewer.
LEMMA DialogStays ==
  ASSUME DialogOfTable, ViewerKept, dialog # Closed \/ dialog' = Closed, dialog'.table = dialog.table, dialog'.conn = dialog.conn
  PROVE  DialogOfTable'
<1>1. ASSUME dialog' # Closed
      PROVE  \E w \in Viewer' : /\ dialog.table = w.query.table
                                /\ (dialog.conn \in Documents) = (w.query.conn \in Documents)
  <2>1. PICK v \in Viewer : dialog.table = v.query.table /\ (dialog.conn \in Documents) = (v.query.conn \in Documents)
    BY <1>1 DEF DialogOfTable
  <2>2. PICK w \in Viewer' : Matches(v, w)
    BY DEF ViewerKept
  <2> QED
    BY <2>1, <2>2 DEF Matches
<1> QED
  BY <1>1 DEF DialogOfTable

\* A dialog that stays does so on the same table, while its request is as it was or goes on.
LEMMA KeptDialog ==
  ASSUME DialogGood, dialog' = dialog, ViewerKept,
         dialog.save # 0 => /\ saves'[dialog.save].step \in {"sent", "applied", "refused"}
                            /\ saves'[dialog.save].kind = saves[dialog.save].kind
                            /\ saves'[dialog.save].mounted = saves[dialog.save].mounted
  PROVE  DialogGood'
<1>1. DialogKnown'
  BY DEF DialogGood, DialogKnown
<1>2. DialogOfTable'
  BY DialogStays DEF DialogGood
<1>3. BusyDialogWaits'
  BY DEF DialogGood, BusyDialogWaits
<1> QED
  BY <1>1, <1>2, <1>3 DEF DialogGood

\* A dialog nothing happens to.
LEMMA SameDialog ==
  ASSUME DialogGood, ViewerKept, UNCHANGED <<dialog, saves>>
  PROVE  DialogGood'
  BY KeptDialog DEF DialogGood, BusyDialogWaits

\* The table on screen stays with what it is taken from.
LEMMA SameTable == ASSUME UNCHANGED <<conn, table, cached>> PROVE Table' = Table
  BY DEF Table, Listed, EntryOf

\* The screen stays with what it is computed from.
LEMMA SameScreen ==
  ASSUME ViewGood, UNCHANGED <<viewVars, cached, failed, leaving>>
  PROVE  ViewGood' /\ Table' = Table /\ ViewerKept
<1>1. Table' = Table
  BY SameTable DEF viewVars
<1>2. OnScreen' = OnScreen
  BY <1>1 DEF OnScreen, RowsQuery, viewVars
<1>3. ViewerKept
  BY <1>1, SameViewer DEF viewVars
<1> QED
  BY <1>1, <1>2, <1>3 DEF ViewGood, ViewTypes, LeavingTypes, viewVars

\* A dialog's request goes on, is refused, or waits for its answer: the dialog waits.
LEMMA OneDialog ==
  ASSUME DialogGood, dialog' = dialog, ViewerKept, NEW i \in Saves, NEW r, OneSave(i, r),
         r.step \in {"sent", "applied", "refused"}, r.kind = saves[i].kind, r.mounted = saves[i].mounted
  PROVE  DialogGood'
<1>1. dialog.save # 0 => dialog.save \in Saves
  BY DEF DialogGood, DialogKnown
<1>2. dialog.save # 0 => saves[dialog.save].step \in {"sent", "applied", "refused"}
  BY DEF DialogGood, BusyDialogWaits
<1>3. CASE dialog.save = i
  BY <1>3, KeptDialog DEF OneSave
<1>4. CASE dialog.save # i
  BY <1>1, <1>2, <1>4, KeptDialog DEF OneSave
<1> QED
  BY <1>3, <1>4

\* Opening a dialog.
LEMMA OpenedDialog ==
  ASSUME RowsGood, ViewGood, WriteGood, NEW v \in Viewer, NEW k \in WriteKinds, NEW i \in Saves \cup {0}, Opened(v, k, i),
         i # 0 => /\ saves[i].step \in {"sent", "applied", "refused"} /\ saves[i].kind = k /\ saves[i].mounted
  PROVE  RowsGood' /\ ViewGood' /\ WriteGood' /\ DialogGood'
<1>1. /\ dialog' = [kind |-> k, conn |-> v.query.conn, table |-> v.query.table, save |-> i]
      /\ UNCHANGED <<serverVars, viewVars, cacheVars, leaving, saves, owed, bounds>>
  BY DEF Opened
<1>2. UNCHANGED <<viewVars, cached, failed, fetching, leaving, owed, version>>
  BY <1>1 DEF cacheVars, serverVars
<1>3. RowsGood'
  BY <1>2, SameRows
<1>4. ViewGood' /\ ViewerKept
  BY <1>2, SameScreen
<1>5. WriteGood'
  <2>1. BoundTypes' /\ troubles <= troubles'
    BY <1>1, SameBounds DEF WriteGood
  <2> QED
    BY <1>1, <2>1, SameWrites
<1>6. v.query.table \in Tables /\ v.query.conn \in Conns
  BY ViewerFact DEF RowsGood
<1>7. dialog'.kind = k /\ dialog'.conn = v.query.conn /\ dialog'.table = v.query.table /\ dialog'.save = i
  BY <1>1
<1>8. DialogKnown'
  BY <1>1, <1>6, <1>7 DEF DialogKnown
<1>9. DialogOfTable'
  <2>1. PICK w \in Viewer' : Matches(v, w)
    BY <1>4 DEF ViewerKept
  <2> QED
    BY <1>7, <2>1 DEF DialogOfTable, Matches
<1>10. BusyDialogWaits'
  BY <1>1, <1>7 DEF BusyDialogWaits
<1> QED
  BY <1>3, <1>4, <1>5, <1>8, <1>9, <1>10 DEF DialogGood

-----------------------------------------------------------------------------
(***************************************************************************)
(* Every step keeps the invariant                                           *)
(***************************************************************************)
\* What the user turns to is fetched, and no dialog is in the way.
LEMMA TurnFact ==
  ASSUME Parts, ViewTypes', Uncovered, Turn, moves' \in 0..MaxMoves
  PROVE  Parts'
<1>1. /\ UNCHANGED <<serverVars, cached, owed, troubles>> /\ Observe(fetching) /\ dialog = Closed /\ Mount
  BY DEF Turn, Uncovered
<1>2. Asks(fetching, fetching') /\ failed' \subseteq OnScreen'
  BY <1>1, ObserveFact DEF Parts, RowsGood, WriteGood
<1>3. RowsGood'
  BY <1>1, <1>2, AsksRows DEF Parts, serverVars
<1>4. BoundTypes' /\ troubles <= troubles'
  BY <1>1, ConstFact DEF Parts, WriteGood, BoundTypes
<1>5. LeavingTypes' /\ saves' \in {saves, Unmounted(saves)} /\ dialog' = Closed
  BY <1>1, MountFact DEF Parts, RowsGood
<1>6. WriteGood'
  BY <1>1, <1>4, <1>5, SameWrites, UnmountedWrites DEF Parts
<1>7. DialogGood'
  BY <1>5, ClosedDialog
<1> QED
  BY <1>2, <1>3, <1>5, <1>6, <1>7 DEF Parts, ViewGood

\* The count of moves stays in its bound.
LEMMA MoveFact == ASSUME BoundTypes, moves < MaxMoves PROVE moves + 1 \in 0..MaxMoves /\ moves \in 0..MaxMoves
  BY ConstFact DEF BoundTypes

\* The user turns to another database, table, tab, page or order.
LEMMA ViewSteps ==
  ASSUME Parts,
         \/ \E c \in Conns : SelectConnection(c)
         \/ \E t \in Tables : SelectTable(t)
         \/ \E s \in Tabs : SelectTab(s)
         \/ \E l \in Limits : ChangePageSize(l)
         \/ ChangePage \/ Sort \/ Search
  PROVE  Parts'
<1>1. ViewTypes /\ BoundTypes
  BY DEF Parts, ViewGood, WriteGood
<1>2. moves \in 0..MaxMoves /\ (moves < MaxMoves => moves + 1 \in 0..MaxMoves)
  BY <1>1, MoveFact DEF BoundTypes
<1>3. ASSUME NEW c \in Conns, SelectConnection(c) PROVE Parts'
  <2>1. ViewTypes' /\ Uncovered /\ Turn
    BY <1>1, <1>3 DEF SelectConnection, ShowConnection, ViewTypes, Move
  <2>2. moves' \in 0..MaxMoves
    BY <1>2, <1>3 DEF SelectConnection, Move
  <2> QED
    BY <2>1, <2>2, TurnFact
<1>4. ASSUME NEW t \in Tables, SelectTable(t) PROVE Parts'
  <2>1. ViewTypes' /\ Uncovered /\ Turn
    BY <1>1, <1>4 DEF SelectTable, ShowTable, ViewTypes, Move
  <2>2. moves' \in 0..MaxMoves
    BY <1>2, <1>4 DEF SelectTable, Move
  <2> QED
    BY <2>1, <2>2, TurnFact
<1>5. ASSUME NEW s \in Tabs, SelectTab(s) PROVE Parts'
  <2>1. ViewTypes' /\ Uncovered /\ Turn
    BY <1>1, <1>5 DEF SelectTab, ViewTypes
  <2>2. moves' \in 0..MaxMoves
    BY <1>2, <1>5 DEF SelectTab
  <2> QED
    BY <2>1, <2>2, TurnFact
<1>6. CASE ChangePage
  <2>1. PICK v \in Viewer : (v.query.page > 1 /\ page' = v.query.page - 1) \/ page' = v.query.page + 1
    BY <1>6 DEF ChangePage
  <2>2. v.query.page \in Nat
    BY ViewerFact DEF Parts, RowsGood
  <2>3. page' \in Nat \ {0}
    BY <2>1, <2>2
  <2>4. ViewTypes' /\ Uncovered /\ Turn
    BY <1>1, <1>6, <2>3 DEF ChangePage, ViewTypes
  <2>5. moves' \in 0..MaxMoves
    BY <1>2, <1>6 DEF ChangePage
  <2> QED
    BY <2>4, <2>5, TurnFact
<1>7. ASSUME NEW l \in Limits, ChangePageSize(l) PROVE Parts'
  <2>1. ViewTypes' /\ Uncovered /\ Turn
    BY <1>1, <1>7 DEF ChangePageSize, ViewTypes, Move
  <2>2. moves' \in 0..MaxMoves
    BY <1>2, <1>7 DEF ChangePageSize, Move
  <2> QED
    BY <2>1, <2>2, TurnFact
<1>8. CASE Sort
  <2>1. sort' \in Tables
    BY <1>8, ViewerFact DEF Parts, RowsGood, Sort
  <2>2. ViewTypes' /\ Uncovered /\ Turn
    BY <1>1, <1>8, <2>1 DEF Sort, ViewTypes, Move
  <2>3. moves' \in 0..MaxMoves
    BY <1>2, <1>8 DEF Sort, Move
  <2> QED
    BY <2>2, <2>3, TurnFact
<1>9. CASE Search
  <2>1. search' \in BOOLEAN
    BY <1>9, Zenon DEF Search
  <2>2. ViewTypes' /\ Uncovered /\ Turn
    BY <1>1, <1>9, <2>1 DEF Search, ViewTypes, Move
  <2>3. moves' \in 0..MaxMoves
    BY <1>2, <1>9 DEF Search, Move
  <2> QED
    BY <2>2, <2>3, TurnFact
<1> QED
  BY <1>3, <1>4, <1>5, <1>6, <1>7, <1>8, <1>9

\* The user refreshes, or leaves and comes back.
LEMMA RefreshSteps ==
  ASSUME Parts, Refresh \/ ComeBack
  PROVE  Parts'
<1>1. RowsGood /\ ViewGood /\ ViewTypes /\ WriteGood /\ DialogGood /\ BoundTypes
  BY DEF Parts, ViewGood, WriteGood
<1>2. CASE Refresh
  <2>1. /\ UNCHANGED <<serverVars, viewVars, cached, leaving, dialog, saves, troubles>> /\ failed' = {}
        /\ moves < MaxMoves /\ moves' = moves + 1
    BY <1>2 DEF Refresh, Move
  <2>2. RowsGood'
    BY <1>1, <1>2, RefreshRows DEF WriteGood
  <2>3. BoundTypes' /\ troubles <= troubles'
    BY <1>1, <2>1, MoveFact, ConstFact DEF BoundTypes
  <2>4. ViewerKept
    <3>1. Table' = Table /\ UNCHANGED <<conn, tab>>
      BY <2>1, SameTable DEF viewVars
    <3> QED
      BY <2>1, <3>1, SameViewer
  <2>5. ViewGood'
    BY <1>1, <2>1 DEF ViewGood, ViewTypes, LeavingTypes, viewVars
  <2>6. WriteGood' /\ DialogGood'
    BY <1>1, <2>1, <2>3, <2>4, SameWrites, SameDialog
  <2> QED
    BY <2>2, <2>5, <2>6 DEF Parts
<1>3. CASE ComeBack
  <2>1. /\ UNCHANGED <<serverVars, cached, dialog, troubles>> /\ failed' = {} /\ leaving' = {}
        /\ saves' = [i \in Saves |-> Left(saves[i])] /\ dialog = Closed /\ moves < MaxMoves /\ moves' = moves + 1
        /\ conn' = First /\ table' = None /\ tab' = "structure"
        /\ page' = 1 /\ limit' = Smallest /\ sort' = None /\ search' = FALSE
    BY <1>3 DEF ComeBack, Move, Uncovered
  <2>2. RowsGood'
    BY <1>1, <1>3, ComeBackRows DEF WriteGood
  <2>3. BoundTypes'
    BY <1>1, <2>1, MoveFact DEF BoundTypes
  <2>4. ViewGood'
    <3>1. search' \in BOOLEAN
      BY <2>1, Zenon
    <3>2. /\ conn' \in Conns /\ table' \in Tables \cup {None} /\ tab' \in Tabs
          /\ page' \in Nat \ {0} /\ limit' \in Limits /\ sort' \in Tables \cup {None}
      BY <2>1, ConstFact, SmallestFact DEF Tabs
    <3>3. failed' \subseteq OnScreen' /\ LeavingTypes'
      BY <2>1 DEF LeavingTypes
    <3> QED
      BY <3>1, <3>2, <3>3, Zenon DEF ViewGood, ViewTypes
  <2>5. WriteGood' /\ DialogGood'
    BY <1>1, <2>1, <2>3, LeftWrites, ClosedDialog
  <2> QED
    BY <2>2, <2>4, <2>5 DEF Parts
<1> QED
  BY <1>2, <1>3

\* Dialogs are opened, closed and sent.
LEMMA DialogSteps ==
  ASSUME Parts,
         \/ InsertRow \/ EditCell \/ DeleteRow \/ InsertDocument \/ EditDocument \/ Escape
         \/ \E i \in Saves : Submit(i) \/ DeleteDocument(i)
  PROVE  Parts'
<1>1. RowsGood /\ ViewGood /\ ViewTypes /\ WriteGood /\ DialogGood /\ BoundTypes
  BY DEF Parts, ViewGood, WriteGood
<1>2. "insert" \in WriteKinds /\ "edit" \in WriteKinds /\ "delete" \in WriteKinds
  BY DEF WriteKinds
<1>3. ASSUME NEW k \in WriteKinds, NEW v \in Viewer, Opened(v, k, 0) PROVE Parts'
  BY <1>1, <1>3, OpenedDialog DEF Parts
<1>4. CASE InsertRow \/ EditCell \/ DeleteRow \/ EditDocument
  BY <1>2, <1>3, <1>4 DEF InsertRow, EditCell, DeleteRow, EditDocument
<1>5. CASE InsertDocument
  <2>1. CASE Resumed = {}
    BY <1>2, <1>3, <1>5, <2>1 DEF InsertDocument
  <2>2. CASE Resumed # {}
    <3>1. PICK i \in Resumed : \E v \in Viewer : Opened(v, "insert", i)
      BY <1>5, <2>2 DEF InsertDocument
    <3>2. i \in Saves /\ saves[i].kind = "insert" /\ saves[i].mounted /\ saves[i].step # "over"
      BY DEF Resumed
    <3>3. saves[i].step \in {"sent", "applied", "refused"}
      <4>1. saves[i].kind # None
        BY <3>2 DEF None
      <4>2. saves[i].step # None
        BY <1>1, <3>2, <4>1 DEF WriteGood, SavesKnown
      <4> QED
        BY <1>1, <3>2, <4>2 DEF WriteGood, SavesKnown, SaveRecord
    <3> QED
      BY <1>1, <1>2, <3>1, <3>2, <3>3, OpenedDialog DEF Parts
  <2> QED
    BY <2>1, <2>2
<1>6. ASSUME UNCHANGED <<serverVars, viewVars, cacheVars, leaving, owed, bounds>>
      PROVE  /\ RowsGood' /\ ViewGood' /\ BoundTypes' /\ troubles <= troubles' /\ ViewerKept
  <2>1. UNCHANGED <<viewVars, cached, failed, fetching, leaving, owed, version>>
    BY <1>6 DEF cacheVars, serverVars
  <2>2. RowsGood'
    BY <1>1, <2>1, SameRows
  <2>3. ViewGood' /\ ViewerKept
    BY <1>1, <2>1, SameScreen
  <2>4. BoundTypes' /\ troubles <= troubles'
    BY <1>1, <1>6, SameBounds
  <2> QED
    BY <2>1, <2>2, <2>3, <2>4
<1>7. CASE Escape
  <2>1. dialog' = Closed /\ UNCHANGED <<serverVars, viewVars, cacheVars, leaving, saves, owed, bounds>>
    BY <1>7 DEF Escape
  <2>2. RowsGood' /\ ViewGood' /\ BoundTypes' /\ troubles <= troubles'
    BY <1>6, <2>1
  <2>3. WriteGood' /\ DialogGood'
    BY <1>1, <2>1, <2>2, SameWrites, ClosedDialog
  <2> QED
    BY <2>2, <2>3 DEF Parts
<1>8. ASSUME NEW i \in Saves, Submit(i) PROVE Parts'
  <2>1. /\ dialog # Closed /\ dialog.save = 0 /\ i \in Next1 /\ Request(i, dialog.kind)
        /\ dialog' = [dialog EXCEPT !.save = i]
        /\ UNCHANGED <<serverVars, viewVars, cacheVars, leaving, owed, bounds>>
    BY <1>8 DEF Submit
  <2>2. RowsGood' /\ ViewGood' /\ ViewerKept
    BY <1>6, <2>1
  <2>3. /\ dialog.kind \in WriteKinds
        /\ dialog \in [kind : WriteKinds \cup {None}, conn : Conns \cup {None}, table : Tables \cup {None}, save : Saves \cup {0}]
    BY <1>1, <2>1 DEF DialogGood, DialogKnown
  <2>4. WriteGood'
    BY <1>1, <2>1, <2>3, RequestWrites
  <2>5. PICK r : OneSave(i, r) /\ r.step = "sent" /\ r.kind = dialog.kind /\ r.mounted = TRUE
    BY <1>1, <2>1, <2>3, RequestFact, Zenon
  <2>6. /\ dialog'.kind = dialog.kind /\ dialog'.conn = dialog.conn /\ dialog'.table = dialog.table /\ dialog'.save = i
        /\ dialog' \in [kind : WriteKinds \cup {None}, conn : Conns \cup {None}, table : Tables \cup {None}, save : Saves \cup {0}]
    BY <2>1, <2>3
  <2>7. DialogKnown'
    BY <2>3, <2>6 DEF DialogKnown
  <2>8. DialogOfTable'
    BY <1>1, <2>1, <2>2, <2>6, DialogStays DEF DialogGood
  <2>9. BusyDialogWaits'
    <3>1. saves'[i] = r
      BY <2>5 DEF OneSave
    <3> QED
      BY <2>5, <2>6, <3>1 DEF BusyDialogWaits
  <2> QED
    BY <2>2, <2>4, <2>7, <2>8, <2>9 DEF Parts, DialogGood
<1>9. ASSUME NEW i \in Saves, DeleteDocument(i) PROVE Parts'
  <2>1. /\ dialog = Closed /\ i \in Next1 /\ Request(i, "delete") /\ dialog' = dialog
        /\ UNCHANGED <<serverVars, viewVars, cacheVars, leaving, owed, bounds>>
    BY <1>9 DEF DeleteDocument, Uncovered
  <2>2. RowsGood' /\ ViewGood'
    BY <1>6, <2>1
  <2>3. WriteGood'
    BY <1>1, <1>2, <2>1, RequestWrites
  <2>4. DialogGood'
    BY <2>1, ClosedDialog
  <2> QED
    BY <2>2, <2>3, <2>4 DEF Parts
<1> QED
  BY <1>4, <1>5, <1>7, <1>8, <1>9

\* The animation ends: the viewer is gone, and its dialog.
LEMMA VanishStep == ASSUME Parts, Vanish PROVE Parts'
<1>1. /\ leaving' = {} /\ dialog' = Closed /\ saves' = Unmounted(saves)
      /\ UNCHANGED <<serverVars, viewVars, cached, fetching, failed, owed, version, bounds>>
  BY DEF Vanish, cacheVars, serverVars
<1>2. RowsGood'
  BY <1>1, SameRows DEF Parts
<1>3. ViewGood'
  <2>1. Table' = Table
    BY <1>1, SameTable DEF viewVars
  <2>2. OnScreen' = OnScreen
    BY <1>1, <2>1 DEF OnScreen, RowsQuery, viewVars
  <2> QED
    BY <1>1, <2>2 DEF Parts, ViewGood, ViewTypes, LeavingTypes, viewVars
<1>4. BoundTypes' /\ troubles' = troubles
  BY <1>1, SameBounds DEF Parts, WriteGood
<1>5. WriteGood' /\ DialogGood'
  BY <1>1, <1>4, UnmountedWrites, ClosedDialog DEF Parts
<1> QED
  BY <1>2, <1>3, <1>5 DEF Parts

\* Requests reach the server and are answered.
LEMMA SaveSteps ==
  ASSUME Parts, NEW i \in Saves, Apply(i) \/ Refuse(i) \/ Saved(i) \/ NotSaved(i) \/ LoseAnswer(i)
  PROVE  Parts'
<1>1. RowsGood /\ ViewGood /\ ViewTypes /\ WriteGood /\ DialogGood /\ BoundTypes /\ DataTypes
  BY DEF Parts, ViewGood, WriteGood
<1>2. ASSUME UNCHANGED <<viewVars, cacheVars, leaving>>
      PROVE  ViewGood' /\ ViewerKept /\ UNCHANGED <<cached, fetching>>
  <2>1. UNCHANGED <<viewVars, cached, failed, fetching, leaving>>
    BY <1>2 DEF cacheVars
  <2> QED
    BY <1>1, <2>1, SameScreen
<1>3. CASE Apply(i)
  <2>1. UNCHANGED <<present, viewVars, cacheVars, leaving, dialog, owed, bounds>>
    BY <1>3 DEF Apply
  <2>2. ViewGood' /\ ViewerKept /\ UNCHANGED <<cached, fetching>>
    BY <1>2, <2>1
  <2>3. /\ WriteGood' /\ \A c \in Conns, t \in Tables : version[c][t] <= version'[c][t]
        /\ \E r : OneSave(i, r) /\ r.step = "applied" /\ r.kind = saves[i].kind /\ r.mounted = saves[i].mounted
    BY <1>1, <1>3, ApplyFact
  <2>4. RowsGood'
    BY <1>1, <2>1, <2>2, <2>3, WriteRows DEF WriteGood
  <2>5. DialogGood'
    BY <1>1, <2>1, <2>2, <2>3, OneDialog
  <2> QED
    BY <2>2, <2>3, <2>4, <2>5 DEF Parts
<1>4. ASSUME saves[i].step \in {"sent", "applied"}, saves' = [saves EXCEPT ![i].step = "refused"], BoundTypes',
             UNCHANGED <<serverVars, viewVars, cacheVars, leaving, dialog, owed>>, troubles <= troubles'
      PROVE  Parts'
  <2>1. ViewGood' /\ ViewerKept /\ UNCHANGED <<cached, fetching>>
    BY <1>2, <1>4
  <2>2. RowsGood'
    BY <1>1, <1>4, <2>1, SameRows DEF serverVars
  <2>3. WriteGood' /\ \E r : OneSave(i, r) /\ r.step = "refused" /\ r.kind = saves[i].kind /\ r.mounted = saves[i].mounted
    BY <1>1, <1>4, RefusedWrites
  <2>4. DialogGood'
    BY <1>1, <1>4, <2>1, <2>3, OneDialog
  <2> QED
    BY <2>1, <2>2, <2>3, <2>4 DEF Parts
<1>5. CASE Refuse(i)
  <2>1. /\ saves[i].step = "sent" /\ saves' = [saves EXCEPT ![i].step = "refused"]
        /\ UNCHANGED <<serverVars, viewVars, cacheVars, leaving, dialog, owed, bounds>>
    BY <1>5 DEF Refuse
  <2>2. BoundTypes' /\ troubles <= troubles'
    BY <1>1, <2>1, SameBounds
  <2> QED
    BY <1>4, <2>1, <2>2
<1>6. CASE LoseAnswer(i)
  <2>1. /\ saves[i].step = "applied" /\ saves' = [saves EXCEPT ![i].step = "refused"]
        /\ troubles < MaxTroubles /\ troubles' = troubles + 1
        /\ UNCHANGED <<serverVars, viewVars, cacheVars, leaving, dialog, owed, moves>>
    BY <1>6 DEF LoseAnswer, Trouble
  <2>2. BoundTypes' /\ troubles <= troubles'
    BY <1>1, <2>1, ConstFact DEF BoundTypes
  <2> QED
    BY <1>4, <2>1, <2>2
<1>7. ASSUME NEW j \in Saves, j # i, Answered(i), UNCHANGED <<serverVars, bounds>> PROVE saves'[j] = saves[j]
  BY <1>1, <1>7, AnsweredWrites
<1>8. CASE NotSaved(i)
  <2>1. /\ Answered(i) /\ dialog' = Released(i)
        /\ UNCHANGED <<serverVars, viewVars, cacheVars, leaving, owed, bounds>>
    BY <1>8 DEF NotSaved
  <2>2. ViewGood' /\ ViewerKept /\ UNCHANGED <<cached, fetching>>
    BY <1>2, <2>1
  <2>3. RowsGood'
    BY <1>1, <2>1, <2>2, SameRows DEF serverVars
  <2>4. WriteGood'
    BY <1>1, <2>1, AnsweredWrites
  <2>5. DialogGood'
    <3>1. CASE dialog.save = i
      <4>1. dialog' = [dialog EXCEPT !.save = 0] /\ dialog # Closed
        BY <2>1, <3>1 DEF Released, Closed, Saves
      <4>2. /\ dialog.kind \in WriteKinds
            /\ dialog \in [kind : WriteKinds \cup {None}, conn : Conns \cup {None}, table : Tables \cup {None}, save : Saves \cup {0}]
        BY <1>1, <4>1 DEF DialogGood, DialogKnown
      <4>3. /\ dialog'.kind = dialog.kind /\ dialog'.conn = dialog.conn /\ dialog'.table = dialog.table /\ dialog'.save = 0
            /\ dialog' \in [kind : WriteKinds \cup {None}, conn : Conns \cup {None}, table : Tables \cup {None}, save : Saves \cup {0}]
        BY <4>1, <4>2
      <4>4. DialogKnown' /\ BusyDialogWaits'
        BY <4>2, <4>3 DEF DialogKnown, BusyDialogWaits
      <4>5. DialogOfTable'
        BY <1>1, <2>2, <4>1, <4>3, DialogStays DEF DialogGood
      <4> QED
        BY <4>4, <4>5 DEF DialogGood
    <3>2. CASE dialog.save # i
      <4>1. dialog' = dialog
        BY <2>1, <3>2 DEF Released
      <4>2. dialog.save # 0 => dialog.save \in Saves /\ saves[dialog.save].step \in {"sent", "applied", "refused"}
        BY <1>1 DEF DialogGood, DialogKnown, BusyDialogWaits
      <4>3. dialog.save # 0 => saves'[dialog.save] = saves[dialog.save]
        BY <1>7, <2>1, <3>2, <4>2
      <4> QED
        BY <1>1, <2>2, <4>1, <4>2, <4>3, KeptDialog
    <3> QED
      BY <3>1, <3>2
  <2> QED
    BY <2>2, <2>3, <2>4, <2>5 DEF Parts
<1>9. CASE Saved(i)
  <2>1. /\ saves[i].step = "applied" /\ Answered(i)
        /\ dialog' = IF saves[i].mounted /\ dialog.kind = saves[i].kind THEN Closed ELSE dialog
        /\ failed' = failed \ Again(saves[i])
        /\ UNCHANGED <<serverVars, viewVars, cached, leaving, bounds>>
    BY <1>9 DEF Saved
  <2>2. RowsGood'
    BY <1>1, <1>9, SavedRows DEF WriteGood
  <2>3. ViewerKept /\ Table' = Table
    <3>1. Table' = Table /\ UNCHANGED <<conn, tab>>
      BY <2>1, SameTable DEF viewVars
    <3> QED
      BY <2>1, <3>1, SameViewer
  <2>4. ViewGood'
    <3>1. OnScreen' = OnScreen
      BY <2>1, <2>3 DEF OnScreen, RowsQuery, viewVars
    <3> QED
      BY <1>1, <2>1, <3>1 DEF ViewGood, ViewTypes, LeavingTypes, viewVars
  <2>5. WriteGood'
    BY <1>1, <2>1, AnsweredWrites
  <2>6. DialogGood'
    <3>1. CASE saves[i].mounted /\ dialog.kind = saves[i].kind
      BY <2>1, <3>1, ClosedDialog
    <3>2. CASE ~(saves[i].mounted /\ dialog.kind = saves[i].kind)
      <4>1. dialog' = dialog
        BY <2>1, <3>2
      <4>2. dialog.save # 0 => /\ dialog.save \in Saves /\ saves[dialog.save].step \in {"sent", "applied", "refused"}
                               /\ saves[dialog.save].kind = dialog.kind /\ saves[dialog.save].mounted
        BY <1>1 DEF DialogGood, DialogKnown, BusyDialogWaits
      <4>3. dialog.save # 0 => dialog.save # i
        BY <3>2, <4>2
      <4>4. dialog.save # 0 => saves'[dialog.save] = saves[dialog.save]
        BY <1>7, <2>1, <4>2, <4>3
      <4> QED
        BY <1>1, <2>3, <4>1, <4>2, <4>4, KeptDialog
    <3> QED
      BY <3>1, <3>2
  <2> QED
    BY <2>2, <2>4, <2>5, <2>6 DEF Parts
<1> QED
  BY <1>3, <1>5, <1>6, <1>8, <1>9

\* Fetches are read, received, or fail.
LEMMA FetchSteps ==
  ASSUME Parts, NEW f \in fetching, Read(f) \/ Receive(f) \/ FailFetch(f)
  PROVE  Parts'
<1>1. RowsGood /\ ViewGood /\ ViewTypes /\ WriteGood /\ DialogGood /\ BoundTypes /\ DataTypes
  BY DEF Parts, ViewGood, WriteGood
<1>2. CASE Read(f)
  <2>1. UNCHANGED <<serverVars, viewVars, cached, failed, leaving, dialog, saves, owed, bounds>>
    BY <1>2 DEF Read
  <2>2. RowsGood'
    BY <1>1, <1>2, ReadRows
  <2>3. ViewGood' /\ ViewerKept
    BY <1>1, <2>1, SameScreen
  <2>4. BoundTypes' /\ troubles <= troubles'
    BY <1>1, <2>1, SameBounds
  <2>5. WriteGood' /\ DialogGood'
    BY <1>1, <2>1, <2>3, <2>4, SameWrites, SameDialog
  <2> QED
    BY <2>2, <2>3, <2>5 DEF Parts
<1>3. CASE Receive(f)
  <2>1. Mount /\ UNCHANGED <<viewVars, serverVars, bounds>>
    BY <1>3 DEF Receive
  <2>2. LeavingTypes' /\ saves' \in {saves, Unmounted(saves)}
        /\ (dialog' = Closed \/ (dialog' = dialog /\ saves' = saves /\ ViewerKept))
    BY <1>1, <2>1, MountFact DEF RowsGood
  <2>3. RowsGood' /\ ViewGood'
    BY <1>1, <1>3, <2>2, ReceiveRows DEF ViewGood
  <2>4. BoundTypes' /\ troubles' = troubles /\ troubles <= troubles'
    BY <1>1, <2>1, SameBounds
  <2>5. WriteGood'
    BY <1>1, <2>1, <2>2, <2>4, SameWrites, UnmountedWrites
  <2>6. DialogGood'
    BY <1>1, <2>2, SameDialog, ClosedDialog
  <2> QED
    BY <2>3, <2>5, <2>6 DEF Parts
<1>4. CASE FailFetch(f)
  <2>1. /\ UNCHANGED <<serverVars, viewVars, cached, leaving, dialog, saves, moves>>
        /\ failed' = failed \cup ({f.query} \cap OnScreen)
        /\ troubles' = troubles \/ (troubles < MaxTroubles /\ troubles' = troubles + 1)
    BY <1>4 DEF FailFetch, Trouble
  <2>2. RowsGood'
    BY <1>1, <1>4, FailRows
  <2>3. Table' = Table
    BY <2>1, SameTable DEF viewVars
  <2>4. OnScreen' = OnScreen
    BY <2>1, <2>3 DEF OnScreen, RowsQuery, viewVars
  <2>5. ViewGood'
    BY <1>1, <2>1, <2>4 DEF ViewGood, ViewTypes, LeavingTypes, viewVars
  <2>6. BoundTypes' /\ troubles <= troubles'
    BY <1>1, <2>1, ConstFact DEF BoundTypes
  <2>7. ViewerKept
    BY <2>1, <2>3, SameViewer DEF viewVars
  <2>8. WriteGood' /\ DialogGood'
    BY <1>1, <2>1, <2>6, <2>7, SameWrites, SameDialog
  <2> QED
    BY <2>2, <2>5, <2>8 DEF Parts
<1> QED
  BY <1>2, <1>3, <1>4

\* Others write, and drop tables.
LEMMA OutsideSteps ==
  ASSUME Parts, NEW c \in Shared, NEW t \in Tables, OutsideWrite(c, t) \/ DropTable(c, t)
  PROVE  Parts'
<1>1. RowsGood /\ ViewGood /\ WriteGood /\ DialogGood /\ BoundTypes /\ DataTypes /\ c \in Conns
  BY ConstFact DEF Parts, WriteGood
<1>2. UNCHANGED <<viewVars, cacheVars, leaving, dialog, saves, owed, moves>> /\ Trouble
  BY DEF OutsideWrite, DropTable
<1>3. present' \in [Conns -> SUBSET Tables]
  BY <1>1 DEF OutsideWrite, DropTable, DataTypes
<1>4. PICK n \in 0..MaxTableRows : Written(c, t, n)
  BY ConstFact DEF OutsideWrite, DropTable
<1>5. WriteGood' /\ \A d \in Conns, u \in Tables : version[d][u] <= version'[d][u]
  BY <1>1, <1>2, <1>3, <1>4, OutsideFact
<1>6. UNCHANGED <<viewVars, cached, failed, fetching, leaving>>
  BY <1>2 DEF cacheVars
<1>7. ViewGood' /\ ViewerKept
  BY <1>1, <1>6, SameScreen
<1>8. RowsGood'
  BY <1>1, <1>2, <1>5, <1>6, WriteRows DEF WriteGood
<1>9. DialogGood'
  BY <1>1, <1>2, <1>6, <1>7, SameDialog
<1> QED
  BY <1>5, <1>7, <1>8, <1>9 DEF Parts

\* A step of nobody keeps the invariant.
LEMMA StudioStutterFact == ASSUME Parts, UNCHANGED studioVars PROVE Parts'
<1>1. RowsGood /\ ViewGood /\ WriteGood /\ DialogGood /\ BoundTypes
  BY DEF Parts, WriteGood
<1>2. UNCHANGED <<serverVars, viewVars, cached, fetching, failed, leaving, dialog, saves, owed, bounds>>
  BY DEF studioVars, cacheVars
<1>3. version' = version
  BY <1>2 DEF serverVars
<1>4. BoundTypes' /\ troubles <= troubles'
  BY <1>1, <1>2, SameBounds
<1>5. ViewGood' /\ ViewerKept
  BY <1>1, <1>2, SameScreen
<1> QED
  BY <1>1, <1>2, <1>3, <1>4, <1>5, SameRows, SameWrites, SameDialog DEF Parts

\* The studio starts with the first database's schema on its way.
LEMMA StudioInitFact == ASSUME StudioInit PROVE Parts
<1> USE DEF StudioInit
<1>1. ViewGood
  <2>1. search \in BOOLEAN
    BY Zenon
  <2>2. /\ conn \in Conns /\ table \in Tables \cup {None} /\ tab \in Tabs
        /\ page \in Nat \ {0} /\ limit \in Limits /\ sort \in Tables \cup {None} /\ failed \subseteq OnScreen /\ LeavingTypes
    BY ConstFact, SmallestFact DEF Tabs, LeavingTypes
  <2> QED
    BY <2>1, <2>2, Zenon DEF ViewGood, ViewTypes
<1>2. DataTypes
  BY ConstFact DEF DataTypes, Writes
<1>3. BoundTypes
  BY ConstFact DEF BoundTypes
<1>4. \A i \in Saves : saves[i] = Unsent
  OBVIOUS
<1>5. Unsent \in SaveRecord /\ Unsent.step = None /\ Unsent.kind = None
  BY DEF Unsent, SaveRecord
<1>6. SavesKnown /\ AppliedInOrder
  BY <1>4, <1>5 DEF SavesKnown, AppliedInOrder, None
<1>7. WritesCounted
  <2>1. Answering \in SUBSET Saves
    BY DEF Answering
  <2>2. Cardinality(Answering) \in Nat
    BY <2>1, CountFact
  <2> QED
    BY <2>2 DEF WritesCounted
<1>8. DialogGood
  BY ConstFact DEF Closed, DialogGood, DialogKnown, DialogOfTable, BusyDialogWaits
<1>9. RowsGood
  <2>1. SchemaOf(First) \in Queries
    BY SchemaFact, ConstFact
  <2>2. FetchGood(fetching)
    BY <2>1 DEF FetchGood, FetchRecord
  <2> QED
    BY <2>2 DEF RowsGood, CacheGood, OwedTypes, ReadInOrder, OwedInOrder, OwnWritesShown
<1> QED
  BY <1>1, <1>2, <1>3, <1>6, <1>7, <1>8, <1>9 DEF Parts, WriteGood

\* Every step keeps it.
LEMMA StudioNextFact == ASSUME Parts, [StudioNext]_studioVars PROVE Parts'
<1>1. CASE UserStep
  BY <1>1, ViewSteps, RefreshSteps, DialogSteps DEF UserStep
<1>2. CASE Vanish \/ FetchStep
  BY <1>2, VanishStep, FetchSteps DEF FetchStep
<1>3. CASE SaveStep
  BY <1>3, SaveSteps DEF SaveStep
<1>4. ASSUME NEW i \in Saves, LoseAnswer(i) PROVE Parts'
  BY <1>4, SaveSteps
<1>5. ASSUME NEW c \in Shared, NEW t \in Tables, OutsideWrite(c, t) \/ DropTable(c, t) PROVE Parts'
  BY <1>5, OutsideSteps
<1>6. CASE UNCHANGED studioVars
  BY <1>6, StudioStutterFact
<1> QED
  BY <1>1, <1>2, <1>3, <1>4, <1>5, <1>6 DEF StudioNext

\* For any databases, tables and page sizes, whatever the user, the server and
\* others do: the cache has one entry for a query and one fetch of it, a dialog is
\* of the table whose viewer is mounted and waits only for a request that will be
\* answered, and what a request's page showed shows the write once its fetch is
\* through, except when that was the page's first fetch.
THEOREM StudioIsSound == StudioSpec => []StudioSound
<1>1. StudioInit => Parts
  BY StudioInitFact
<1>2. Parts /\ [StudioNext]_studioVars => Parts'
  BY StudioNextFact
<1>3. Parts => StudioSound
  BY PartsFact DEF StudioInv, StudioSound
<1> QED
  BY <1>1, <1>2, <1>3, PTL DEF StudioSpec

\* No step puts older rows in the cache.
LEMMA NotOlderFact ==
  ASSUME Parts, [StudioNext]_studioVars
  PROVE  [\A e \in cached, g \in cached' : g.query = e.query => g.at >= e.at]_studioVars
<1>1. ASSUME cached' = cached PROVE \A e \in cached, g \in cached' : g.query = e.query => g.at >= e.at
  <2>1. \A e \in cached : e.at \in Nat /\ \A g \in cached : g.query = e.query => g = e
    BY DEF Parts, RowsGood, CacheGood, Entries
  <2> QED
    BY <1>1, <2>1
<1>2. ASSUME NEW f \in fetching, Receive(f)
      PROVE  \A e \in cached, g \in cached' : g.query = e.query => g.at >= e.at
  <2>1. PICK e \in f.got : cached' = Stored(e)
    BY <1>2 DEF Receive
  <2> QED
    BY <2>1, StoredFact DEF Parts
<1>3. CASE UserStep
  BY <1>1, <1>3 DEF UserStep, SelectConnection, SelectTable, SelectTab, ChangePage, ChangePageSize, Sort, Search,
     Turn, Refresh, ComeBack, InsertRow, EditCell, DeleteRow, InsertDocument, EditDocument, Opened, Escape,
     Submit, DeleteDocument, cacheVars
<1>4. ASSUME NEW f \in fetching, Read(f) \/ FailFetch(f) PROVE cached' = cached
  BY <1>4 DEF Read, FailFetch
<1>5. CASE Vanish \/ FetchStep
  BY <1>1, <1>2, <1>4, <1>5 DEF FetchStep, Vanish, cacheVars
<1>6. ASSUME NEW i \in Saves, Apply(i) \/ Refuse(i) \/ Saved(i) \/ NotSaved(i) \/ LoseAnswer(i) PROVE cached' = cached
  BY <1>6 DEF Apply, Refuse, Saved, NotSaved, LoseAnswer, cacheVars
<1>7. ASSUME NEW c \in Shared, NEW t \in Tables, OutsideWrite(c, t) \/ DropTable(c, t) PROVE cached' = cached
  BY <1>7 DEF OutsideWrite, DropTable, cacheVars
<1>8. CASE UNCHANGED studioVars
  BY <1>8
<1> QED
  BY <1>1, <1>3, <1>5, <1>6, <1>7, <1>8 DEF StudioNext, SaveStep

\* No answer, however late, replaces rows by rows that were read earlier.
THEOREM PagesNeverGoBack == StudioSpec => NoOlderRows
<1>1. StudioInit => Parts
  BY StudioInitFact
<1>2. Parts /\ [StudioNext]_studioVars => Parts'
  BY StudioNextFact
<1>3. Parts /\ [StudioNext]_studioVars => [\A e \in cached, g \in cached' : g.query = e.query => g.at >= e.at]_studioVars
  BY NotOlderFact
<1> QED
  BY <1>1, <1>2, <1>3, PTL DEF StudioSpec, NoOlderRows

===============================================================================
