---------------------------- MODULE ExportProofs ----------------------------
(***************************************************************************)
(* Proofs about Export, for any tables, names, command lines and batches.  *)
(*                                                                         *)
(* While a dataset is read, its file, the batch and what the query has     *)
(* still to return are, one after the other, a listing of the answer       *)
(* (Reading); a push moves a row from the last to the second and a full    *)
(* batch from there to the first.  So when nothing is left to return, the  *)
(* file and the rest of the batch are the listing.                         *)
(***************************************************************************)
EXTENDS Export, FiniteSetTheorems, SequenceTheorems, TLAPS

\* The proofs about the writer, for its lemma of induction.
WP == INSTANCE WriterProofs WITH
  BookRow <- {}, TradeRow <- {}, KeyOf <- <<>>, ChannelCapacity <- 1, BatchCapacity <- 1,
  MaxSent <- 0, MaxExits <- 0, channel <- <<>>, batch <- <<>>, writing <- <<>>,
  phase <- "idle", trades <- {}, orderbook <- <<>>, sent <- <<>>, before <- 0, exits <- 0

LEMMA WriterAssumed == WP!WriterAssumption
BY DEF WP!WriterAssumption

-----------------------------------------------------------------------------
(* Sequences *)

\* A listing is a sequence of what it lists.
LEMMA ListingIsSeq ==
  ASSUME NEW S, IsFiniteSet(S), NEW list \in Listings(S)
  PROVE  list \in Seq(S)
<1>1. Cardinality(S) \in Nat
  BY FS_CardinalityType
<1>2. list \in [1..Cardinality(S) -> S]
  BY DEF Listings
<1>. QED  BY <1>1, <1>2, SeqDef

\* Rows of a smaller set.
LEMMA SeqWidens ==
  ASSUME NEW S, NEW T, S \subseteq T, NEW s \in Seq(S)
  PROVE  s \in Seq(T)
  BY ElementOfSeq, LenProperties, SeqDef

\* The next row to read is the row after the last of the batch.
LEMMA MovesToBatch ==
  ASSUME NEW S, NEW s \in Seq(S), NEW t \in Seq(S), t # <<>>
  PROVE  /\ Head(t) \in S /\ Tail(t) \in Seq(S)
         /\ Append(s, Head(t)) \in Seq(S)
         /\ Len(Append(s, Head(t))) = Len(s) + 1
         /\ Append(s, Head(t)) \o Tail(t) = s \o t
<1>1. Head(t) \in S /\ Tail(t) \in Seq(S) /\ <<Head(t)>> \in Seq(S)
  BY HeadTailProperties
<1>2. t = <<Head(t)>> \o Tail(t)
  OBVIOUS
<1>3. Append(s, Head(t)) = s \o <<Head(t)>>
  BY <1>1, AppendIsConcat
<1>4. (s \o <<Head(t)>>) \o Tail(t) = s \o (<<Head(t)>> \o Tail(t))
  BY <1>1, ConcatAssociative
<1>. QED  BY <1>1, <1>2, <1>3, <1>4, AppendProperties
-----------------------------------------------------------------------------
(* The inductive invariant *)

\* The answer that the query for d has to give.
Answer(d) ==
  {Columns(row, queried[d].names[row.symbol]) : row \in
     {r \in queried[d].table :
        /\ request.symbols # {} => queried[d].names[r.symbol] \in request.symbols
        /\ request.hours # AllRows => queried[d].now - r.time <= request.hours}}

\* The rows that files may hold.
Line == {Columns(row, then[row.symbol]) :
           row \in UNION {Rows[d] : d \in Dataset}, then \in Names}

Types ==
  /\ DOMAIN tables = Dataset
  /\ \A d \in Dataset : tables[d] \subseteq Rows[d] /\ IsFiniteSet(tables[d])
  /\ names \in Names
  /\ files \in [Dataset -> [by : Int, rows : Seq(Line), closed : BOOLEAN]]
  /\ {rows, batch} \subseteq Seq(Line)
  /\ DOMAIN queried = Dataset
  /\ request \in Requests
  /\ now \in Nat /\ run \in Nat
  /\ dataset \in Dataset
  /\ pc \in {"done", "started", "opening", "querying", "reading"}

\* No file is of a later run, and a run that is going on has not ended yet.
Runs ==
  /\ \A d \in Dataset : files[d].by <= run
  /\ pc # "done" => run > 0 /\ result = "none"

Opened(d) == files[d].by = run /\ ~files[d].closed
Finished(d) == files[d].by = run /\ files[d].closed /\ run > 0

\* What is done for `dataset` is done for one that was asked for, after the others.
InOrder ==
  pc \in {"opening", "querying", "reading"} =>
    /\ Selected(dataset)
    /\ dataset = "orderbooks" /\ Selected("trades") => Finished("trades")

\* Only a query that is read has rows in hand, and of its file, the batch and
\* what it has still to return nothing is missing.
Reading ==
  /\ pc # "reading" => rows = <<>> /\ batch = <<>>
  /\ pc = "querying" => Opened(dataset) /\ files[dataset].rows = <<>>
  /\ pc = "reading" =>
       /\ Opened(dataset)
       /\ files[dataset].rows \o (batch \o rows) \in Listings(Answer(dataset))
  /\ Len(batch) < BatchSize

Whole(d) == Finished(d) => files[d].rows \in Listings(Answer(d))

Inv ==
  /\ Types
  /\ Runs
  /\ InOrder
  /\ Reading
  /\ \A d \in Dataset : Whole(d)

\* A file of the running run is none of NoFile and Foreign.
LEMMA OtherFiles ==
  /\ {NoFile, Foreign} \subseteq [by : Int, rows : Seq(Line), closed : BOOLEAN]
  /\ NoFile.by = -1 /\ Foreign.by = 0
  BY EmptySeq DEF NoFile, Foreign

LEMMA InvHolds == Init => Inv
<1>. SUFFICES ASSUME Init PROVE Inv
  OBVIOUS
<1>1. Types
  BY EmptySeq, OtherFiles, FS_EmptySet DEF Init, Types, Dataset
<1>2. \A d \in Dataset : files[d].by = -1
  BY OtherFiles DEF Init
<1>3. Len(batch) < BatchSize
  BY EmptySeq, ExportAssumption DEF Init
<1>. QED  BY <1>1, <1>2, <1>3 DEF Init, Inv, Runs, InOrder, Reading, Whole, Finished

\* Steps that neither the command nor its files see.
LEMMA Outside ==
  ASSUME Inv, UNCHANGED <<files, pc, request, dataset, rows, batch, result, run, queried>>, Types'
  PROVE  Inv'
<1>1. \A d \in Dataset : Answer(d)' = Answer(d)
  BY DEF Answer
<1>2. dataset \in Dataset
  BY DEF Inv, Types
<1>3. Runs' /\ InOrder'
  BY DEF Inv, Runs, InOrder, Selected, Finished
<1>4. Reading'
  BY <1>1, <1>2 DEF Inv, Reading, Opened
<1>5. \A d \in Dataset : Whole(d)'
  BY <1>1 DEF Inv, Whole, Finished
<1>. QED  BY <1>3, <1>4, <1>5 DEF Inv

LEMMA InvIngest == ASSUME Inv, NEW d \in Dataset, Ingest(d) PROVE Inv'
<1>1. PICK row \in Rows[d] : tables' = [tables EXCEPT ![d] = @ \cup {row}]
  BY DEF Ingest
<1>2. \A e \in Dataset : tables'[e] \subseteq Rows[e] /\ IsFiniteSet(tables'[e])
  BY <1>1, FS_AddElement DEF Inv, Types
<1>. QED  BY <1>2, Outside DEF Ingest, Inv, Types

LEMMA InvRename == ASSUME Inv, Rename PROVE Inv'
  BY Outside DEF Rename, Inv, Types

LEMMA InvTick == ASSUME Inv, Tick PROVE Inv'
  BY Outside DEF Tick, Inv, Types
-----------------------------------------------------------------------------
(* Files that come and go, and the steps around the queries *)

\* The answer to a query depends on nothing else.
LEMMA SameAnswers ==
  ASSUME UNCHANGED <<request, queried>>
  PROVE  \A d \in Dataset : Answer(d)' = Answer(d)
  BY DEF Answer

LEMMA InvFileAppears == ASSUME Inv, NEW d \in Dataset, FileAppears(d) PROVE Inv'
<1>1. /\ files[d] = NoFile /\ files' = [files EXCEPT ![d] = Foreign]
      /\ UNCHANGED <<tables, names, now, pc, request, dataset, rows, batch, result, run, queried>>
  BY DEF FileAppears
<1>2. Types'
  BY <1>1, OtherFiles DEF Inv, Types
<1>3. files'[d].by = 0 /\ files[d].by = -1
  BY <1>1, OtherFiles DEF Inv, Types
<1>4. \A e \in Dataset : e # d => files'[e] = files[e]
  BY <1>1 DEF Inv, Types
<1>5. run \in Nat /\ dataset \in Dataset /\ "trades" \in Dataset
  BY DEF Inv, Types, Dataset
<1>6. Runs'
  BY <1>1, <1>3, <1>4, <1>5 DEF Inv, Runs
<1>7. \A e \in Dataset : Finished(e)' => e # d
  BY <1>1, <1>3, <1>5 DEF Finished
<1>8. \A e \in Dataset : Opened(e) \/ Finished(e) => e # d
  BY <1>3, <1>5 DEF Opened, Finished
<1>9. InOrder'
  BY <1>1, <1>4, <1>5, <1>8 DEF Inv, InOrder, Finished, Selected
<1>10. Reading'
  BY <1>1, <1>4, <1>5, <1>8, SameAnswers DEF Inv, Reading, Opened
<1>11. \A e \in Dataset : Whole(e)'
  BY <1>1, <1>4, <1>7, SameAnswers DEF Inv, Whole, Finished
<1>. QED  BY <1>2, <1>6, <1>9, <1>10, <1>11 DEF Inv

LEMMA InvFileRemoved == ASSUME Inv, NEW d \in Dataset, FileRemoved(d) PROVE Inv'
<1>1. /\ pc = "done" /\ files' = [files EXCEPT ![d] = NoFile]
      /\ UNCHANGED <<tables, names, now, pc, request, dataset, rows, batch, result, run, queried>>
  BY DEF FileRemoved
<1>2. Types'
  BY <1>1, OtherFiles DEF Inv, Types
<1>3. files'[d].by = -1
  BY <1>1, OtherFiles DEF Inv, Types
<1>4. \A e \in Dataset : e # d => files'[e] = files[e]
  BY <1>1 DEF Inv, Types
<1>5. run \in Nat
  BY DEF Inv, Types
<1>6. Runs'
  BY <1>1, <1>3, <1>4, <1>5 DEF Inv, Runs
<1>7. \A e \in Dataset : Finished(e)' => e # d
  BY <1>1, <1>3, <1>5 DEF Finished
<1>8. InOrder' /\ Reading'
  BY <1>1 DEF Inv, InOrder, Reading
<1>9. \A e \in Dataset : Whole(e)'
  BY <1>1, <1>4, <1>7, SameAnswers DEF Inv, Whole, Finished
<1>. QED  BY <1>2, <1>6, <1>8, <1>9 DEF Inv

\* No file is of a run that has just begun.
LEMMA InvRun == ASSUME Inv, Run PROVE Inv'
<1>1. /\ pc = "done" /\ request' \in Requests /\ pc' = "started" /\ result' = "none"
      /\ run' = run + 1 /\ DOMAIN queried' = Dataset
      /\ UNCHANGED <<tables, names, now, files, dataset, rows, batch>>
  BY DEF Run
<1>2. Types'
  BY <1>1 DEF Inv, Types
<1>3. \A d \in Dataset : files'[d].by \in Int /\ files'[d].by < run'
  BY <1>1 DEF Inv, Runs, Types
<1>4. run' \in Nat /\ run' > 0
  BY <1>1 DEF Inv, Types
<1>5. Runs'
  BY <1>1, <1>3, <1>4 DEF Runs
<1>6. \A d \in Dataset : Whole(d)'
  BY <1>3, <1>4 DEF Whole, Finished
<1>. QED  BY <1>1, <1>2, <1>5, <1>6 DEF Inv, InOrder, Reading

\* The end of a run, whatever it last did to its files.
LEMMA InvEnd ==
  ASSUME Inv, NEW outcome, End(outcome),
         files' \in [Dataset -> [by : Int, rows : Seq(Line), closed : BOOLEAN]],
         \A d \in Dataset : files'[d].by <= run,
         \A d \in Dataset : Whole(d)'
  PROVE  Inv'
<1>1. /\ pc' = "done" /\ rows' = <<>> /\ batch' = <<>>
      /\ UNCHANGED <<tables, names, now, request, dataset, run, queried>>
  BY DEF End
<1>2. Types'
  BY <1>1, EmptySeq DEF Inv, Types
<1>3. Reading'
  BY <1>1, EmptySeq, ExportAssumption DEF Reading
<1>. QED  BY <1>1, <1>2, <1>3 DEF Inv, Runs, InOrder

LEMMA InvEndsUnwritten ==
  ASSUME Inv, CheckRefused \/ ParquetWriterFails \/ Fail PROVE Inv'
<1>1. End("error") /\ files' = files
  BY DEF CheckRefused, ParquetWriterFails, Fail
<1>2. UNCHANGED <<request, run, queried>>
  BY <1>1 DEF End
<1>3. \A d \in Dataset : Whole(d)'
  BY <1>1, <1>2, SameAnswers DEF Inv, Whole, Finished
<1>. QED  BY <1>1, <1>3, InvEnd DEF Inv, Types, Runs

\* A dataset comes first only if it was asked for.
LEMMA InvCheck == ASSUME Inv, Check PROVE Inv'
<1>1. /\ pc = "started" /\ ~Refused /\ pc' = "opening" /\ dataset' = First
      /\ UNCHANGED <<tables, names, now, files, request, rows, batch, result, run, queried>>
  BY DEF Check
<1>2. /\ First \in Dataset /\ Selected(First)
      /\ First = "orderbooks" => ~Selected("trades")
  BY <1>1 DEF Refused, First, Dataset
<1>3. Types'
  BY <1>1, <1>2 DEF Inv, Types
<1>4. Selected("trades")' = Selected("trades") /\ Selected(First) = Selected(dataset)'
  BY <1>1 DEF Selected
<1>5. InOrder'
  BY <1>1, <1>2, <1>4 DEF InOrder
<1>6. Reading' /\ Runs'
  BY <1>1 DEF Inv, Reading, Runs
<1>7. \A d \in Dataset : Whole(d)'
  BY <1>1, SameAnswers DEF Inv, Whole, Finished
<1>. QED  BY <1>3, <1>5, <1>6, <1>7 DEF Inv
-----------------------------------------------------------------------------
(* The file of one dataset *)

\* A file that is opened is empty, and not one that has been finished.
LEMMA InvParquetWriter == ASSUME Inv, ParquetWriter PROVE Inv'
<1>1. /\ pc = "opening" /\ pc' = "querying"
      /\ files' = [files EXCEPT ![dataset] = [by |-> run, rows |-> <<>>, closed |-> FALSE]]
      /\ UNCHANGED <<tables, names, now, request, dataset, rows, batch, result, run, queried>>
  BY DEF ParquetWriter
<1>2. dataset \in Dataset /\ run \in Nat /\ "trades" \in Dataset
  BY DEF Inv, Types, Dataset
<1>3. files'[dataset] = [by |-> run, rows |-> <<>>, closed |-> FALSE]
  BY <1>1, <1>2 DEF Inv, Types
<1>4. \A d \in Dataset : d # dataset => files'[d] = files[d]
  BY <1>1, <1>2 DEF Inv, Types
<1>5. Types'
  BY <1>1, <1>2, EmptySeq DEF Inv, Types
<1>6. Runs'
  BY <1>1, <1>2, <1>3, <1>4 DEF Inv, Runs
<1>7. InOrder'
  BY <1>1, <1>2, <1>4 DEF Inv, InOrder, Finished, Selected
<1>8. Reading'
  BY <1>1, <1>3 DEF Inv, Reading, Opened
<1>9. \A d \in Dataset : Whole(d)'
  BY <1>1, <1>3, <1>4, SameAnswers DEF Inv, Whole, Finished
<1>. QED  BY <1>5, <1>6, <1>7, <1>8, <1>9 DEF Inv

\* A query sees the rows that are there when it begins, under the names of then.
LEMMA InvQuery == ASSUME Inv, Query PROVE Inv'
<1>. DEFINE found == {r \in tables[dataset] : WhereClause(r)}
            S == {Columns(row, names[row.symbol]) : row \in found}
            then == [table |-> tables[dataset], names |-> names, now |-> now]
<1>1. /\ pc = "querying" /\ pc' = "reading" /\ rows' \in Listings(S) /\ batch' = <<>>
      /\ queried' = [queried EXCEPT ![dataset] = then]
      /\ UNCHANGED <<tables, names, now, files, request, dataset, result, run>>
  BY DEF Query
<1>2. /\ dataset \in Dataset /\ tables[dataset] \subseteq Rows[dataset]
      /\ IsFiniteSet(tables[dataset]) /\ now \in Nat /\ names \in Names /\ request \in Requests
  BY DEF Inv, Types
<1>3. /\ DOMAIN queried' = Dataset /\ queried'[dataset] = then
      /\ \A d \in Dataset : d # dataset => queried'[d] = queried[d]
  BY <1>1, <1>2 DEF Inv, Types
<1>4. Answer(dataset)' = S
  <2>1. Answer(dataset)' =
          {Columns(row, names[row.symbol]) : row \in
             {r \in tables[dataset] :
                /\ request.symbols # {} => names[r.symbol] \in request.symbols
                /\ request.hours # AllRows => now - r.time <= request.hours}}
    <3>1. then.table = tables[dataset] /\ then.names = names /\ then.now = now
      OBVIOUS
    <3>. HIDE DEF then
    <3>. QED  BY <1>1, <1>3, <3>1 DEF Answer
  <2>2. ASSUME NEW r \in tables[dataset]
        PROVE  WhereClause(r) <=>
                 /\ request.symbols # {} => names[r.symbol] \in request.symbols
                 /\ request.hours # AllRows => now - r.time <= request.hours
    <3>1. r.time \in Nat /\ (request.hours # AllRows => request.hours \in Nat)
      BY <1>2, ExportAssumption
    <3>2. request.hours # AllRows =>
            (r.time >= now - request.hours <=> now - r.time <= request.hours)
      BY <1>2, <3>1
    <3>. QED  BY <3>2 DEF WhereClause
  <2>3. found = {r \in tables[dataset] :
                   /\ request.symbols # {} => names[r.symbol] \in request.symbols
                   /\ request.hours # AllRows => now - r.time <= request.hours}
    BY <2>2
  <2>. HIDE DEF found
  <2>. QED  BY <2>1, <2>3
<1>5. IsFiniteSet(S) /\ S \subseteq Line
  <2>1. IsFiniteSet(found) /\ found \subseteq Rows[dataset]
    BY <1>2, FS_Subset
  <2>. HIDE DEF found
  <2>2. [row \in found |-> Columns(row, names[row.symbol])] \in Surjection(found, S)
    BY DEF Surjection
  <2>3. IsFiniteSet(S)
    BY <2>1, <2>2, FS_Surjection
  <2>4. S \subseteq Line
    BY <1>2, <2>1 DEF Line
  <2>. QED  BY <2>3, <2>4
<1>. HIDE DEF S, then
<1>6. rows' \in Seq(Line)
  <2>1. rows' \in Seq(S)
    BY <1>1, <1>5, ListingIsSeq
  <2>. QED  BY <1>5, <2>1, SeqWidens
<1>7. Types'
  BY <1>1, <1>3, <1>6, EmptySeq DEF Inv, Types
<1>8. Runs' /\ InOrder'
  BY <1>1 DEF Inv, Runs, InOrder, Finished, Selected
<1>9. Reading'
  <2>1. Opened(dataset) /\ files[dataset].rows = <<>>
    BY <1>1 DEF Inv, Reading
  <2>2. files[dataset].rows \o (batch' \o rows') = rows'
    BY <1>1, <1>6, <2>1, ConcatEmptySeq
  <2>. QED  BY <1>1, <1>4, <2>1, <2>2, EmptySeq, ExportAssumption DEF Reading, Opened
<1>10. ASSUME NEW d \in Dataset PROVE Whole(d)'
  <2>1. CASE d = dataset
    BY <1>1, <2>1 DEF Inv, Reading, Opened, Whole, Finished
  <2>2. CASE d # dataset
    <3>1. Answer(d)' = Answer(d)
      BY <1>1, <1>3, <2>2 DEF Answer
    <3>. QED  BY <1>1, <3>1 DEF Inv, Whole, Finished
  <2>. QED  BY <2>1, <2>2
<1>. QED  BY <1>7, <1>8, <1>9, <1>10 DEF Inv

\* A batch goes to the end of its file and nowhere else.
LEMMA WrittenFile ==
  ASSUME Inv, NEW more \in Seq(Line)
  PROVE  /\ Written(more) \in [Dataset -> [by : Int, rows : Seq(Line), closed : BOOLEAN]]
         /\ Written(more)[dataset].by = files[dataset].by
         /\ Written(more)[dataset].rows = files[dataset].rows \o more
         /\ Written(more)[dataset].closed = files[dataset].closed
         /\ \A d \in Dataset : d # dataset => Written(more)[d] = files[d]
<1>1. /\ dataset \in Dataset
      /\ files \in [Dataset -> [by : Int, rows : Seq(Line), closed : BOOLEAN]]
  BY DEF Inv, Types
<1>2. files[dataset].rows \o more \in Seq(Line)
  BY <1>1, ConcatProperties
<1>. QED  BY <1>1, <1>2 DEF Written

\* A footer changes nothing but that the file can be read.
LEMMA ClosedFile ==
  ASSUME NEW written \in [Dataset -> [by : Int, rows : Seq(Line), closed : BOOLEAN]],
         dataset \in Dataset, files' = [written EXCEPT ![dataset].closed = TRUE]
  PROVE  /\ files' \in [Dataset -> [by : Int, rows : Seq(Line), closed : BOOLEAN]]
         /\ files'[dataset].by = written[dataset].by /\ files'[dataset].closed
         /\ files'[dataset].rows = written[dataset].rows
         /\ \A d \in Dataset : d # dataset => files'[d] = written[d]
  OBVIOUS

\* The file of this run is of no later one.
LEMMA OfNoLaterRun ==
  ASSUME Inv, files'[dataset].by = run,
         \A d \in Dataset : d # dataset => files'[d] = files[d]
  PROVE  \A d \in Dataset : files'[d].by <= run
<1>1. run \in Nat /\ run <= run /\ \A d \in Dataset : files[d].by <= run
  BY DEF Inv, Runs, Types
<1>. QED  BY <1>1, Zenon

\* A row goes from the query to the batch, and a full batch to the file.
LEMMA InvPush == ASSUME Inv, Push PROVE Inv'
<1>. PICK pushed : pushed = Append(batch, Head(rows))
  OBVIOUS
<1>1. /\ pc = "reading" /\ rows # <<>> /\ rows' = Tail(rows)
      /\ IF Len(pushed) = BatchSize
         THEN files' = Written(pushed) /\ batch' = <<>>
         ELSE batch' = pushed /\ UNCHANGED files
      /\ UNCHANGED <<tables, names, now, pc, request, dataset, result, run, queried>>
  BY DEF Push
<1>2. /\ dataset \in Dataset /\ rows \in Seq(Line) /\ batch \in Seq(Line)
      /\ files[dataset].rows \in Seq(Line)
      /\ Len(batch) \in Nat /\ Len(batch) < BatchSize
      /\ BatchSize \in Nat \ {0}
  BY <1>1, LenProperties, ExportAssumption DEF Inv, Types, Reading
<1>3. /\ Opened(dataset)
      /\ files[dataset].rows \o (batch \o rows) \in Listings(Answer(dataset))
  BY <1>1 DEF Inv, Reading
<1>4. /\ pushed \in Seq(Line) /\ rows' \in Seq(Line)
      /\ Len(pushed) = Len(batch) + 1 /\ pushed \o rows' = batch \o rows
  BY <1>1, <1>2, MovesToBatch
<1>5. CASE Len(pushed) = BatchSize
  <2>1. batch' = <<>> /\ files' = Written(pushed)
    BY <1>1, <1>5
  <2>2. /\ files' \in [Dataset -> [by : Int, rows : Seq(Line), closed : BOOLEAN]]
        /\ files'[dataset].by = run /\ ~files'[dataset].closed
        /\ files'[dataset].rows = files[dataset].rows \o pushed
        /\ \A d \in Dataset : d # dataset => files'[d] = files[d]
    BY <1>3, <1>4, <2>1, WrittenFile DEF Opened
  <2>3. Types'
    BY <1>1, <1>4, <2>1, <2>2, EmptySeq DEF Inv, Types
  <2>4. Runs'
    BY <1>1, <2>2, OfNoLaterRun DEF Inv, Runs
  <2>5. InOrder'
    <3>1. "trades" \in Dataset
      BY DEF Dataset
    <3>2. dataset = "orderbooks" => files'["trades"] = files["trades"]
      BY <2>2, <3>1
    <3>. QED  BY <1>1, <3>2 DEF Inv, InOrder, Finished, Selected
  <2>6. Reading'
    <3>1. (files[dataset].rows \o pushed) \o (<<>> \o rows') =
            files[dataset].rows \o (pushed \o rows')
      <4>1. \A s, t, u \in Seq(Line) : (s \o t) \o (<<>> \o u) = s \o (t \o u)
        BY ConcatEmptySeq, ConcatAssociative
      <4>. QED  BY <1>2, <1>4, <4>1, Zenon
    <3>2. files'[dataset].rows \o (batch' \o rows') \in Listings(Answer(dataset))
      BY <1>3, <1>4, <2>1, <2>2, <3>1
    <3>. QED  BY <1>1, <1>2, <2>1, <2>2, <3>2, SameAnswers, EmptySeq DEF Reading, Opened
  <2>7. ASSUME NEW d \in Dataset PROVE Whole(d)'
    BY <1>1, <2>2, SameAnswers DEF Inv, Whole, Finished
  <2>. QED  BY <2>3, <2>4, <2>5, <2>6, <2>7 DEF Inv
<1>6. CASE Len(pushed) # BatchSize
  <2>1. batch' = pushed /\ files' = files
    BY <1>1, <1>6
  <2>2. Types' /\ Runs' /\ InOrder'
    BY <1>1, <1>4, <2>1 DEF Inv, Types, Runs, InOrder, Finished, Selected
  <2>3. Len(batch') < BatchSize
    BY <1>2, <1>4, <1>6, <2>1
  <2>4. Reading'
    BY <1>1, <1>2, <1>3, <1>4, <2>1, <2>3, SameAnswers DEF Reading, Opened
  <2>5. \A d \in Dataset : Whole(d)'
    BY <1>1, <2>1, SameAnswers DEF Inv, Whole, Finished
  <2>. QED  BY <2>2, <2>4, <2>5 DEF Inv
<1>. QED  BY <1>5, <1>6

\* What Close leaves: the file is finished and whole, and so are the others.
LEMMA CloseFinishes ==
  ASSUME Inv, Close
  PROVE  /\ files' \in [Dataset -> [by : Int, rows : Seq(Line), closed : BOOLEAN]]
         /\ \A d \in Dataset : files'[d].by <= run
         /\ \A d \in Dataset : d # dataset => files'[d] = files[d]
         /\ files'[dataset].by = run /\ files'[dataset].closed
         /\ \A d \in Dataset : Whole(d)'
<1>1. /\ pc = "reading" /\ rows = <<>>
      /\ files' = [Written(batch) EXCEPT ![dataset].closed = TRUE]
      /\ UNCHANGED <<tables, names, now, request, run, queried>>
      /\ dataset' \in Dataset
  BY DEF Close, End, Inv, Types, Dataset
<1>2. dataset \in Dataset /\ batch \in Seq(Line) /\ run > 0
  BY <1>1 DEF Inv, Types, Runs
<1>3. /\ files' \in [Dataset -> [by : Int, rows : Seq(Line), closed : BOOLEAN]]
      /\ files'[dataset].by = run /\ files'[dataset].closed
      /\ files'[dataset].rows = files[dataset].rows \o batch
      /\ \A d \in Dataset : d # dataset => files'[d] = files[d]
  <2>1. files[dataset].by = run
    BY <1>1 DEF Inv, Reading, Opened
  <2>2. PICK written : written = Written(batch)
    OBVIOUS
  <2>3. /\ written \in [Dataset -> [by : Int, rows : Seq(Line), closed : BOOLEAN]]
        /\ written[dataset].by = run
        /\ written[dataset].rows = files[dataset].rows \o batch
        /\ \A d \in Dataset : d # dataset => written[d] = files[d]
    BY <1>2, <2>1, <2>2, WrittenFile
  <2>4. files' = [written EXCEPT ![dataset].closed = TRUE]
    BY <1>1, <2>2
  <2>. QED  BY <1>2, <2>3, <2>4, ClosedFile
<1>4. \A d \in Dataset : files'[d].by <= run
  BY <1>3, OfNoLaterRun
<1>5. files[dataset].rows \o batch \in Listings(Answer(dataset))
  BY <1>1, <1>2, ConcatEmptySeq DEF Inv, Reading
<1>6. ASSUME NEW d \in Dataset PROVE Whole(d)'
  BY <1>1, <1>3, <1>5, SameAnswers DEF Inv, Whole, Finished
<1>. QED  BY <1>3, <1>4, <1>6

\* The other dataset is next, or the run has succeeded.
LEMMA CloseGoesOn ==
  ASSUME Inv, Close
  PROVE  \/ /\ dataset = "trades" /\ Selected("orderbooks")
            /\ dataset' = "orderbooks" /\ pc' = "opening" /\ rows' = <<>> /\ batch' = <<>>
            /\ UNCHANGED <<tables, names, now, request, result, run, queried>>
         \/ /\ ~(dataset = "trades" /\ Selected("orderbooks"))
            /\ End("ok")
  BY DEF Close

LEMMA InvClose == ASSUME Inv, Close PROVE Inv'
<1>1. /\ files' \in [Dataset -> [by : Int, rows : Seq(Line), closed : BOOLEAN]]
      /\ \A d \in Dataset : files'[d].by <= run
      /\ files'[dataset].by = run /\ files'[dataset].closed
      /\ \A d \in Dataset : Whole(d)'
  BY CloseFinishes
<1>2. CASE /\ dataset = "trades" /\ Selected("orderbooks")
           /\ dataset' = "orderbooks" /\ pc' = "opening" /\ rows' = <<>> /\ batch' = <<>>
           /\ UNCHANGED <<tables, names, now, request, result, run, queried>>
  <2>1. pc # "done" /\ run > 0
    BY DEF Close, Inv, Runs
  <2>2. Types'
    BY <1>1, <1>2, EmptySeq DEF Inv, Types, Dataset
  <2>3. Runs'
    BY <1>1, <1>2, <2>1 DEF Inv, Runs
  <2>4. InOrder'
    BY <1>1, <1>2, <2>1 DEF InOrder, Selected, Finished
  <2>5. Reading'
    BY <1>2, EmptySeq, ExportAssumption DEF Reading
  <2>. QED  BY <1>1, <2>2, <2>3, <2>4, <2>5 DEF Inv
<1>3. CASE End("ok")
  BY <1>1, <1>3, InvEnd
<1>. QED  BY <1>2, <1>3, CloseGoesOn

LEMMA InvStep == ASSUME Inv, [Next]_vars PROVE Inv'
<1>1. CASE UNCHANGED vars
  <2>1. UNCHANGED <<files, pc, request, dataset, rows, batch, result, run, queried>>
    BY <1>1 DEF vars
  <2>2. Types'
    BY <1>1 DEF vars, Inv, Types
  <2>. QED  BY <2>1, <2>2, Outside
<1>. QED
  BY <1>1, InvIngest, InvRename, InvTick, InvFileAppears, InvFileRemoved, InvRun, InvCheck,
     InvEndsUnwritten, InvParquetWriter, InvQuery, InvPush, InvClose DEF Next

THEOREM Invariance == Spec => []Inv
<1>1. Init => Inv
  BY InvHolds
<1>2. Inv /\ [Next]_vars => Inv'
  BY InvStep
<1>. QED  BY <1>1, <1>2, PTL DEF Spec
-----------------------------------------------------------------------------
\* Types; a batch between two steps is below BATCH_SIZE, and no rows are in hand
\* outside of export_trades and export_orderbooks.
THEOREM TypeCorrect == Spec => []TypeOK
<1>1. Inv => TypeOK
  BY DEF Inv, Types, Reading, TypeOK
<1>. QED  BY <1>1, Invariance, PTL

\* Every file that a run closed holds exactly the answer to its query, in order,
\* for any tables, names, command lines and batch size, whatever is stored and
\* renamed meanwhile (export_trades, export_orderbooks).
THEOREM WholeFiles == Spec => []ReadableFilesAreWhole
<1>1. Inv => ReadableFilesAreWhole
  <2>. SUFFICES ASSUME Inv, NEW d \in Dataset,
                       files[d].by = run, files[d].closed, run > 0
                PROVE  LET exported == files[d].rows IN
                       /\ \A i, j \in DOMAIN exported : i < j => OrderBy(exported[i], exported[j])
                       /\ {exported[i] : i \in DOMAIN exported} = Answer(d)
    BY DEF ReadableFilesAreWhole, Answer
  <2>1. files[d].rows \in Listings(Answer(d))
    BY DEF Inv, Whole, Finished
  <2>. QED  BY <2>1 DEF Listings
<1>. QED  BY <1>1, Invariance, PTL

\* A run can only say that it succeeded when each file it was asked for is closed:
\* those before the last one were, and nothing touched them since (export_parquet).
THEOREM SuccessIsWritten == Spec => SuccessMeansWritten
<1>. DEFINE Success == (pc # "done" /\ result' = "ok") =>
              \A d \in Dataset : Selected(d) => files'[d].by = run /\ files'[d].closed
<1>1. Inv /\ [Next]_vars => Success
  <2>. SUFFICES ASSUME Inv, [Next]_vars, pc # "done", result' = "ok",
                       NEW d \in Dataset, Selected(d)
                PROVE  files'[d].by = run /\ files'[d].closed
    OBVIOUS
  <2>1. result = "none"
    BY DEF Inv, Runs
  <2>2. Close
    BY <2>1 DEF Next, vars, Ingest, Rename, Tick, FileAppears, FileRemoved, Run, Check,
         CheckRefused, ParquetWriter, ParquetWriterFails, Query, Push, Fail, End
  <2>3. ~(dataset = "trades" /\ Selected("orderbooks"))
    BY <2>1, <2>2, CloseGoesOn
  <2>4. /\ files'[dataset].by = run /\ files'[dataset].closed
        /\ \A e \in Dataset : e # dataset => files'[e] = files[e]
    BY <2>2, CloseFinishes
  <2>5. d # dataset => d = "trades" /\ dataset = "orderbooks"
    BY <2>3 DEF Inv, Types, Dataset
  <2>6. d # dataset => files[d].by = run /\ files[d].closed
    BY <2>2, <2>5 DEF Inv, InOrder, Finished, Close
  <2>. QED  BY <2>4, <2>6
<1>2. Inv /\ [Next]_vars => [Success]_vars
  BY <1>1
<1>. QED  BY <1>2, Invariance, PTL DEF Spec, SuccessMeansWritten

\* With --no-overwrite only files that the run created itself are written to, also
\* if others appear between the check and create_new, and a dataset that was not
\* selected keeps its file (parquet_writer).
THEOREM OthersFilesUntouched == Spec => OthersFilesStay
<1>. DEFINE Stay == \A d \in Dataset :
              (/\ pc # "done"
               /\ files[d] # NoFile
               /\ files[d].by # run
               /\ ~request.overwrite \/ ~Selected(d))
              => files'[d] = files[d]
<1>1. Inv /\ [Next]_vars => Stay
  <2>. SUFFICES ASSUME Inv, [Next]_vars, NEW d \in Dataset, pc # "done", files[d] # NoFile,
                       files[d].by # run, ~request.overwrite \/ ~Selected(d)
                PROVE  files'[d] = files[d]
    OBVIOUS
  <2>1. files \in [Dataset -> [by : Int, rows : Seq(Line), closed : BOOLEAN]]
    BY DEF Inv, Types
  <2>2. ASSUME NEW e \in Dataset, FileAppears(e) PROVE files'[d] = files[d]
    BY <2>1, <2>2 DEF FileAppears
  <2>3. CASE ParquetWriter
    <3>1. d # dataset
      BY <2>3 DEF ParquetWriter, MayOpen, Inv, InOrder
    <3>. QED  BY <2>1, <2>3, <3>1 DEF ParquetWriter
  <2>4. CASE Push
    <3>1. d # dataset
      BY <2>4 DEF Push, Inv, Reading, Opened
    <3>2. Written(Append(batch, Head(rows)))[d] = files[d]
      BY <2>1, <3>1 DEF Written
    <3>. QED  BY <2>4, <3>2 DEF Push
  <2>5. CASE Close
    <3>1. d # dataset
      BY <2>5 DEF Close, Inv, Reading, Opened
    <3>. QED  BY <2>5, <3>1, CloseFinishes
  <2>. QED
    BY <2>2, <2>3, <2>4, <2>5 DEF Next, vars, Ingest, Rename, Tick, FileRemoved, Run, Check,
       CheckRefused, ParquetWriterFails, Query, Fail
<1>2. Inv /\ [Next]_vars => [Stay]_vars
  BY <1>1
<1>. QED  BY <1>2, Invariance, PTL DEF Spec, OthersFilesStay
-----------------------------------------------------------------------------
(* That there is a listing: ORDER BY leaves no two rows without an order *)

\* Rows with a time and an id of their own.
Orderable(P) ==
  /\ \A row \in P : row.id \in Nat /\ row.time \in Nat
  /\ \A row1, row2 \in P : row1.id = row2.id => row1 = row2

LEMMA OrderOfRows ==
  ASSUME NEW P, Orderable(P), NEW a \in P, NEW b \in P
  PROVE  /\ a # b => OrderBy(a, b) \/ OrderBy(b, a)
         /\ \A c \in P : OrderBy(a, b) /\ OrderBy(b, c) => OrderBy(a, c)
  BY DEF Orderable, OrderBy

\* Some rows have a last one.
LEMMA LastRow ==
  ASSUME NEW P, IsFiniteSet(P), P # {}, Orderable(P)
  PROVE  \E m \in P : \A row \in P \ {m} : OrderBy(row, m)
<1>. DEFINE HasLast(Q) == \E m \in Q : \A row \in Q \ {m} : OrderBy(row, m)
            N == {n \in Nat : \A Q \in SUBSET P :
                    IsFiniteSet(Q) /\ Cardinality(Q) = n /\ Q # {} => HasLast(Q)}
<1>1. 0 \in N
  BY FS_EmptySet
<1>2. ASSUME NEW n \in Nat, n \in N PROVE n + 1 \in N
  <2>. SUFFICES ASSUME NEW Q \in SUBSET P, IsFiniteSet(Q), Cardinality(Q) = n + 1
                PROVE  HasLast(Q)
    OBVIOUS
  <2>1. PICK e : e \in Q
    BY FS_EmptySet
  <2>2. IsFiniteSet(Q \ {e}) /\ Cardinality(Q \ {e}) = n
    BY <2>1, FS_RemoveElement
  <2>3. CASE Q \ {e} = {}
    BY <2>1, <2>3
  <2>4. CASE Q \ {e} # {}
    <3>1. PICK m \in Q \ {e} : \A row \in (Q \ {e}) \ {m} : OrderBy(row, m)
      BY <1>2, <2>2, <2>4
    <3>2. OrderBy(e, m) \/ OrderBy(m, e)
      BY <2>1, OrderOfRows
    <3>3. CASE OrderBy(e, m)
      BY <3>1, <3>3
    <3>4. CASE OrderBy(m, e)
      <4>1. \A row \in Q \ {e} : row = m \/ (OrderBy(row, m) /\ row \in P /\ m \in P /\ e \in P)
        BY <2>1, <3>1
      <4>2. \A row \in Q \ {e} : OrderBy(row, e)
        BY <3>4, <4>1, OrderOfRows
      <4>. QED  BY <2>1, <4>2
    <3>. QED  BY <3>2, <3>3, <3>4
  <2>. QED  BY <2>3, <2>4
<1>. HIDE DEF N
<1>3. Nat \subseteq N
  BY <1>1, <1>2, WP!NatSetInduction, WriterAssumed
<1>4. Cardinality(P) \in Nat
  BY FS_CardinalityType
<1>. QED  BY <1>3, <1>4 DEF N

\* Some rows have a listing: one of the others, and then the last one.
LEMMA ListingExists ==
  ASSUME NEW P, IsFiniteSet(P), Orderable(P)
  PROVE  Listings(P) # {}
<1>. DEFINE N == {n \in Nat : \A Q \in SUBSET P :
                    IsFiniteSet(Q) /\ Cardinality(Q) = n => Listings(Q) # {}}
<1>1. 0 \in N
  <2>. SUFFICES ASSUME NEW Q \in SUBSET P, IsFiniteSet(Q), Cardinality(Q) = 0
                PROVE  Listings(Q) # {}
    OBVIOUS
  <2>1. Q = {}
    BY FS_EmptySet
  <2>2. <<>> \in [1..0 -> Q] /\ DOMAIN <<>> = {}
    OBVIOUS
  <2>3. <<>> \in Listings(Q)
    BY <2>1, <2>2 DEF Listings
  <2>. QED  BY <2>3
<1>2. ASSUME NEW n \in Nat, n \in N PROVE n + 1 \in N
  <2>. SUFFICES ASSUME NEW Q \in SUBSET P, IsFiniteSet(Q), Cardinality(Q) = n + 1
                PROVE  Listings(Q) # {}
    OBVIOUS
  <2>1. Q # {} /\ Orderable(Q)
    BY FS_EmptySet DEF Orderable
  <2>2. PICK m \in Q : \A row \in Q \ {m} : OrderBy(row, m)
    BY <2>1, LastRow
  <2>3. IsFiniteSet(Q \ {m}) /\ Cardinality(Q \ {m}) = n
    <3>1. IsFiniteSet(Q \ {m}) /\ Cardinality(Q \ {m}) = Cardinality(Q) - 1
      BY FS_RemoveElement
    <3>. QED  BY <3>1
  <2>4. PICK list \in Listings(Q \ {m}) : TRUE
    BY <1>2, <2>3
  <2>5. /\ list \in [1..n -> Q \ {m}]
        /\ \A row \in Q \ {m} : \E i \in 1..n : list[i] = row
        /\ \A i, j \in 1..n : i < j => OrderBy(list[i], list[j])
    <3>1. /\ list \in [1..n -> Q \ {m}]
          /\ {list[i] : i \in DOMAIN list} = Q \ {m}
          /\ \A i, j \in DOMAIN list : i < j => OrderBy(list[i], list[j])
      BY <2>3, <2>4 DEF Listings
    <3>2. DOMAIN list = 1..n
      BY <3>1
    <3>. QED  BY <3>1, <3>2
  <2>. DEFINE longer == [i \in 1..(n + 1) |-> IF i = n + 1 THEN m ELSE list[i]]
  <2>6. \A i \in 1..n : longer[i] = list[i] /\ list[i] \in Q \ {m} /\ i \in 1..(n + 1)
    BY <2>5
  <2>7. longer[n + 1] = m /\ n + 1 \in 1..(n + 1)
    OBVIOUS
  <2>8. \A i \in 1..(n + 1) : i \in 1..n \/ i = n + 1
    OBVIOUS
  <2>9. DOMAIN longer = 1..(n + 1) /\ longer = [i \in 1..(n + 1) |-> longer[i]]
    OBVIOUS
  <2>. HIDE DEF longer
  <2>10. longer \in [1..(n + 1) -> Q]
    BY <2>6, <2>7, <2>8, <2>9
  <2>11. {longer[i] : i \in DOMAIN longer} = Q
    <3>1. ASSUME NEW row \in Q PROVE \E i \in 1..(n + 1) : longer[i] = row
      <4>1. CASE row = m
        BY <2>7, <4>1
      <4>2. CASE row # m
        BY <2>5, <2>6, <4>2
      <4>. QED  BY <4>1, <4>2
    <3>. QED  BY <2>9, <2>10, <3>1
  <2>12. ASSUME NEW i \in 1..(n + 1), NEW j \in 1..(n + 1), i < j
         PROVE  OrderBy(longer[i], longer[j])
    <3>1. i \in 1..n
      BY <2>12
    <3>2. CASE j = n + 1
      BY <2>2, <2>6, <2>7, <3>1, <3>2
    <3>3. CASE j \in 1..n
      BY <2>5, <2>6, <2>12, <3>1, <3>3
    <3>. QED  BY <2>8, <3>2, <3>3
  <2>13. longer \in Listings(Q)
    BY <2>9, <2>10, <2>11, <2>12 DEF Listings
  <2>. QED  BY <2>13
<1>. HIDE DEF N
<1>3. Nat \subseteq N
  BY <1>1, <1>2, WP!NatSetInduction, WriterAssumed
<1>4. Cardinality(P) \in Nat
  BY FS_CardinalityType
<1>. QED  BY <1>3, <1>4 DEF N

\* Whatever the tables, the names and the command line, a query that can begin
\* has an answer to give: (time, id) leaves no two rows of a table without an
\* order, so Query is never held up by what it asks of rows' (ORDER BY).
THEOREM QueryAnswers ==
  Spec => [](\A S : S = {Columns(row, names[row.symbol]) :
                           row \in {r \in tables[dataset] : WhereClause(r)}}
                      => Listings(S) # {})
<1>1. Inv => \A S : S = {Columns(row, names[row.symbol]) :
                           row \in {r \in tables[dataset] : WhereClause(r)}}
                      => Listings(S) # {}
  <2>. DEFINE found == {r \in tables[dataset] : WhereClause(r)}
  <2>. SUFFICES ASSUME Inv, NEW S, S = {Columns(row, names[row.symbol]) : row \in found}
                PROVE  Listings(S) # {}
    OBVIOUS
  <2>1. /\ dataset \in Dataset /\ tables[dataset] \subseteq Rows[dataset]
        /\ IsFiniteSet(tables[dataset])
    BY DEF Inv, Types
  <2>2. IsFiniteSet(found) /\ found \subseteq Rows[dataset]
    BY <2>1, FS_Subset
  <2>. HIDE DEF found
  <2>3. [row \in found |-> Columns(row, names[row.symbol])] \in Surjection(found, S)
    BY DEF Surjection
  <2>4. IsFiniteSet(S)
    BY <2>2, <2>3, FS_Surjection
  <2>5. Orderable(S)
    BY <2>1, <2>2, ExportAssumption DEF Orderable, Columns
  <2>. QED  BY <2>4, <2>5, ListingExists
<1>. QED  BY <1>1, Invariance, PTL
=============================================================================
