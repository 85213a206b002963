------------------------------- MODULE Export -------------------------------
(***************************************************************************)
(* export_parquet (src/src/export.rs): runs of the export command, one     *)
(* after the other, over tables that the ingestor goes on filling and in a *)
(* directory where files of earlier runs and of other programs lie.  Each  *)
(* file is opened before its query and can be read only once it is closed. *)
(* A query sees the tables as they were when it began; a sync of the       *)
(* ingestor may rename markets between the check of the names and it.      *)
(***************************************************************************)
EXTENDS Integers, Sequences, FiniteSets

CONSTANTS Rows,        \* Rows[d]: the rows that the ingestor may store in table d
          Names,       \* symbols.name of each symbols.id, as the syncs leave them
          Requests,    \* the command lines: trades, orderbooks, symbols, hours, overwrite
          BatchSize,   \* BATCH_SIZE
          AllRows,     \* a request without --hours
          MaxTime,     \* bound: time of the database
          MaxRuns      \* bound: runs of the command

Dataset == {"trades", "orderbooks"}
ASSUME ExportAssumption ==
  /\ BatchSize \in Nat \ {0}
  /\ AllRows \notin Nat
  /\ \A asked \in Requests : asked.hours \in Nat \cup {AllRows}
  /\ \A d \in Dataset : \A row \in Rows[d] : row.id \in Nat /\ row.time \in Nat
  /\ \A d \in Dataset : \A row1, row2 \in Rows[d] : row1.id = row2.id => row1 = row2

VARIABLES tables,   \* the rows of each table
          names,    \* the symbols table
          now,      \* the time of the database
          files,    \* the file of each dataset, or NoFile
          pc,       \* "done", "started", or what is done for `dataset`
          request,  \* the arguments of this run
          dataset,  \* the dataset being exported
          rows,     \* what the running query has still to return
          batch,    \* the rows in the batch builders
          result,   \* "ok", "error", or "none" while it runs
          run,      \* the number of this run
          queried   \* history: the tables and the time when this run's queries began

vars == <<tables, names, now, files, pc, request, dataset, rows, batch, result, run, queried>>

NoFile == [by |-> -1, rows |-> <<>>, closed |-> FALSE]
Foreign == [by |-> 0, rows |-> <<>>, closed |-> TRUE]
NotQueried == [table |-> {}, names |-> <<>>, now |-> -1]

Selected(d) == request[d]
\* The datasets in the order of the command.
First == IF Selected("trades") THEN "trades" ELSE "orderbooks"

Init ==
  /\ tables = [d \in Dataset |-> {}]
  /\ names \in Names
  /\ now = 0
  /\ files = [d \in Dataset |-> NoFile]
  /\ pc = "done"
  /\ request \in Requests
  /\ dataset = "trades"
  /\ rows = <<>> /\ batch = <<>>
  /\ result = "none"
  /\ run = 0
  /\ queried = [d \in Dataset |-> NotQueried]

\* The ingestor stores a row; times need not follow the order of ids.
Ingest(d) ==
  /\ \E row \in Rows[d] \ tables[d] :
       /\ row.time <= now
       /\ tables' = [tables EXCEPT ![d] = @ \cup {row}]
  /\ UNCHANGED <<names, now, files, pc, request, dataset, rows, batch, result, run, queried>>
\* An ingestor that starts again finds markets renamed.
Rename ==
  /\ names' \in Names \ {names}
  /\ UNCHANGED <<tables, now, files, pc, request, dataset, rows, batch, result, run, queried>>
Tick ==
  /\ now < MaxTime
  /\ now' = now + 1
  /\ UNCHANGED <<tables, names, files, pc, request, dataset, rows, batch, result, run, queried>>
\* Another program puts a file there.
FileAppears(d) ==
  /\ files[d] = NoFile
  /\ files' = [files EXCEPT ![d] = Foreign]
  /\ UNCHANGED <<tables, names, now, pc, request, dataset, rows, batch, result, run, queried>>
FileRemoved(d) ==
  /\ pc = "done"
  /\ files[d] # NoFile
  /\ files' = [files EXCEPT ![d] = NoFile]
  /\ UNCHANGED <<tables, names, now, pc, request, dataset, rows, batch, result, run, queried>>
-----------------------------------------------------------------------------
(* One run *)

Run ==
  /\ pc = "done"
  /\ run < MaxRuns
  /\ request' \in Requests
  /\ pc' = "started"
  /\ result' = "none"
  /\ run' = run + 1
  /\ queried' = [d \in Dataset |-> NotQueried]
  /\ UNCHANGED <<tables, names, now, files, dataset, rows, batch>>

End(outcome) ==
  /\ pc' = "done"
  /\ result' = outcome
  /\ rows' = <<>> /\ batch' = <<>>
  /\ UNCHANGED <<tables, names, now, request, dataset, run, queried>>

\* What the checks refuse before anything is touched.
Refused ==
  \/ \A d \in Dataset : ~Selected(d)
  \/ ~request.overwrite /\ \E d \in Dataset : Selected(d) /\ files[d] # NoFile
  \/ ~(request.symbols \subseteq {names[id] : id \in DOMAIN names})

Check ==
  /\ pc = "started"
  /\ ~Refused
  /\ pc' = "opening"
  /\ dataset' = First
  /\ UNCHANGED <<tables, names, now, files, request, rows, batch, result, run, queried>>
CheckRefused ==
  /\ pc = "started"
  /\ Refused
  /\ End("error")
  /\ UNCHANGED files

\* create and truncate, or create_new, which fails if the file is there.
MayOpenAnyway == TRUE
MayOpen == request.overwrite \/ files[dataset] = NoFile
ParquetWriter ==
  /\ pc = "opening"
  /\ MayOpen
  /\ files' = [files EXCEPT ![dataset] = [by |-> run, rows |-> <<>>, closed |-> FALSE]]
  /\ pc' = "querying"
  /\ UNCHANGED <<tables, names, now, request, dataset, rows, batch, result, run, queried>>
ParquetWriterFails ==
  /\ pc = "opening"
  /\ ~MayOpen
  /\ End("error")
  /\ UNCHANGED files

\* where_clause: a symbol is selected by name, so a perp and a spot market of
\* one name go together.
WhereClause(row) ==
  /\ request.symbols = {} \/ names[row.symbol] \in request.symbols
  /\ request.hours = AllRows \/ row.time >= now - request.hours
\* The columns of the join with symbols.
Columns(row, name) == [id |-> row.id, time |-> row.time, name |-> name]
OrderBy(row1, row2) ==
  row1.time < row2.time \/ (row1.time = row2.time /\ row1.id < row2.id)

\* The lists of the rows of a set, each once, in that order: there is one.
Listings(S) ==
  {list \in [1..Cardinality(S) -> S] :
     /\ {list[i] : i \in DOMAIN list} = S
     /\ \A i, j \in DOMAIN list : i < j => OrderBy(list[i], list[j])}

Query ==
  /\ pc = "querying"
  /\ rows' \in Listings({Columns(row, names[row.symbol]) :
                            row \in {r \in tables[dataset] : WhereClause(r)}})
  /\ queried' = [queried EXCEPT ![dataset] =
                   [table |-> tables[dataset], names |-> names, now |-> now]]
  /\ batch' = <<>>
  /\ pc' = "reading"
  /\ UNCHANGED <<tables, names, now, files, request, dataset, result, run>>
\* batch.write: the rows go to the file and the builders are left empty.
Written(more) == [files EXCEPT ![dataset].rows = @ \o more]

PushAgain ==
  /\ pc = "reading"
  /\ rows # <<>>
  /\ rows' = Tail(rows)
  /\ LET pushed == Append(batch, Head(rows)) IN
     IF Len(pushed) = BatchSize
     THEN files' = Written(pushed) /\ batch' = pushed
     ELSE batch' = pushed /\ UNCHANGED files
  /\ UNCHANGED <<tables, names, now, pc, request, dataset, result, run, queried>>
Push ==
  /\ pc = "reading"
  /\ rows # <<>>
  /\ rows' = Tail(rows)
  /\ LET pushed == Append(batch, Head(rows)) IN
     IF Len(pushed) = BatchSize
     THEN files' = Written(pushed) /\ batch' = <<>>
     ELSE batch' = pushed /\ UNCHANGED files
  /\ UNCHANGED <<tables, names, now, pc, request, dataset, result, run, queried>>

\* The rest of the batch, then the footer; then the other dataset.
CloseWithoutRest ==
  /\ pc = "reading"
  /\ rows = <<>>
  /\ files' = [files EXCEPT ![dataset].closed = TRUE]
  /\ IF dataset = "trades" /\ Selected("orderbooks")
     THEN /\ dataset' = "orderbooks" /\ pc' = "opening" /\ batch' = <<>>
          /\ UNCHANGED <<tables, names, now, request, rows, result, run, queried>>
     ELSE End("ok")
CloseEndingRun ==
  /\ pc = "reading"
  /\ rows = <<>>
  /\ files' = [Written(batch) EXCEPT ![dataset].closed = TRUE]
  /\ End("ok")
Close ==
  /\ pc = "reading"
  /\ rows = <<>>
  /\ files' = [Written(batch) EXCEPT ![dataset].closed = TRUE]
  /\ IF dataset = "trades" /\ Selected("orderbooks")
     THEN /\ dataset' = "orderbooks" /\ pc' = "opening" /\ batch' = <<>>
          /\ UNCHANGED <<tables, names, now, request, rows, result, run, queried>>
     ELSE End("ok")

\* The database, the disk or the process fails: what was opened stays as it is.
Fail ==
  /\ pc # "done"
  /\ End("error")
  /\ UNCHANGED files

Next ==
  \/ \E d \in Dataset : Ingest(d) \/ FileAppears(d) \/ FileRemoved(d)
  \/ Rename
  \/ Tick
  \/ Run
  \/ Check
  \/ CheckRefused
  \/ ParquetWriter
  \/ ParquetWriterFails
  \/ Query
  \/ Push
  \/ Close
  \/ Fail

Spec == Init /\ [][Next]_vars
-----------------------------------------------------------------------------
\* Types; a batch between two steps is below the batch size.
TypeOK ==
  /\ \A d \in Dataset : tables[d] \subseteq Rows[d]
  /\ dataset \in Dataset
  /\ Len(batch) < BatchSize
  /\ pc \in {"done", "started", "opening", "querying", "reading"}
  /\ pc \in {"done", "started"} => rows = <<>> /\ batch = <<>>

\* A file of this run that can be read holds the rows that its table had when
\* the query began, each once, in (time, id) order and under the name its market
\* had then, as far as the command line asked for them, however the batches fall,
\* whatever the ingestor stores and whichever markets it renames meanwhile, also
\* after the names were checked (export_trades, export_orderbooks).
ReadableFilesAreWhole ==
  \A d \in Dataset : files[d].by = run /\ files[d].closed /\ run > 0 =>
    LET exported == files[d].rows
        then == queried[d] IN
    /\ \A i, j \in DOMAIN exported : i < j => OrderBy(exported[i], exported[j])
    /\ {exported[i] : i \in DOMAIN exported} =
         {Columns(row, then.names[row.symbol]) : row \in
            {r \in then.table :
               /\ request.symbols # {} => then.names[r.symbol] \in request.symbols
               /\ request.hours # AllRows => then.now - r.time <= request.hours}}

\* A run that reports success wrote every file it was asked for, to the end.
SuccessMeansWritten ==
  [][(pc # "done" /\ result' = "ok") =>
       \A d \in Dataset : Selected(d) => files'[d].by = run /\ files'[d].closed]_vars

\* With --no-overwrite no file is touched that this run did not create, not
\* even one that appeared after the check; and a dataset that was not selected is
\* never touched (parquet_writer).
OthersFilesStay ==
  [][\A d \in Dataset :
       (/\ pc # "done"
        /\ files[d] # NoFile
        /\ files[d].by # run
        /\ ~request.overwrite \/ ~Selected(d))
       => files'[d] = files[d]]_vars
=============================================================================
