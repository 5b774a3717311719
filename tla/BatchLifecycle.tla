-------------------------- MODULE BatchLifecycle --------------------------
(***************************************************************************)
(* The life of the batches of one file of one source: loads of the two     *)
(* kinds (the record-at-a-time runner and the chunked ingest), the guards  *)
(* against loading a file twice, rows that fail and are kept as errors,    *)
(* operators who abandon a batch, and replays of the failed rows.  Every   *)
(* step is one transaction; a process may die between any two of them and  *)
(* leaves its batch as it stands.                                          *)
(*                                                                         *)
(* What becomes of a stored row (verdict, entity, golden values) commits   *)
(* with it and is left to the other modules: here a row is held or not.    *)
(***************************************************************************)
EXTENDS Naturals, Sequences, FiniteSets, FiniteSetsExt

CONSTANTS
    RowCount,       \* rows of the file
    Unstorable,     \* rows the database refuses, for instance over a NUL byte
    ChunkSize,      \* rows of one chunk of the batch path
    Flags,          \* the values of --allow-reingest in use
    Loaders,        \* processes that load the file
    Replayers,      \* processes that run reprocess
    Operators,      \* people who abandon batches
    MaxLoads,       \* bound: loads started
    MaxFaults,      \* bound: transient failures
    MaxReplays,     \* bound: replays started
    MaxAbandons     \* bound: abandons started

Rows == 1..RowCount

ASSUME RowAssumption ==
    RowCount \in Nat \ {0} /\ ChunkSize \in Nat \ {0} /\ Unstorable \subseteq Rows
    /\ Flags \subseteq BOOLEAN
ASSUME BoundAssumption ==
    MaxLoads \in Nat /\ MaxFaults \in Nat /\ MaxReplays \in Nat /\ MaxAbandons \in Nat
\* Each command is a process of its own.
ASSUME ProcessAssumption ==
    /\ Loaders \cap Replayers = {} /\ Loaders \cap Operators = {}
    /\ Replayers \cap Operators = {}

VARIABLES
    batch,      \* the batch rows of this file, oldest first
    held,       \* held[b][n]: raw_record rows that batch b has for row n
    error,      \* error[b][n]: the status of the record_error row, or none
    loader,     \* loader[p]: the local state of a load
    replay,     \* replay[q]: the local state of a replay
    desk,       \* desk[o]: the batch an operator has found running
    budget      \* what the bounds leave

vars == <<batch, held, error, loader, replay, desk, budget>>

---------------------------------------------------------------------------
Batches == 1..Len(batch)
NoBatch == 0

Batch == [status : {"running", "completed", "failed"}, read : Nat, ingested : Nat,
          skipped : Nat, published : BOOLEAN]
Loader == [pc : {"idle", "checked", "clear", "loading", "closing", "publishing"},
           path : {"record", "batch"}, batch : Nat, read : Nat, done : Nat, failed : Nat]
Replay == [pc : {"idle", "next", "marking"}, todo : SUBSET (Nat \X Rows)]
Budget == [load : Nat, fault : Nat, replay : Nat, abandon : Nat]

NewBatch == [status |-> "running", read |-> 0, ingested |-> 0, skipped |-> 0,
             published |-> FALSE]
IdleLoader == [pc |-> "idle", path |-> "record", batch |-> NoBatch,
               read |-> 0, done |-> 0, failed |-> 0]
IdleReplay == [pc |-> "idle", todo |-> {}]

\* find_completed_batch and find_in_flight_batch
Has(status) == \E b \in Batches : batch[b].status = status

\* The order of open_errors_for_reprocess, the ids of batches ordered as they are.
First(todo) == CHOOSE x \in todo :
    \A y \in todo : x[1] < y[1] \/ (x[1] = y[1] /\ x[2] <= y[2])

OpenErrors == {x \in Batches \X Rows : error[x[1]][x[2]] = "open"}

Lesser(a, b) == IF a < b THEN a ELSE b
HeldRows(b) == MapThenSumSet(LAMBDA n : held[b][n], Rows)

---------------------------------------------------------------------------
Init ==
    /\ batch = <<>>
    /\ held = <<>>
    /\ error = <<>>
    /\ loader = [p \in Loaders |-> IdleLoader]
    /\ replay = [q \in Replayers |-> IdleReplay]
    /\ desk = [o \in Operators |-> NoBatch]
    /\ budget = [load |-> MaxLoads, fault |-> MaxFaults, replay |-> MaxReplays,
                 abandon |-> MaxAbandons]

\* A load is refused when the file has been loaded, unless --allow-reingest ...
CheckCompleted(p, path, again) ==
    /\ loader[p].pc = "idle"
    /\ budget.load > 0
    /\ Has("completed") => again
    /\ loader' = [loader EXCEPT ![p] = [IdleLoader EXCEPT !.pc = "checked", !.path = path]]
    /\ budget' = [budget EXCEPT !.load = @ - 1]
    /\ UNCHANGED <<batch, held, error, replay, desk>>

\* Faulty: a batch in flight stops nobody.
CheckNothing(p) ==
    /\ loader[p].pc = "checked"
    /\ loader' = [loader EXCEPT ![p].pc = "clear"]
    /\ UNCHANGED <<batch, held, error, replay, desk, budget>>

\* ... and when it is being loaded, whatever the flag.
CheckInFlight(p) ==
    /\ loader[p].pc = "checked"
    /\ loader' = [loader EXCEPT ![p] = IF Has("running") THEN IdleLoader
                                       ELSE [@ EXCEPT !.pc = "clear"]]
    /\ UNCHANGED <<batch, held, error, replay, desk, budget>>

CreateBatch(p) ==
    /\ loader[p].pc = "clear"
    /\ batch' = Append(batch, NewBatch)
    /\ held' = Append(held, [n \in Rows |-> 0])
    /\ error' = Append(error, [n \in Rows |-> "none"])
    /\ loader' = [loader EXCEPT ![p].pc = "loading", ![p].batch = Len(batch) + 1]
    /\ UNCHANGED <<replay, desk, budget>>

Loading(p, path) == loader[p].pc = "loading" /\ loader[p].path = path
NextRow(p) == loader[p].read + 1

\* The runner stores the next row with everything derived from it ...
StoreRow(p) ==
    /\ Loading(p, "record")
    /\ NextRow(p) \in Rows \ Unstorable
    /\ held' = [held EXCEPT ![loader[p].batch][NextRow(p)] = @ + 1]
    /\ loader' = [loader EXCEPT ![p].read = @ + 1, ![p].done = @ + 1]
    /\ UNCHANGED <<batch, error, replay, desk, budget>>

\* What a row that fails costs: nothing when the database refuses it for good,
\* one transient failure otherwise.
Fault(refused) ==
    IF refused THEN UNCHANGED budget
    ELSE budget.fault > 0 /\ budget' = [budget EXCEPT !.fault = @ - 1]

\* Faulty: the error is written before the rollback and goes with it.
RecordFailureThenRollBack(p) ==
    /\ Loading(p, "record")
    /\ NextRow(p) \in Rows
    /\ Fault(NextRow(p) \in Unstorable)
    /\ loader' = [loader EXCEPT ![p].read = @ + 1, ![p].failed = @ + 1]
    /\ UNCHANGED <<batch, held, error, replay, desk>>

\* ... or rolls it back, or screens it out, and keeps it as an open error.
RecordFailure(p) ==
    /\ Loading(p, "record")
    /\ NextRow(p) \in Rows
    /\ Fault(NextRow(p) \in Unstorable)
    /\ error' = [error EXCEPT ![loader[p].batch][NextRow(p)] = "open"]
    /\ loader' = [loader EXCEPT ![p].read = @ + 1, ![p].failed = @ + 1]
    /\ UNCHANGED <<batch, held, replay, desk>>

\* The runner flushes its record events and marks the batch published; with
\* --no-publish it leaves the mark unset.
MarkPublished(p, publish) ==
    /\ Loading(p, "record")
    /\ loader[p].read = RowCount
    /\ batch' = [batch EXCEPT ![loader[p].batch].published = @ \/ publish]
    /\ loader' = [loader EXCEPT ![p].pc = "closing"]
    /\ UNCHANGED <<held, error, replay, desk, budget>>

\* Faulty: a batch claims the rows it read.
FinishedWithRead(b, read, done, failed) ==
    [batch[b] EXCEPT !.status = "completed", !.read = read, !.ingested = read,
                     !.skipped = failed]

\* finish_batch sets the status and all three counters, whatever they were.
Finished(b, read, done, failed) ==
    [batch[b] EXCEPT !.status = "completed", !.read = read, !.ingested = done,
                     !.skipped = failed]

FinishRecords(p) ==
    LET l == loader[p]
    IN /\ l.pc = "closing"
       /\ batch' = [batch EXCEPT ![l.batch] = Finished(l.batch, l.read, l.done, l.failed)]
       /\ loader' = [loader EXCEPT ![p] = IdleLoader]
       /\ UNCHANGED <<held, error, replay, desk, budget>>

\* The batch path commits the next chunk whole ...
Chunk(p) == NextRow(p)..Lesser(loader[p].read + ChunkSize, RowCount)

StoreChunk(p) ==
    /\ Loading(p, "batch")
    /\ Chunk(p) # {}
    /\ Chunk(p) \cap Unstorable = {}
    /\ held' = [held EXCEPT ![loader[p].batch] =
                  [n \in Rows |-> @[n] + IF n \in Chunk(p) THEN 1 ELSE 0]]
    /\ loader' = [loader EXCEPT ![p].read = @ + Cardinality(Chunk(p)),
                                ![p].done = @ + Cardinality(Chunk(p))]
    /\ UNCHANGED <<batch, error, replay, desk, budget>>

\* ... or rolls it back and fails the batch; the chunks before it stay.
FailLoad(p) ==
    /\ Loading(p, "batch")
    /\ Chunk(p) # {}
    /\ Fault(Chunk(p) \cap Unstorable # {})
    /\ batch' = [batch EXCEPT ![loader[p].batch].status = "failed"]
    /\ loader' = [loader EXCEPT ![p] = IdleLoader]
    /\ UNCHANGED <<held, error, replay, desk>>

FinishIngest(p) ==
    LET l == loader[p]
    IN /\ Loading(p, "batch")
       /\ Chunk(p) = {}
       /\ batch' = [batch EXCEPT ![l.batch] = Finished(l.batch, l.read, l.done, 0)]
       /\ loader' = [loader EXCEPT ![p].pc = "publishing"]
       /\ UNCHANGED <<held, error, replay, desk, budget>>

\* The batch is announced once it is complete; a delivery that fails leaves the
\* mark unset.
PublishIngest(p, delivered) ==
    /\ loader[p].pc = "publishing"
    /\ batch' = [batch EXCEPT ![loader[p].batch].published = @ \/ delivered]
    /\ loader' = [loader EXCEPT ![p] = IdleLoader]
    /\ UNCHANGED <<held, error, replay, desk, budget>>

\* The process dies, or --fail-fast raises: the batch keeps its status.
Die(p) ==
    /\ loader[p].pc # "idle"
    /\ loader' = [loader EXCEPT ![p] = IdleLoader]
    /\ UNCHANGED <<batch, held, error, replay, desk, budget>>

---------------------------------------------------------------------------
\* Faulty: abandon does not look at the status.
FindAny(o, b) ==
    /\ desk[o] = NoBatch
    /\ budget.abandon > 0
    /\ desk' = [desk EXCEPT ![o] = b]
    /\ budget' = [budget EXCEPT !.abandon = @ - 1]
    /\ UNCHANGED <<batch, held, error, loader, replay>>

\* abandon reads that the batch is running ...
FindRunning(o, b) ==
    /\ desk[o] = NoBatch
    /\ budget.abandon > 0
    /\ batch[b].status = "running"
    /\ desk' = [desk EXCEPT ![o] = b]
    /\ budget' = [budget EXCEPT !.abandon = @ - 1]
    /\ UNCHANGED <<batch, held, error, loader, replay>>

\* ... and fail_batch fails it, whatever its status is by then.
Abandon(o) ==
    /\ desk[o] # NoBatch
    /\ batch' = [batch EXCEPT ![desk[o]].status = "failed"]
    /\ desk' = [desk EXCEPT ![o] = NoBatch]
    /\ UNCHANGED <<held, error, loader, replay, budget>>

\* reprocess lists the open errors of every batch once.
StartReplay(q) ==
    /\ replay[q].pc = "idle"
    /\ budget.replay > 0
    /\ OpenErrors # {}
    /\ replay' = [replay EXCEPT ![q] = [pc |-> "next", todo |-> OpenErrors]]
    /\ budget' = [budget EXCEPT !.replay = @ - 1]
    /\ UNCHANGED <<batch, held, error, loader, desk>>

\* The row goes through process, which commits it on its own ...
ReplayRow(q) ==
    LET x == First(replay[q].todo)
    IN /\ replay[q].pc = "next"
       /\ x[2] \notin Unstorable
       /\ held' = [held EXCEPT ![x[1]][x[2]] = @ + 1]
       /\ replay' = [replay EXCEPT ![q].pc = "marking"]
       /\ UNCHANGED <<batch, error, loader, desk, budget>>

\* When the list is used up the command ends.
After(q, x) == IF replay[q].todo = {x} THEN IdleReplay
               ELSE [pc |-> "next", todo |-> replay[q].todo \ {x}]

\* Faulty: the row is counted in, and stays counted as skipped.
CountOnlyIngested(q) ==
    LET x == First(replay[q].todo)
    IN /\ replay[q].pc = "marking"
       /\ error' = [error EXCEPT ![x[1]][x[2]] = "reprocessed"]
       /\ batch' = [batch EXCEPT ![x[1]].ingested = @ + 1]
       /\ replay' = [replay EXCEPT ![q] = After(q, x)]
       /\ UNCHANGED <<held, loader, desk, budget>>

\* Faulty: rows_skipped comes down without greatest.
CountBelowZero(q) ==
    LET x == First(replay[q].todo)
    IN /\ replay[q].pc = "marking"
       /\ error' = [error EXCEPT ![x[1]][x[2]] = "reprocessed"]
       /\ batch' = [batch EXCEPT ![x[1]].ingested = @ + 1, ![x[1]].skipped = @ - 1]
       /\ replay' = [replay EXCEPT ![q] = After(q, x)]
       /\ UNCHANGED <<held, loader, desk, budget>>

\* ... and a second transaction closes the error and counts the row.
MarkReprocessed(q) ==
    LET x == First(replay[q].todo)
        b == batch[x[1]]
    IN /\ replay[q].pc = "marking"
       /\ error' = [error EXCEPT ![x[1]][x[2]] = "reprocessed"]
       /\ batch' = [batch EXCEPT ![x[1]] =
                      [b EXCEPT !.ingested = @ + 1,
                                !.skipped = IF @ = 0 THEN 0 ELSE @ - 1]]
       /\ replay' = [replay EXCEPT ![q] = After(q, x)]
       /\ UNCHANGED <<held, loader, desk, budget>>

\* A row that fails again is open again, with its new error.
ReplayFailure(q) ==
    LET x == First(replay[q].todo)
    IN /\ replay[q].pc = "next"
       /\ Fault(x[2] \in Unstorable)
       /\ error' = [error EXCEPT ![x[1]][x[2]] = "open"]
       /\ replay' = [replay EXCEPT ![q] = After(q, x)]
       /\ UNCHANGED <<batch, held, loader, desk>>

ReplayDies(q) ==
    /\ replay[q].pc # "idle"
    /\ replay' = [replay EXCEPT ![q] = IdleReplay]
    /\ UNCHANGED <<batch, held, error, loader, desk, budget>>

---------------------------------------------------------------------------
Load(p) ==
    \/ \E path \in {"record", "batch"}, again \in Flags : CheckCompleted(p, path, again)
    \/ CheckInFlight(p) \/ CreateBatch(p)
    \/ StoreRow(p) \/ RecordFailure(p) \/ FinishRecords(p)
    \/ \E publish \in BOOLEAN : MarkPublished(p, publish)
    \/ StoreChunk(p) \/ FailLoad(p) \/ FinishIngest(p)
    \/ \E delivered \in BOOLEAN : PublishIngest(p, delivered)
    \/ Die(p)

Operate(o) == Abandon(o) \/ \E b \in Batches : FindRunning(o, b)

Reprocess(q) ==
    StartReplay(q) \/ ReplayRow(q) \/ MarkReprocessed(q) \/ ReplayFailure(q) \/ ReplayDies(q)

Next ==
    \/ \E p \in Loaders : Load(p)
    \/ \E o \in Operators : Operate(o)
    \/ \E q \in Replayers : Reprocess(q)

\* Every interleaving of loads, abandons and replays.
Spec == Init /\ [][Next]_vars

\* One command at a time.
Busy == {p \in Loaders : loader[p].pc # "idle"} \cup {q \in Replayers : replay[q].pc # "idle"}
            \cup {o \in Operators : desk[o] # NoBatch}
OneAtATime == \A a, b \in Busy : a = b

SerialSpec == Init /\ [][Next /\ OneAtATime']_vars

---------------------------------------------------------------------------
\* The shapes of the batch and record_error rows and of the commands' local
\* state; rows_skipped never drops below zero (greatest in count_reprocessed_row).
TypeOK ==
    /\ batch \in Seq(Batch)
    /\ held \in Seq([Rows -> Nat]) /\ Len(held) = Len(batch)
    /\ error \in Seq([Rows -> {"none", "open", "reprocessed"}]) /\ Len(error) = Len(batch)
    /\ loader \in [Loaders -> Loader] /\ \A p \in Loaders : loader[p].batch \in 0..Len(batch)
    /\ replay \in [Replayers -> Replay]
    /\ \A q \in Replayers : replay[q].todo \subseteq Batches \X Rows
    /\ desk \in [Operators -> 0..Len(batch)]
    /\ budget \in Budget

\* Whatever runs at once, crashes or is abandoned meanwhile, a batch that says
\* completed accounts for every row of its file: the row is there, or its failure
\* is open for somebody to replay (record_failure, mark_reprocessed).
NoRowLost ==
    \A b \in Batches, n \in Rows :
        batch[b].status = "completed" => held[b][n] > 0 \/ error[b][n] = "open"

\* A completed batch never claims a row it does not hold, with replays running
\* against it and against each other (finish_batch, count_reprocessed_row).
ClaimsOnlyWhatItHolds ==
    \A b \in Batches : batch[b].status = "completed" => batch[b].ingested <= HeldRows(b)

\* No two live batches of the same file: one is running or has completed, unless
\* --allow-reingest asks for more (find_in_flight_batch, find_completed_batch).
FileLoadedOnce ==
    TRUE \notin Flags =>
        \A a, b \in Batches :
            batch[a].status # "failed" /\ batch[b].status # "failed" => a = b

\* rows_skipped counts the failures still open of a completed batch, and with the
\* rows claimed they make up the file (finish_batch, count_reprocessed_row).
SkippedAreOpen ==
    \A b \in Batches :
        batch[b].status = "completed" =>
            /\ batch[b].skipped = Cardinality({n \in Rows : error[b][n] = "open"})
            /\ batch[b].ingested + batch[b].skipped = batch[b].read

\* A batch that has completed or failed keeps its verdict: abandon is only for a
\* batch that a dead process left running (_abandon).
VerdictStands ==
    [][\A b \in Batches : batch[b].status # "running" => batch'[b].status = batch[b].status]_vars

\* "rows_ingested is what the batch actually holds" (count_reprocessed_row): check 1
\* of verify.sql finds no completed batch that disagrees with its rows.  A replay
\* that dies after process has committed leaves a row that nothing counts.
RowsReconcile ==
    \A b \in Batches :
        batch[b].status = "completed" /\ (\A q \in Replayers : replay[q].pc = "idle")
            => batch[b].ingested = HeldRows(b)

\* A file is loaded by one run at a time (find_in_flight_batch): check and insert
\* are two transactions, so two runs that check together both go on.
OneLoadInFlight ==
    \A a, b \in Batches : batch[a].status = "running" /\ batch[b].status = "running" => a = b

===========================================================================
