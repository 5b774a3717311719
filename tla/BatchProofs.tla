---------------------------- MODULE BatchProofs ----------------------------
(***************************************************************************)
(* Proofs about BatchLifecycle, for every file, every number of loads,     *)
(* replays and operators, and every bound: types, rows that are kept,      *)
(* claims that are held, and what taking turns adds.                       *)
(***************************************************************************)
EXTENDS BatchLifecycle, SequenceTheorems, FiniteSetTheorems, WellFoundedInduction, TLAPS

---------------------------------------------------------------------------
(* The order in which a replay takes its rows.                             *)

\* A set of numbers has a least one.
LEMMA LeastNumber ==
    ASSUME NEW T \in SUBSET Nat, T # {}
    PROVE  \E x \in T : \A y \in T : x <= y
<1>1. \E x \in T : \A y \in T : ~(<<y, x>> \in OpToRel(<, Nat))
    BY NatLessThanWellFounded, WFMin
<1>2. PICK x \in T : \A y \in T : ~(<<y, x>> \in OpToRel(<, Nat))
    BY <1>1
<1>3. \A y \in T : ~(y < x)
    BY <1>2 DEF OpToRel
<1> QED
    BY <1>3

\* First picks a member of what is still to be replayed.
LEMMA FirstIsMember ==
    ASSUME NEW todo \in SUBSET (Nat \X Rows), todo # {}
    PROVE  First(todo) \in todo
<1> DEFINE batches == {x[1] : x \in todo}
<1>1. PICK b \in batches : \A c \in batches : b <= c
    <2>1. batches \in SUBSET Nat /\ batches # {}
        OBVIOUS
    <2> QED
        BY <2>1, LeastNumber
<1> DEFINE rows == {n \in Rows : <<b, n>> \in todo}
<1>2. PICK n \in rows : \A k \in rows : n <= k
    <2>1. rows \in SUBSET Nat
        BY DEF Rows
    <2>2. rows # {}
        <3>1. PICK x \in todo : x[1] = b
            BY <1>1
        <3>2. x = <<b, x[2]>> /\ x[2] \in Rows
            BY <3>1
        <3> QED
            BY <3>2, <3>1
    <2> QED
        BY <2>1, <2>2, LeastNumber
<1>3. \A y \in todo : b < y[1] \/ (b = y[1] /\ n <= y[2])
    <2> TAKE y \in todo
    <2>1. y = <<y[1], y[2]>> /\ y[1] \in Nat /\ y[2] \in Rows /\ y[1] \in batches /\ b \in Nat
        OBVIOUS
    <2>2. b <= y[1]
        BY <1>1, <2>1
    <2>3. CASE y[1] = b
        BY <2>1, <2>3, <1>2
    <2> QED
        BY <2>1, <2>2, <2>3
<1>4. <<b, n>> \in todo
    BY <1>2
<1> QED
    BY <1>3, <1>4 DEF First

---------------------------------------------------------------------------
(* Types.  A live load has a batch and a replay under way has rows left.   *)

ErrorRow == [Rows -> {"none", "open", "reprocessed"}]
Tables ==
    /\ batch \in Seq(Batch)
    /\ held \in Seq([Rows -> Nat]) /\ Len(held) = Len(batch)
    /\ error \in Seq(ErrorRow) /\ Len(error) = Len(batch)

Live(l) == l.pc \in {"loading", "closing", "publishing"}
LoadersOK ==
    /\ loader \in [Loaders -> Loader]
    /\ \A p \in Loaders : /\ loader[p].batch \in 0..Len(batch)
                          /\ Live(loader[p]) => loader[p].batch # NoBatch
ReplaysOK ==
    /\ replay \in [Replayers -> Replay]
    /\ \A q \in Replayers : /\ replay[q].todo \subseteq Batches \X Rows
                            /\ replay[q].pc # "idle" => replay[q].todo # {}
DesksOK == desk \in [Operators -> 0..Len(batch)]

TypeInv == Tables /\ LoadersOK /\ ReplaysOK /\ DesksOK /\ budget \in Budget

\* TypeInv strengthens the type invariant the runs check.
LEMMA TypeInvTypes == TypeInv => TypeOK
BY DEF TypeInv, TypeOK, Tables, LoadersOK, ReplaysOK, DesksOK, ErrorRow

\* The rows of one batch in the three tables.
LEMMA RowsOf ==
    ASSUME Tables, NEW b \in Batches
    PROVE  held[b] \in [Rows -> Nat] /\ error[b] \in ErrorRow /\ batch[b] \in Batch
BY DEF Tables, Batches

\* A step that sets one batch row.
LEMMA SetBatch ==
    ASSUME Tables, NEW b \in Batches, NEW row \in Batch, batch' = [batch EXCEPT ![b] = row]
    PROVE  /\ batch' \in Seq(Batch) /\ Len(batch') = Len(batch)
           /\ \A c \in Batches : batch'[c] = IF c = b THEN row ELSE batch[c]
BY ExceptSeq DEF Tables, Batches

\* A step that sets what a batch holds.
LEMMA SetHeld ==
    ASSUME Tables, NEW b \in Batches, NEW counts \in [Rows -> Nat],
           held' = [held EXCEPT ![b] = counts]
    PROVE  /\ held' \in Seq([Rows -> Nat]) /\ Len(held') = Len(held)
           /\ \A c \in Batches : held'[c] = IF c = b THEN counts ELSE held[c]
BY ExceptSeq DEF Tables, Batches

\* A step that holds one more raw_record for a row.
LEMMA HoldRow ==
    ASSUME Tables, NEW b \in Batches, NEW n \in Rows, held' = [held EXCEPT ![b][n] = @ + 1]
    PROVE  /\ held' \in Seq([Rows -> Nat]) /\ Len(held') = Len(held)
           /\ \A c \in Batches, k \in Rows :
                 held'[c][k] = IF c = b /\ k = n THEN held[c][k] + 1 ELSE held[c][k]
<1> DEFINE counts == [held[b] EXCEPT ![n] = @ + 1]
<1>1. held[b] \in [Rows -> Nat]
    BY RowsOf
<1>2. counts \in [Rows -> Nat] /\ \A k \in Rows :
          counts[k] = IF k = n THEN held[b][k] + 1 ELSE held[b][k]
    BY <1>1
<1>3. held' = [held EXCEPT ![b] = counts]
    OBVIOUS
<1> HIDE DEF counts
<1>4. /\ held' \in Seq([Rows -> Nat]) /\ Len(held') = Len(held)
      /\ \A c \in Batches : held'[c] = IF c = b THEN counts ELSE held[c]
    BY <1>2, <1>3, SetHeld
<1> QED
    BY <1>2, <1>4

\* A step that sets the errors of a batch.
LEMMA SetErrors ==
    ASSUME Tables, NEW b \in Batches, NEW row \in ErrorRow, error' = [error EXCEPT ![b] = row]
    PROVE  /\ error' \in Seq(ErrorRow) /\ Len(error') = Len(error)
           /\ \A c \in Batches : error'[c] = IF c = b THEN row ELSE error[c]
BY ExceptSeq DEF Tables, Batches

\* A step that sets the status of one record_error row.
LEMMA SetError ==
    ASSUME Tables, NEW b \in Batches, NEW n \in Rows,
           NEW status \in {"none", "open", "reprocessed"},
           error' = [error EXCEPT ![b][n] = status]
    PROVE  /\ error' \in Seq(ErrorRow) /\ Len(error') = Len(error)
           /\ \A c \in Batches, k \in Rows :
                 error'[c][k] = IF c = b /\ k = n THEN status ELSE error[c][k]
<1> DEFINE row == [error[b] EXCEPT ![n] = status]
<1>2. error[b] \in ErrorRow
    BY RowsOf
<1>3. row \in ErrorRow
    BY <1>2 DEF ErrorRow
<1>4. error' = [error EXCEPT ![b] = row]
    OBVIOUS
<1>5. \A k \in Rows : row[k] = IF k = n THEN status ELSE error[b][k]
    BY <1>2 DEF ErrorRow
<1> HIDE DEF row
<1>6. /\ error' \in Seq(ErrorRow) /\ Len(error') = Len(error)
      /\ \A c \in Batches : error'[c] = IF c = b THEN row ELSE error[c]
    BY <1>3, <1>4, SetErrors
<1>7. ASSUME NEW c \in Batches, NEW k \in Rows
      PROVE  error'[c][k] = IF c = b /\ k = n THEN status ELSE error[c][k]
    <2>1. CASE c = b
        BY <1>5, <1>6, <2>1
    <2>2. CASE c # b
        BY <1>6, <2>2
    <2> QED
        BY <2>1, <2>2
<1> QED
    BY <1>6, <1>7

\* What does not move keeps its type while batches are added.
LEMMA Untouched ==
    ASSUME TypeInv, Len(batch') \in Nat, Len(batch) <= Len(batch')
    PROVE  /\ UNCHANGED loader => LoadersOK'
           /\ UNCHANGED replay => ReplaysOK'
           /\ UNCHANGED desk => DesksOK'
<1>1. Len(batch) \in Nat
    BY DEF TypeInv, Tables
<1>2. 0..Len(batch) \subseteq 0..Len(batch') /\ Batches \subseteq Batches'
    BY <1>1 DEF Batches
<1>3. UNCHANGED loader => LoadersOK'
    BY <1>2 DEF TypeInv, LoadersOK
<1>4. UNCHANGED replay => ReplaysOK'
    BY <1>2 DEF TypeInv, ReplaysOK
<1>5. UNCHANGED desk => DesksOK'
    BY <1>2 DEF TypeInv, DesksOK
<1> QED
    BY <1>3, <1>4, <1>5

\* A load goes on with a local state of the right type.
LEMMA LoaderStep ==
    ASSUME TypeInv, Len(batch') \in Nat, Len(batch) <= Len(batch'),
           NEW p \in Loaders, NEW l \in Loader, l.batch \in 0..Len(batch'),
           Live(l) => l.batch # NoBatch, loader' = [loader EXCEPT ![p] = l]
    PROVE  LoadersOK'
<1>1. Len(batch) \in Nat
    BY DEF TypeInv, Tables
<1>2. loader' \in [Loaders -> Loader]
    BY DEF TypeInv, LoadersOK
<1>3. \A x \in Loaders : loader'[x] = IF x = p THEN l ELSE loader[x]
    BY DEF TypeInv, LoadersOK
<1>4. \A x \in Loaders : /\ loader[x].batch \in 0..Len(batch')
                         /\ Live(loader[x]) => loader[x].batch # NoBatch
    BY <1>1 DEF TypeInv, LoadersOK
<1> QED
    BY <1>2, <1>3, <1>4 DEF LoadersOK

\* A replay goes on with a local state of the right type.
LEMMA ReplayStep ==
    ASSUME TypeInv, Len(batch') = Len(batch),
           NEW q \in Replayers, NEW r \in Replay, r.todo \subseteq Batches \X Rows,
           r.pc # "idle" => r.todo # {}, replay' = [replay EXCEPT ![q] = r]
    PROVE  ReplaysOK'
<1>1. replay' \in [Replayers -> Replay]
    BY DEF TypeInv, ReplaysOK
<1>2. \A x \in Replayers : replay'[x] = IF x = q THEN r ELSE replay[x]
    BY DEF TypeInv, ReplaysOK
<1>3. Batches' = Batches
    BY DEF Batches
<1> QED
    BY <1>1, <1>2, <1>3 DEF TypeInv, ReplaysOK

\* A unit of a budget is spent.
LEMMA SpendType ==
    ASSUME NEW b \in Budget
    PROVE  /\ b.load > 0 => [b EXCEPT !.load = @ - 1] \in Budget
           /\ b.fault > 0 => [b EXCEPT !.fault = @ - 1] \in Budget
           /\ b.replay > 0 => [b EXCEPT !.replay = @ - 1] \in Budget
           /\ b.abandon > 0 => [b EXCEPT !.abandon = @ - 1] \in Budget
BY DEF Budget

\* A failure spends at most a unit of it.
LEMMA FaultType ==
    ASSUME TypeInv, NEW refused \in BOOLEAN, Fault(refused)
    PROVE  budget' \in Budget
BY SpendType DEF TypeInv, Fault

\* The rows of a chunk, and how many they are.
LEMMA ChunkRows ==
    ASSUME NEW p \in Loaders, loader[p].read \in Nat, Chunk(p) # {}
    PROVE  /\ Cardinality(Chunk(p)) \in Nat
           /\ Chunk(p) = (loader[p].read + 1)..(loader[p].read + Cardinality(Chunk(p)))
           /\ loader[p].read + Cardinality(Chunk(p)) <= RowCount
<1> DEFINE a == loader[p].read + 1
           b == Lesser(loader[p].read + ChunkSize, RowCount)
<1>1. a \in Int /\ b \in Int /\ b <= RowCount
    BY RowAssumption DEF Lesser
<1>2. Chunk(p) = a..b
    BY DEF Chunk, NextRow
<1>3. a <= b
    BY <1>1, <1>2
<1>4. Cardinality(a..b) = b - a + 1
    BY <1>1, <1>3, FS_Interval
<1> QED
    BY <1>1, <1>2, <1>3, <1>4

\* When no chunk is left the whole file has been read.
LEMMA NoChunkLeft ==
    ASSUME NEW p \in Loaders, loader[p].read \in Nat, Chunk(p) = {}
    PROVE  loader[p].read >= RowCount
<1> DEFINE a == loader[p].read + 1
           b == Lesser(loader[p].read + ChunkSize, RowCount)
<1>1. a \in Int /\ b \in Int /\ (a <= RowCount => a <= b)
    BY RowAssumption DEF Lesser
<1>2. a \notin a..b
    BY DEF Chunk, NextRow
<1>3. ~(a <= b)
    BY <1>1, <1>2
<1> QED
    BY <1>1, <1>3, RowAssumption

---------------------------------------------------------------------------
(* Each step of a load keeps the types.                                    *)

\* The tables stay as they are.
LEMMA SameTables ==
    ASSUME TypeInv, UNCHANGED <<batch, held, error>>
    PROVE  Tables' /\ Len(batch') \in Nat /\ Len(batch) <= Len(batch')
BY DEF TypeInv, Tables

\* The local state of a load, and the batch it is loading.
LEMMA LoadState ==
    ASSUME TypeInv, NEW p \in Loaders
    PROVE  /\ loader[p] \in Loader /\ loader[p].batch \in 0..Len(batch) /\ Len(batch) \in Nat
           /\ Live(loader[p]) => loader[p].batch \in Batches
<1>1. loader[p] \in Loader /\ loader[p].batch \in 0..Len(batch) /\ Len(batch) \in Nat
    BY DEF TypeInv, LoadersOK, Tables
<1>2. Live(loader[p]) => loader[p].batch # 0
    BY DEF TypeInv, LoadersOK, NoBatch
<1> QED
    BY <1>1, <1>2 DEF Batches

\* A command at rest.
LEMMA IdleType == IdleLoader \in Loader /\ IdleReplay \in Replay /\ ~Live(IdleLoader)
                  /\ IdleLoader.batch = 0 /\ IdleReplay.todo = {} /\ IdleReplay.pc = "idle"
BY DEF IdleLoader, IdleReplay, Loader, Replay, Live, NoBatch

\* A load that goes back to rest, whatever the step did to the tables.
LEMMA BackToIdle ==
    ASSUME TypeInv, Len(batch') \in Nat, Len(batch) <= Len(batch'),
           NEW p \in Loaders, loader' = [loader EXCEPT ![p] = IdleLoader]
    PROVE  LoadersOK'
<1>1. IdleLoader \in Loader /\ IdleLoader.batch \in 0..Len(batch')
      /\ (Live(IdleLoader) => IdleLoader.batch # NoBatch)
    BY IdleType
<1> QED
    BY <1>1, LoaderStep

\* The fields a load sets as it goes on.
LEMMA LoaderReads ==
    ASSUME NEW l \in Loader, NEW k \in Nat
    PROVE  /\ [l EXCEPT !.read = @ + k, !.done = @ + k] \in Loader
           /\ [l EXCEPT !.read = @ + k, !.failed = @ + k] \in Loader
<1>1. l.read + k \in Nat /\ l.done + k \in Nat /\ l.failed + k \in Nat
    BY DEF Loader
<1>2. \A a, b \in Nat : [l EXCEPT !.read = a, !.done = b] \in Loader
    BY DEF Loader
<1>3. \A a, b \in Nat : [l EXCEPT !.read = a, !.failed = b] \in Loader
    BY DEF Loader
<1> QED
    BY <1>1, <1>2, <1>3

\* The states and the batch a load moves on to.
LEMMA LoaderMoves ==
    ASSUME NEW l \in Loader, NEW pc \in {"clear", "loading", "closing", "publishing"}
    PROVE  /\ [l EXCEPT !.pc = pc] \in Loader
           /\ \A b \in Nat : [l EXCEPT !.pc = pc, !.batch = b] \in Loader
<1>1. [l EXCEPT !.pc = pc] \in Loader
    BY DEF Loader
<1>2. \A b \in Nat : [l EXCEPT !.pc = pc, !.batch = b] \in Loader
    BY DEF Loader
<1> QED
    BY <1>1, <1>2

\* CheckCompleted keeps the types.
LEMMA CheckCompletedType ==
    ASSUME TypeInv, NEW p \in Loaders, NEW path \in {"record", "batch"}, NEW again \in Flags,
           CheckCompleted(p, path, again)
    PROVE  TypeInv'
<1> DEFINE l == [IdleLoader EXCEPT !.pc = "checked", !.path = path]
<1>1. l \in Loader /\ l.batch = 0 /\ ~Live(l)
    BY DEF IdleLoader, Loader, Live, NoBatch
<1>2. Tables' /\ Len(batch') \in Nat /\ Len(batch) <= Len(batch')
    BY SameTables DEF CheckCompleted
<1>3. loader' = [loader EXCEPT ![p] = l]
    BY DEF CheckCompleted
<1> HIDE DEF l
<1>4. LoadersOK'
    <2>1. l.batch \in 0..Len(batch') /\ (Live(l) => l.batch # NoBatch)
        BY <1>1, <1>2
    <2> QED
        BY <1>1, <1>2, <1>3, <2>1, LoaderStep
<1>5. budget' \in Budget
    BY SpendType DEF CheckCompleted, TypeInv
<1> QED
    BY <1>2, <1>4, <1>5, Untouched DEF CheckCompleted, TypeInv

\* CheckInFlight keeps the types.
LEMMA CheckInFlightType ==
    ASSUME TypeInv, NEW p \in Loaders, CheckInFlight(p)
    PROVE  TypeInv'
<1> DEFINE clear == [loader[p] EXCEPT !.pc = "clear"]
           l == IF Has("running") THEN IdleLoader ELSE clear
<1>1. clear \in Loader /\ clear.batch \in 0..Len(batch) /\ ~Live(clear)
    <2>1. loader[p] \in Loader /\ loader[p].batch \in 0..Len(batch)
        BY LoadState
    <2>2. clear.batch = loader[p].batch /\ clear.pc = "clear"
        BY <2>1 DEF Loader
    <2> QED
        BY <2>1, <2>2, LoaderMoves DEF Live
<1>2. loader' = [loader EXCEPT ![p] = l]
    BY DEF CheckInFlight, TypeInv, LoadersOK
<1> HIDE DEF clear
<1>3. Tables' /\ Len(batch') \in Nat /\ Len(batch) <= Len(batch') /\ batch' = batch
    BY SameTables DEF CheckInFlight
<1>4. l \in Loader /\ l.batch \in 0..Len(batch') /\ (Live(l) => l.batch # NoBatch)
    BY <1>1, <1>3, IdleType
<1> HIDE DEF l
<1>5. LoadersOK'
    BY <1>2, <1>3, <1>4, LoaderStep, Zenon
<1> QED
    BY <1>3, <1>5, Untouched DEF CheckInFlight, TypeInv

\* CreateBatch keeps the types.
LEMMA CreateBatchType ==
    ASSUME TypeInv, NEW p \in Loaders, CreateBatch(p)
    PROVE  /\ TypeInv' /\ Len(batch') = Len(batch) + 1
           /\ \A b \in Batches : batch'[b] = batch[b] /\ held'[b] = held[b] /\ error'[b] = error[b]
           /\ batch'[Len(batch) + 1] = NewBatch
           /\ loader' = [loader EXCEPT ![p] = [@ EXCEPT !.pc = "loading", !.batch = Len(batch) + 1]]
<1> DEFINE l == [loader[p] EXCEPT !.pc = "loading", !.batch = Len(batch) + 1]
<1>1. NewBatch \in Batch
    BY DEF NewBatch, Batch
<1>2. [n \in Rows |-> 0] \in [Rows -> Nat] /\ [n \in Rows |-> "none"] \in ErrorRow
    BY DEF ErrorRow
<1>3. /\ batch' = Append(batch, NewBatch)
      /\ held' = Append(held, [n \in Rows |-> 0])
      /\ error' = Append(error, [n \in Rows |-> "none"])
    BY DEF CreateBatch
<1>4. /\ batch' \in Seq(Batch) /\ Len(batch') = Len(batch) + 1
      /\ \A b \in 1..Len(batch) : batch'[b] = batch[b]
      /\ batch'[Len(batch) + 1] = NewBatch
    BY <1>1, <1>3 DEF TypeInv, Tables
<1>5. /\ held' \in Seq([Rows -> Nat]) /\ Len(held') = Len(held) + 1
      /\ \A b \in 1..Len(held) : held'[b] = held[b]
    BY <1>2, <1>3 DEF TypeInv, Tables
<1>6. /\ error' \in Seq(ErrorRow) /\ Len(error') = Len(error) + 1
      /\ \A b \in 1..Len(error) : error'[b] = error[b]
    BY <1>2, <1>3 DEF TypeInv, Tables
<1>7. Len(held) = Len(batch) /\ Len(error) = Len(batch) /\ Len(batch) \in Nat
    BY DEF TypeInv, Tables
<1>8. Tables'
    BY <1>4, <1>5, <1>6, <1>7 DEF Tables
<1>9. l \in Loader /\ l.batch = Len(batch) + 1
    <2>1. loader[p] \in Loader
        BY LoadState
    <2>2. l \in Loader
        <3>1. \A b \in Nat : [loader[p] EXCEPT !.pc = "loading", !.batch = b] \in Loader
            BY <2>1, LoaderMoves
        <3>2. Len(batch) + 1 \in Nat
            BY <1>7
        <3> QED
            BY <3>1, <3>2
    <2> QED
        BY <2>1, <2>2 DEF Loader
<1>10. loader' = [loader EXCEPT ![p] = l]
    BY DEF CreateBatch, TypeInv, LoadersOK
<1> HIDE DEF l
<1>11. Len(batch') \in Nat /\ Len(batch) <= Len(batch')
    BY <1>4, <1>7
<1>12. LoadersOK'
    <2>1. l.batch \in 0..Len(batch') /\ l.batch # NoBatch
        BY <1>4, <1>7, <1>9 DEF NoBatch
    <2> QED
        BY <1>9, <1>10, <1>11, <2>1, LoaderStep
<1>13. TypeInv'
    BY <1>8, <1>11, <1>12, Untouched DEF CreateBatch, TypeInv
<1>14. \A b \in Batches :
          batch'[b] = batch[b] /\ held'[b] = held[b] /\ error'[b] = error[b]
    BY <1>4, <1>5, <1>6, <1>7 DEF Batches
<1> QED
    BY <1>4, <1>10, <1>13, <1>14 DEF l

\* StoreRow keeps the types.
LEMMA StoreRowType ==
    ASSUME TypeInv, NEW p \in Loaders, StoreRow(p)
    PROVE  TypeInv'
<1> DEFINE l == [loader[p] EXCEPT !.read = @ + 1, !.done = @ + 1]
<1>0. loader[p] \in Loader /\ Len(batch) \in Nat
    BY LoadState
<1>1. loader[p].batch \in Batches /\ NextRow(p) \in Rows
    BY LoadState DEF StoreRow, Loading, Live
<1>2. held' = [held EXCEPT ![loader[p].batch][NextRow(p)] = @ + 1]
    BY DEF StoreRow
<1>3. held' \in Seq([Rows -> Nat]) /\ Len(held') = Len(held)
    BY <1>1, <1>2, HoldRow DEF TypeInv
<1>4. Tables' /\ Len(batch') \in Nat /\ Len(batch) <= Len(batch') /\ batch' = batch
    BY <1>3 DEF StoreRow, TypeInv, Tables
<1>5. l \in Loader /\ l.batch \in 0..Len(batch') /\ l.batch # NoBatch
    <2>1. l \in Loader
        BY <1>0, LoaderReads
    <2>2. l.batch = loader[p].batch
        BY <1>0 DEF Loader
    <2> QED
        BY <1>0, <1>1, <1>4, <2>1, <2>2 DEF Batches, NoBatch
<1>6. loader' = [loader EXCEPT ![p] = l]
    BY DEF StoreRow, TypeInv, LoadersOK
<1> HIDE DEF l
<1>7. LoadersOK'
    BY <1>4, <1>5, <1>6, LoaderStep
<1> QED
    BY <1>4, <1>7, Untouched DEF StoreRow, TypeInv

\* RecordFailure keeps the types.
LEMMA RecordFailureType ==
    ASSUME TypeInv, NEW p \in Loaders, RecordFailure(p)
    PROVE  TypeInv'
<1> DEFINE l == [loader[p] EXCEPT !.read = @ + 1, !.failed = @ + 1]
<1>0. loader[p] \in Loader /\ Len(batch) \in Nat
    BY LoadState
<1>1. loader[p].batch \in Batches /\ NextRow(p) \in Rows
    BY LoadState DEF RecordFailure, Loading, Live
<1>2. error' = [error EXCEPT ![loader[p].batch][NextRow(p)] = "open"]
    BY DEF RecordFailure
<1>3. error' \in Seq(ErrorRow) /\ Len(error') = Len(error)
    BY <1>1, <1>2, SetError DEF TypeInv
<1>4. Tables' /\ Len(batch') \in Nat /\ Len(batch) <= Len(batch') /\ batch' = batch
    BY <1>3 DEF RecordFailure, TypeInv, Tables
<1>5. l \in Loader /\ l.batch \in 0..Len(batch') /\ l.batch # NoBatch
    <2>1. l \in Loader
        BY <1>0, LoaderReads
    <2>2. l.batch = loader[p].batch
        BY <1>0 DEF Loader
    <2> QED
        BY <1>0, <1>1, <1>4, <2>1, <2>2 DEF Batches, NoBatch
<1>6. loader' = [loader EXCEPT ![p] = l]
    BY DEF RecordFailure, TypeInv, LoadersOK
<1> HIDE DEF l
<1>7. LoadersOK'
    BY <1>4, <1>5, <1>6, LoaderStep
<1>8. budget' \in Budget
    <2>1. (NextRow(p) \in Unstorable) \in BOOLEAN /\ Fault(NextRow(p) \in Unstorable)
        BY DEF RecordFailure
    <2> QED
        BY <2>1, FaultType
<1> QED
    BY <1>4, <1>7, <1>8, Untouched DEF RecordFailure, TypeInv

\* The fields of a batch row that the code sets.
LEMMA BatchFields ==
    ASSUME NEW r \in Batch
    PROVE  /\ r.status \in {"running", "completed", "failed"} /\ r.published \in BOOLEAN
           /\ \A f \in BOOLEAN : [r EXCEPT !.published = f] \in Batch
           /\ [r EXCEPT !.status = "failed"] \in Batch
           /\ \A i, k \in Nat : [r EXCEPT !.ingested = i, !.skipped = k] \in Batch
<1>1. r.status \in {"running", "completed", "failed"} /\ r.published \in BOOLEAN
    BY DEF Batch
<1>2. \A f \in BOOLEAN : [r EXCEPT !.published = f] \in Batch
    BY DEF Batch
<1>3. [r EXCEPT !.status = "failed"] \in Batch
    BY DEF Batch
<1>4. \A i, k \in Nat : [r EXCEPT !.ingested = i, !.skipped = k] \in Batch
    BY DEF Batch
<1> QED
    BY <1>1, <1>2, <1>3, <1>4

\* A batch row that finish_batch has written.
LEMMA FinishedType ==
    ASSUME Tables, NEW b \in Batches, NEW read \in Nat, NEW done \in Nat, NEW failed \in Nat
    PROVE  Finished(b, read, done, failed) \in Batch
<1>1. batch[b] \in Batch
    BY RowsOf
<1>2. \A st \in {"completed"} :
          [batch[b] EXCEPT !.status = st, !.read = read, !.ingested = done, !.skipped = failed]
              \in Batch
    BY <1>1 DEF Batch
<1> QED
    BY <1>2 DEF Finished

\* A load that sets its batch row and goes back to rest.
LEMMA BatchRowIdle ==
    ASSUME TypeInv, NEW p \in Loaders, NEW b \in Batches, NEW row \in Batch,
           batch' = [batch EXCEPT ![b] = row], loader' = [loader EXCEPT ![p] = IdleLoader],
           UNCHANGED <<held, error, replay, desk>>, budget' \in Budget
    PROVE  TypeInv'
<1>1. Tables' /\ Len(batch') \in Nat /\ Len(batch) <= Len(batch')
    <2>1. batch' \in Seq(Batch) /\ Len(batch') = Len(batch)
        BY SetBatch DEF TypeInv
    <2> QED
        BY <2>1 DEF TypeInv, Tables
<1>2. LoadersOK'
    BY <1>1, BackToIdle
<1> QED
    BY <1>1, <1>2, Untouched DEF TypeInv

\* A load that sets its batch row and moves on with the batch.
LEMMA BatchRowMoves ==
    ASSUME TypeInv, NEW p \in Loaders, Live(loader[p]), NEW row \in Batch,
           NEW pc \in {"closing", "publishing"},
           batch' = [batch EXCEPT ![loader[p].batch] = row],
           loader' = [loader EXCEPT ![p] = [loader[p] EXCEPT !.pc = pc]],
           UNCHANGED <<held, error, replay, desk, budget>>
    PROVE  TypeInv'
<1> DEFINE l == [loader[p] EXCEPT !.pc = pc]
<1>1. loader[p] \in Loader /\ loader[p].batch \in Batches /\ Len(batch) \in Nat
    BY LoadState
<1>2. Tables' /\ Len(batch') = Len(batch) /\ Len(batch') \in Nat /\ Len(batch) <= Len(batch')
    <2>1. batch' \in Seq(Batch) /\ Len(batch') = Len(batch)
        BY <1>1, SetBatch DEF TypeInv
    <2> QED
        BY <2>1 DEF TypeInv, Tables
<1>3. l \in Loader
    BY <1>1, LoaderMoves
<1>4. l.batch = loader[p].batch
    BY <1>1 DEF Loader
<1>5. l.batch \in 0..Len(batch') /\ l.batch # NoBatch
    BY <1>1, <1>2, <1>4 DEF Batches, NoBatch
<1>6. loader' = [loader EXCEPT ![p] = l]
    OBVIOUS
<1> HIDE DEF l
<1>7. LoadersOK'
    BY <1>2, <1>3, <1>5, <1>6, LoaderStep
<1> QED
    BY <1>2, <1>7, Untouched DEF TypeInv

\* MarkPublished keeps the types.
LEMMA MarkPublishedType ==
    ASSUME TypeInv, NEW p \in Loaders, NEW publish \in BOOLEAN, MarkPublished(p, publish)
    PROVE  TypeInv'
<1> DEFINE b == loader[p].batch
           row == [batch[b] EXCEPT !.published = @ \/ publish]
<1>1. Live(loader[p])
    BY DEF MarkPublished, Loading, Live
<1>2. b \in Batches
    BY <1>1, LoadState
<1>3. batch[b] \in Batch
    BY <1>2, RowsOf DEF TypeInv
<1>4. row \in Batch
    <2>1. (batch[b].published \/ publish) \in BOOLEAN
        BY <1>3, BatchFields
    <2> QED
        BY <1>3, <2>1, BatchFields
<1>5. batch' = [batch EXCEPT ![b] = row]
    BY DEF MarkPublished
<1>6. loader' = [loader EXCEPT ![p] = [loader[p] EXCEPT !.pc = "closing"]]
    BY DEF MarkPublished
<1>7. UNCHANGED <<held, error, replay, desk, budget>>
    BY DEF MarkPublished
<1> HIDE DEF row
<1> QED
    BY <1>1, <1>4, <1>5, <1>6, <1>7, BatchRowMoves

\* FinishRecords keeps the types.
LEMMA FinishRecordsType ==
    ASSUME TypeInv, NEW p \in Loaders, FinishRecords(p)
    PROVE  TypeInv'
<1> DEFINE l == loader[p]
           row == Finished(l.batch, l.read, l.done, l.failed)
<1>1. l.batch \in Batches /\ l.read \in Nat /\ l.done \in Nat /\ l.failed \in Nat
    BY LoadState DEF FinishRecords, Live, Loader
<1>2. row \in Batch
    BY <1>1, FinishedType DEF TypeInv
<1>3. /\ batch' = [batch EXCEPT ![l.batch] = row]
      /\ loader' = [loader EXCEPT ![p] = IdleLoader]
      /\ UNCHANGED <<held, error, replay, desk>>
      /\ budget' \in Budget
    BY DEF FinishRecords, TypeInv
<1> HIDE DEF row
<1> QED
    BY <1>1, <1>2, <1>3, BatchRowIdle

\* StoreChunk keeps the types.
LEMMA StoreChunkType ==
    ASSUME TypeInv, NEW p \in Loaders, StoreChunk(p)
    PROVE  TypeInv'
<1> DEFINE k == Cardinality(Chunk(p))
           l == [loader[p] EXCEPT !.read = @ + k, !.done = @ + k]
           b == loader[p].batch
           counts == [n \in Rows |-> held[b][n] + IF n \in Chunk(p) THEN 1 ELSE 0]
<1>1. loader[p] \in Loader /\ b \in Batches /\ Len(batch) \in Nat
    BY LoadState DEF StoreChunk, Loading, Live
<1>2. k \in Nat
    <2>1. loader[p].read \in Nat
        BY <1>1 DEF Loader
    <2> QED
        BY <2>1, ChunkRows DEF StoreChunk
<1>3. counts \in [Rows -> Nat]
    <2>1. held[b] \in [Rows -> Nat]
        BY <1>1, RowsOf DEF TypeInv
    <2> QED
        BY <2>1
<1>4. held' = [held EXCEPT ![b] = counts] /\ batch' = batch /\ error' = error
    BY DEF StoreChunk
<1>5. l \in Loader
    BY <1>1, <1>2, LoaderReads
<1>6. l.batch = b
    BY <1>1 DEF Loader
<1>7. loader' = [loader EXCEPT ![p] = l]
    BY <1>1 DEF StoreChunk, TypeInv, LoadersOK
<1> HIDE DEF l, counts
<1>8. Tables' /\ Len(batch') \in Nat /\ Len(batch) <= Len(batch') /\ batch' = batch
    <2>1. held' \in Seq([Rows -> Nat]) /\ Len(held') = Len(held)
        BY <1>1, <1>3, <1>4, SetHeld DEF TypeInv
    <2> QED
        BY <1>4, <2>1 DEF TypeInv, Tables
<1>9. l.batch \in 0..Len(batch') /\ l.batch # NoBatch
    BY <1>1, <1>6, <1>8 DEF Batches, NoBatch
<1>10. LoadersOK'
    BY <1>5, <1>7, <1>8, <1>9, LoaderStep
<1> QED
    BY <1>8, <1>10, Untouched DEF StoreChunk, TypeInv

\* FailLoad keeps the types.
LEMMA FailLoadType ==
    ASSUME TypeInv, NEW p \in Loaders, FailLoad(p)
    PROVE  TypeInv'
<1> DEFINE b == loader[p].batch
           row == [batch[b] EXCEPT !.status = "failed"]
<1>1. b \in Batches
    BY LoadState DEF FailLoad, Loading, Live
<1>2. row \in Batch
    BY <1>1, RowsOf, BatchFields DEF TypeInv
<1>3. budget' \in Budget
    <2>1. (Chunk(p) \cap Unstorable # {}) \in BOOLEAN /\ Fault(Chunk(p) \cap Unstorable # {})
        BY DEF FailLoad
    <2> QED
        BY <2>1, FaultType
<1>4. /\ batch' = [batch EXCEPT ![b] = row]
      /\ loader' = [loader EXCEPT ![p] = IdleLoader]
      /\ UNCHANGED <<held, error, replay, desk>>
    BY DEF FailLoad
<1> HIDE DEF row
<1> QED
    BY <1>1, <1>2, <1>3, <1>4, BatchRowIdle

\* FinishIngest keeps the types.
LEMMA FinishIngestType ==
    ASSUME TypeInv, NEW p \in Loaders, FinishIngest(p)
    PROVE  TypeInv'
<1> DEFINE l == loader[p]
           row == Finished(l.batch, l.read, l.done, 0)
<1>1. Live(l) /\ l.batch \in Batches /\ l.read \in Nat /\ l.done \in Nat
    BY LoadState DEF FinishIngest, Loading, Live, Loader
<1>2. row \in Batch
    BY <1>1, FinishedType DEF TypeInv
<1>3. batch' = [batch EXCEPT ![l.batch] = row]
    BY DEF FinishIngest
<1>4. loader' = [loader EXCEPT ![p] = [loader[p] EXCEPT !.pc = "publishing"]]
    BY DEF FinishIngest
<1>5. UNCHANGED <<held, error, replay, desk, budget>>
    BY DEF FinishIngest
<1> HIDE DEF row
<1> QED
    BY <1>1, <1>2, <1>3, <1>4, <1>5, BatchRowMoves

\* PublishIngest keeps the types.
LEMMA PublishIngestType ==
    ASSUME TypeInv, NEW p \in Loaders, NEW delivered \in BOOLEAN, PublishIngest(p, delivered)
    PROVE  TypeInv'
<1> DEFINE b == loader[p].batch
           row == [batch[b] EXCEPT !.published = @ \/ delivered]
<1>1. b \in Batches
    BY LoadState DEF PublishIngest, Live
<1>2. batch[b] \in Batch
    BY <1>1, RowsOf DEF TypeInv
<1>3. row \in Batch
    <2>1. (batch[b].published \/ delivered) \in BOOLEAN
        BY <1>2, BatchFields
    <2> QED
        BY <1>2, <2>1, BatchFields
<1>4. /\ batch' = [batch EXCEPT ![b] = row]
      /\ loader' = [loader EXCEPT ![p] = IdleLoader]
      /\ UNCHANGED <<held, error, replay, desk>>
      /\ budget' \in Budget
    BY DEF PublishIngest, TypeInv
<1> HIDE DEF row
<1> QED
    BY <1>1, <1>3, <1>4, BatchRowIdle

\* Die keeps the types.
LEMMA DieType ==
    ASSUME TypeInv, NEW p \in Loaders, Die(p)
    PROVE  TypeInv'
<1>1. Tables' /\ Len(batch') \in Nat /\ Len(batch) <= Len(batch')
    BY SameTables DEF Die
<1>2. LoadersOK'
    BY <1>1, BackToIdle DEF Die
<1> QED
    BY <1>1, <1>2, Untouched DEF Die, TypeInv

---------------------------------------------------------------------------
(* Each step of an operator and of a replay keeps the types.               *)

\* FindRunning keeps the types.
LEMMA FindRunningType ==
    ASSUME TypeInv, NEW o \in Operators, NEW b \in Batches, FindRunning(o, b)
    PROVE  TypeInv'
<1>1. Tables' /\ Len(batch') \in Nat /\ Len(batch) <= Len(batch') /\ batch' = batch
    BY SameTables DEF FindRunning
<1>2. DesksOK'
    BY <1>1 DEF FindRunning, TypeInv, DesksOK, Batches
<1>3. budget' \in Budget
    BY SpendType DEF FindRunning, TypeInv
<1> QED
    BY <1>1, <1>2, <1>3, Untouched DEF FindRunning, TypeInv

\* Abandon keeps the types.
LEMMA AbandonType ==
    ASSUME TypeInv, NEW o \in Operators, Abandon(o)
    PROVE  TypeInv'
<1> DEFINE b == desk[o]
           row == [batch[b] EXCEPT !.status = "failed"]
<1>1. b \in Batches /\ Len(batch) \in Nat
    BY DEF Abandon, TypeInv, DesksOK, Tables, Batches, NoBatch
<1>2. row \in Batch
    BY <1>1, RowsOf, BatchFields DEF TypeInv
<1>3. batch' = [batch EXCEPT ![b] = row]
    BY DEF Abandon
<1> HIDE DEF row
<1>4. batch' \in Seq(Batch) /\ Len(batch') = Len(batch)
    BY <1>1, <1>2, <1>3, SetBatch DEF TypeInv
<1>5. Tables' /\ Len(batch') \in Nat /\ Len(batch) <= Len(batch')
    BY <1>4 DEF Abandon, TypeInv, Tables
<1>6. DesksOK'
    BY <1>1, <1>4 DEF Abandon, TypeInv, DesksOK, NoBatch
<1> QED
    BY <1>5, <1>6, Untouched DEF Abandon, TypeInv

\* The row a replay is at, and what it has left after it.
LEMMA ReplayState ==
    ASSUME TypeInv, NEW q \in Replayers, replay[q].pc # "idle"
    PROVE  LET x == First(replay[q].todo)
           IN /\ x \in replay[q].todo /\ x[1] \in Batches /\ x[2] \in Rows
              /\ After(q, x) \in Replay /\ After(q, x).todo \subseteq Batches \X Rows
              /\ After(q, x).pc \in {"idle", "next"}
              /\ After(q, x).pc # "idle" => After(q, x).todo # {}
<1> DEFINE todo == replay[q].todo
           x == First(todo)
<1>1. todo \in SUBSET (Nat \X Rows) /\ todo \subseteq Batches \X Rows /\ todo # {}
    BY DEF TypeInv, ReplaysOK, Replay
<1>2. x \in todo
    BY <1>1, FirstIsMember
<1>3. x[1] \in Batches /\ x[2] \in Rows
    BY <1>1, <1>2
<1> HIDE DEF x
<1>4. CASE todo = {x}
    <2>1. After(q, x) = IdleReplay
        BY <1>4 DEF After
    <2> QED
        BY <1>2, <1>3, <2>1, IdleType DEF x
<1>5. CASE todo # {x}
    <2>1. After(q, x) = [pc |-> "next", todo |-> todo \ {x}]
        BY <1>5 DEF After
    <2>2. todo \ {x} # {} /\ todo \ {x} \in SUBSET (Nat \X Rows)
        BY <1>1, <1>2, <1>5
    <2>3. After(q, x) \in Replay /\ After(q, x).pc = "next" /\ After(q, x).todo = todo \ {x}
        BY <2>1, <2>2 DEF Replay
    <2> QED
        BY <1>1, <1>2, <1>3, <2>2, <2>3 DEF x
<1> QED
    BY <1>4, <1>5

\* StartReplay keeps the types.
LEMMA StartReplayType ==
    ASSUME TypeInv, NEW q \in Replayers, StartReplay(q)
    PROVE  TypeInv'
<1> DEFINE r == [pc |-> "next", todo |-> OpenErrors]
<1>1. Tables' /\ Len(batch') \in Nat /\ Len(batch) <= Len(batch') /\ batch' = batch
    BY SameTables DEF StartReplay
<1>2. OpenErrors \subseteq Batches \X Rows /\ Batches \subseteq Nat
    BY DEF OpenErrors, Batches
<1>3. r \in Replay /\ r.todo = OpenErrors /\ OpenErrors # {}
    BY <1>2 DEF Replay, StartReplay
<1>4. replay' = [replay EXCEPT ![q] = r]
    BY DEF StartReplay
<1> HIDE DEF r
<1>5. ReplaysOK'
    BY <1>1, <1>2, <1>3, <1>4, ReplayStep
<1>6. budget' \in Budget
    BY SpendType DEF StartReplay, TypeInv
<1> QED
    BY <1>1, <1>5, <1>6, Untouched DEF StartReplay, TypeInv

\* ReplayRow keeps the types.
LEMMA ReplayRowType ==
    ASSUME TypeInv, NEW q \in Replayers, ReplayRow(q)
    PROVE  TypeInv'
<1> DEFINE x == First(replay[q].todo)
           r == [replay[q] EXCEPT !.pc = "marking"]
<1>1. replay[q].pc # "idle"
    BY DEF ReplayRow
<1>2. x[1] \in Batches /\ x[2] \in Rows
    BY <1>1, ReplayState
<1>3. held' = [held EXCEPT ![x[1]][x[2]] = @ + 1] /\ UNCHANGED <<batch, error, loader, desk, budget>>
    BY DEF ReplayRow
<1> HIDE DEF x
<1>4. held' \in Seq([Rows -> Nat]) /\ Len(held') = Len(held)
    BY <1>2, <1>3, HoldRow DEF TypeInv
<1>5. Tables' /\ Len(batch') \in Nat /\ Len(batch) <= Len(batch') /\ batch' = batch
    BY <1>3, <1>4 DEF TypeInv, Tables
<1>6. replay[q] \in Replay /\ replay[q].todo \subseteq Batches \X Rows /\ replay[q].todo # {}
    BY <1>1 DEF TypeInv, ReplaysOK
<1>7. r \in Replay /\ r.todo = replay[q].todo
    BY <1>6 DEF Replay
<1>8. replay' = [replay EXCEPT ![q] = r]
    BY DEF ReplayRow
<1> HIDE DEF r
<1>9. r.todo \subseteq Batches \X Rows /\ (r.pc # "idle" => r.todo # {})
    BY <1>6, <1>7
<1>10. ReplaysOK'
    BY <1>5, <1>7, <1>8, <1>9, ReplayStep
<1> QED
    BY <1>3, <1>5, <1>10, Untouched DEF TypeInv

\* MarkReprocessed keeps the types.
LEMMA MarkReprocessedType ==
    ASSUME TypeInv, NEW q \in Replayers, MarkReprocessed(q)
    PROVE  TypeInv'
<1> DEFINE x == First(replay[q].todo)
           b == batch[x[1]]
           row == [b EXCEPT !.ingested = @ + 1, !.skipped = IF @ = 0 THEN 0 ELSE @ - 1]
           r == After(q, x)
<1>1. replay[q].pc # "idle"
    BY DEF MarkReprocessed
<1>2. x[1] \in Batches /\ x[2] \in Rows
    BY <1>1, ReplayState
<1>3. r \in Replay /\ r.todo \subseteq Batches \X Rows /\ (r.pc # "idle" => r.todo # {})
    BY <1>1, ReplayState
<1>4. b \in Batch
    BY <1>2, RowsOf DEF TypeInv
<1>5. row \in Batch
    <2>1. b.ingested + 1 \in Nat /\ (IF b.skipped = 0 THEN 0 ELSE b.skipped - 1) \in Nat
        BY <1>4 DEF Batch
    <2> QED
        BY <1>4, <2>1, BatchFields
<1>6. /\ error' = [error EXCEPT ![x[1]][x[2]] = "reprocessed"]
      /\ batch' = [batch EXCEPT ![x[1]] = row]
      /\ replay' = [replay EXCEPT ![q] = r]
      /\ UNCHANGED <<held, loader, desk, budget>>
    BY DEF MarkReprocessed
<1> HIDE DEF x, row, r
<1>7. error' \in Seq(ErrorRow) /\ Len(error') = Len(error)
    BY <1>2, <1>6, SetError DEF TypeInv
<1>8. batch' \in Seq(Batch) /\ Len(batch') = Len(batch)
    BY <1>2, <1>5, <1>6, SetBatch DEF TypeInv
<1>9. Tables' /\ Len(batch') \in Nat /\ Len(batch) <= Len(batch')
    BY <1>6, <1>7, <1>8 DEF TypeInv, Tables
<1>10. ReplaysOK'
    BY <1>3, <1>6, <1>8, ReplayStep
<1> QED
    BY <1>6, <1>9, <1>10, Untouched DEF TypeInv

\* ReplayFailure keeps the types.
LEMMA ReplayFailureType ==
    ASSUME TypeInv, NEW q \in Replayers, ReplayFailure(q)
    PROVE  TypeInv'
<1> DEFINE x == First(replay[q].todo)
           r == After(q, x)
<1>1. replay[q].pc # "idle"
    BY DEF ReplayFailure
<1>2. x[1] \in Batches /\ x[2] \in Rows
    BY <1>1, ReplayState
<1>3. r \in Replay /\ r.todo \subseteq Batches \X Rows /\ (r.pc # "idle" => r.todo # {})
    BY <1>1, ReplayState
<1>4. /\ error' = [error EXCEPT ![x[1]][x[2]] = "open"]
      /\ replay' = [replay EXCEPT ![q] = r]
      /\ UNCHANGED <<batch, held, loader, desk>>
    BY DEF ReplayFailure
<1>5. budget' \in Budget
    <2>1. (x[2] \in Unstorable) \in BOOLEAN /\ Fault(x[2] \in Unstorable)
        BY DEF ReplayFailure
    <2> QED
        BY <2>1, FaultType
<1> HIDE DEF x, r
<1>6. error' \in Seq(ErrorRow) /\ Len(error') = Len(error)
    BY <1>2, <1>4, SetError DEF TypeInv
<1>7. Tables' /\ Len(batch') \in Nat /\ Len(batch) <= Len(batch') /\ batch' = batch
    BY <1>4, <1>6 DEF TypeInv, Tables
<1>8. ReplaysOK'
    BY <1>3, <1>4, <1>7, ReplayStep
<1> QED
    BY <1>4, <1>5, <1>7, <1>8, Untouched DEF TypeInv

\* ReplayDies keeps the types.
LEMMA ReplayDiesType ==
    ASSUME TypeInv, NEW q \in Replayers, ReplayDies(q)
    PROVE  TypeInv'
<1>1. Tables' /\ Len(batch') \in Nat /\ Len(batch) <= Len(batch') /\ batch' = batch
    BY SameTables DEF ReplayDies
<1>2. IdleReplay \in Replay /\ IdleReplay.todo \subseteq Batches \X Rows
      /\ (IdleReplay.pc # "idle" => IdleReplay.todo # {})
    BY IdleType
<1>3. ReplaysOK'
    BY <1>1, <1>2, ReplayStep DEF ReplayDies
<1> QED
    BY <1>1, <1>3, Untouched DEF ReplayDies, TypeInv

---------------------------------------------------------------------------
\* The types hold of the empty database and of every step.
LEMMA InitTypeInv == Init => TypeInv
<1> SUFFICES ASSUME Init PROVE TypeInv
    OBVIOUS
<1>1. Tables
    BY DEF Init, Tables
<1>2. LoadersOK
    BY IdleType DEF Init, LoadersOK
<1>3. ReplaysOK
    BY IdleType DEF Init, ReplaysOK
<1>4. DesksOK
    BY DEF Init, DesksOK, NoBatch
<1>5. budget \in Budget
    BY BoundAssumption DEF Init, Budget
<1> QED
    BY <1>1, <1>2, <1>3, <1>4, <1>5 DEF TypeInv

\* Every step of a load keeps the types.
LEMMA LoadTypeInv ==
    ASSUME TypeInv, NEW p \in Loaders, Load(p)
    PROVE  TypeInv'
<1>1. ASSUME NEW path \in {"record", "batch"}, NEW again \in Flags, CheckCompleted(p, path, again)
      PROVE  TypeInv'
    BY <1>1, CheckCompletedType
<1>2. CASE CheckInFlight(p)
    BY <1>2, CheckInFlightType
<1>3. CASE CreateBatch(p)
    BY <1>3, CreateBatchType
<1>4. CASE StoreRow(p)
    BY <1>4, StoreRowType
<1>5. CASE RecordFailure(p)
    BY <1>5, RecordFailureType
<1>6. CASE FinishRecords(p)
    BY <1>6, FinishRecordsType
<1>7. ASSUME NEW publish \in BOOLEAN, MarkPublished(p, publish)
      PROVE  TypeInv'
    BY <1>7, MarkPublishedType
<1>8. CASE StoreChunk(p)
    BY <1>8, StoreChunkType
<1>9. CASE FailLoad(p)
    BY <1>9, FailLoadType
<1>10. CASE FinishIngest(p)
    BY <1>10, FinishIngestType
<1>11. ASSUME NEW delivered \in BOOLEAN, PublishIngest(p, delivered)
       PROVE  TypeInv'
    BY <1>11, PublishIngestType
<1>12. CASE Die(p)
    BY <1>12, DieType
<1> QED
    BY <1>1, <1>2, <1>3, <1>4, <1>5, <1>6, <1>7, <1>8, <1>9, <1>10, <1>11, <1>12 DEF Load

\* Every step of the system keeps the types.
LEMMA NextTypeInv == TypeInv /\ [Next]_vars => TypeInv'
<1> SUFFICES ASSUME TypeInv, [Next]_vars PROVE TypeInv'
    OBVIOUS
<1>1. ASSUME NEW p \in Loaders, Load(p)
      PROVE  TypeInv'
    BY <1>1, LoadTypeInv
<1>2. ASSUME NEW o \in Operators, Operate(o)
      PROVE  TypeInv'
    BY <1>2, AbandonType, FindRunningType DEF Operate
<1>3. ASSUME NEW q \in Replayers, Reprocess(q)
      PROVE  TypeInv'
    BY <1>3, StartReplayType, ReplayRowType, MarkReprocessedType, ReplayFailureType,
       ReplayDiesType DEF Reprocess
<1>4. CASE UNCHANGED vars
    BY <1>4, SameTables, Untouched DEF vars, TypeInv
<1> QED
    BY <1>1, <1>2, <1>3, <1>4 DEF Next

\* Every table and every command's local state keeps its shape, whatever runs at
\* once: batches only grow, a live load has the batch it was given, and
\* rows_skipped never drops below zero.
THEOREM TypeCorrect == Spec => []TypeOK
<1>1. Spec => []TypeInv
    BY InitTypeInv, NextTypeInv, PTL DEF Spec
<1> QED
    BY <1>1, TypeInvTypes, PTL

---------------------------------------------------------------------------
(* No row of a completed batch is lost.  NoRowLost says nothing of a batch *)
(* that is still loading, so the invariant adds what a load owes for the   *)
(* rows it has read, and what a replay owes for the error it will close.   *)

Covered(h, e, b, n) == h[b][n] > 0 \/ e[b][n] = "open"

AccountedFor(h, e, l) ==
    /\ Live(l) => \A n \in Rows : n <= l.read => Covered(h, e, l.batch, n)
    /\ l.pc = "closing" => l.read >= RowCount
    /\ l.pc \in {"checked", "clear"} => l.read = 0

LoadsAccount == \A p \in Loaders : AccountedFor(held, error, loader[p])

MarkedIsHeld ==
    \A q \in Replayers :
        replay[q].pc = "marking" =>
            held[First(replay[q].todo)[1]][First(replay[q].todo)[2]] > 0

Accounts == LoadsAccount /\ MarkedIsHeld /\ NoRowLost

\* A step that takes no stored row away and closes no error of a row not stored.
RowsKept ==
    \A b \in Batches, n \in Rows :
        /\ held[b][n] > 0 => held'[b][n] > 0
        /\ Covered(held, error, b, n) => Covered(held', error', b, n)

\* A step that completes no batch.
NoneCompleted ==
    /\ Batches' = Batches
    /\ \A b \in Batches : batch'[b].status = "completed" => batch[b].status = "completed"

\* No table of rows moves.
LEMMA SameRowsKept == UNCHANGED <<held, error>> => RowsKept
BY DEF RowsKept

\* No batch row moves.
LEMMA SameNoneCompleted == UNCHANGED batch => NoneCompleted
BY DEF NoneCompleted, Batches

\* Then the rows of the completed batches are all still there.
LEMMA NoneLost ==
    ASSUME NoRowLost, RowsKept, NoneCompleted
    PROVE  NoRowLost'
BY DEF NoRowLost, RowsKept, NoneCompleted, Covered

\* A load whose own state does not move still accounts for what it read.
LEMMA StillAccounted ==
    ASSUME TypeInv, RowsKept, NEW p \in Loaders, AccountedFor(held, error, loader[p])
    PROVE  AccountedFor(held', error', loader[p])
<1>1. Live(loader[p]) => loader[p].batch \in Batches
    BY LoadState
<1> QED
    BY <1>1 DEF AccountedFor, RowsKept

\* Nor do the loads together, while another command steps.
LEMMA LoadsStay ==
    ASSUME TypeInv, LoadsAccount, RowsKept, UNCHANGED loader
    PROVE  LoadsAccount'
BY StillAccounted DEF LoadsAccount

\* One load moves on and accounts for what it has read by then.
LEMMA LoadMoves ==
    ASSUME TypeInv, LoadsAccount, RowsKept, NEW p \in Loaders, NEW l \in Loader,
           loader' = [loader EXCEPT ![p] = l], AccountedFor(held', error', l)
    PROVE  LoadsAccount'
<1>1. \A x \in Loaders : loader'[x] = IF x = p THEN l ELSE loader[x]
    BY DEF TypeInv, LoadersOK
<1>2. ASSUME NEW x \in Loaders
      PROVE  AccountedFor(held', error', loader'[x])
    <2>1. CASE x = p
        BY <1>1, <2>1
    <2>2. CASE x # p
        <3>1. loader'[x] = loader[x]
            BY <1>1, <2>2
        <3>2. AccountedFor(held', error', loader[x])
            BY StillAccounted DEF LoadsAccount
        <3> QED
            BY <3>1, <3>2
    <2> QED
        BY <2>1, <2>2
<1> QED
    BY <1>2 DEF LoadsAccount

\* A load at rest owes nothing.
LEMMA LoadRests ==
    ASSUME TypeInv, LoadsAccount, RowsKept, NEW p \in Loaders,
           loader' = [loader EXCEPT ![p] = IdleLoader]
    PROVE  LoadsAccount'
<1>1. AccountedFor(held', error', IdleLoader)
    BY IdleType DEF AccountedFor, IdleLoader
<1> QED
    BY <1>1, IdleType, LoadMoves

\* A replay that is about to close an error still has the row, whoever steps.
LEMMA ReplaysStay ==
    ASSUME TypeInv, MarkedIsHeld, RowsKept, UNCHANGED replay
    PROVE  MarkedIsHeld'
<1>1. \A q \in Replayers : replay[q].pc = "marking" =>
          First(replay[q].todo)[1] \in Batches /\ First(replay[q].todo)[2] \in Rows
    BY ReplayState
<1> QED
    BY <1>1 DEF MarkedIsHeld, RowsKept, First

\* One replay moves on, to an error whose row it has stored if it is to close it.
LEMMA ReplayMoves ==
    ASSUME TypeInv, MarkedIsHeld, RowsKept, NEW q \in Replayers, NEW r,
           replay' = [replay EXCEPT ![q] = r],
           r.pc = "marking" => held'[First(r.todo)[1]][First(r.todo)[2]] > 0
    PROVE  MarkedIsHeld'
<1>1. \A x \in Replayers : replay'[x] = IF x = q THEN r ELSE replay[x]
    BY DEF TypeInv, ReplaysOK
<1>2. ASSUME NEW x \in Replayers, replay'[x].pc = "marking"
      PROVE  held'[First(replay'[x].todo)[1]][First(replay'[x].todo)[2]] > 0
    <2>1. CASE x = q
        BY <1>1, <1>2, <2>1
    <2>2. CASE x # q
        <3>1. replay'[x] = replay[x] /\ replay[x].pc = "marking"
            BY <1>1, <1>2, <2>2
        <3>2. First(replay[x].todo)[1] \in Batches /\ First(replay[x].todo)[2] \in Rows
            BY <3>1, ReplayState
        <3>3. held[First(replay[x].todo)[1]][First(replay[x].todo)[2]] > 0
            BY <3>1 DEF MarkedIsHeld
        <3> QED
            BY <3>1, <3>2, <3>3 DEF RowsKept
    <2> QED
        BY <2>1, <2>2
<1> QED
    BY <1>2 DEF MarkedIsHeld, First

---------------------------------------------------------------------------
(* Each step of a load accounts for its rows.                              *)

\* CheckCompleted keeps the accounts in order.
LEMMA CheckCompletedAccounts ==
    ASSUME TypeInv, Accounts, NEW p \in Loaders, NEW path \in {"record", "batch"},
           NEW again \in Flags, CheckCompleted(p, path, again)
    PROVE  Accounts'
<1> DEFINE l == [IdleLoader EXCEPT !.pc = "checked", !.path = path]
<1>1. l \in Loader /\ ~Live(l) /\ l.pc = "checked" /\ l.read = 0
    BY DEF IdleLoader, Loader, Live, NoBatch
<1>2. loader' = [loader EXCEPT ![p] = l] /\ UNCHANGED <<batch, held, error, replay>>
    BY DEF CheckCompleted
<1> HIDE DEF l
<1>3. RowsKept /\ NoneCompleted
    BY <1>2, SameRowsKept, SameNoneCompleted
<1>4. AccountedFor(held', error', l)
    BY <1>1 DEF AccountedFor
<1>5. LoadsAccount'
    BY <1>1, <1>2, <1>3, <1>4, LoadMoves DEF Accounts
<1> QED
    BY <1>2, <1>3, <1>5, ReplaysStay, NoneLost DEF Accounts

\* CheckInFlight keeps the accounts in order.
LEMMA CheckInFlightAccounts ==
    ASSUME TypeInv, Accounts, NEW p \in Loaders, CheckInFlight(p)
    PROVE  Accounts'
<1> DEFINE clear == [loader[p] EXCEPT !.pc = "clear"]
<1>1. loader[p] \in Loader /\ loader[p].pc = "checked"
    BY LoadState DEF CheckInFlight
<1>2. loader[p].read = 0
    BY <1>1 DEF Accounts, LoadsAccount, AccountedFor
<1>3. clear \in Loader
    BY <1>1, LoaderMoves
<1>4. clear.pc = "clear" /\ clear.read = 0 /\ ~Live(clear)
    BY <1>1, <1>2 DEF Loader, Live
<1>5. UNCHANGED <<batch, held, error, replay>>
    BY DEF CheckInFlight
<1>6. RowsKept /\ NoneCompleted
    BY <1>5, SameRowsKept, SameNoneCompleted
<1>7. LoadsAccount'
    <2>1. CASE Has("running")
        <3>1. loader' = [loader EXCEPT ![p] = IdleLoader]
            BY <2>1 DEF CheckInFlight
        <3> QED
            BY <1>6, <3>1, LoadRests DEF Accounts
    <2>2. CASE ~Has("running")
        <3>1. loader' = [loader EXCEPT ![p] = clear]
            BY <2>2 DEF CheckInFlight
        <3> HIDE DEF clear
        <3>2. AccountedFor(held', error', clear)
            BY <1>4 DEF AccountedFor
        <3> QED
            BY <1>3, <1>6, <3>1, <3>2, LoadMoves DEF Accounts
    <2> QED
        BY <2>1, <2>2
<1> QED
    BY <1>5, <1>6, <1>7, ReplaysStay, NoneLost DEF Accounts

\* CreateBatch keeps the accounts in order.
LEMMA CreateBatchAccounts ==
    ASSUME TypeInv, Accounts, NEW p \in Loaders, CreateBatch(p)
    PROVE  Accounts'
<1> DEFINE l == [loader[p] EXCEPT !.pc = "loading", !.batch = Len(batch) + 1]
<1>1. loader[p] \in Loader /\ loader[p].read = 0 /\ Len(batch) \in Nat
    BY LoadState DEF CreateBatch, Accounts, LoadsAccount, AccountedFor
<1>2. loader' = [loader EXCEPT ![p] = l]
    BY CreateBatchType
<1>3. l \in Loader
    <2>1. \A b \in Nat : [loader[p] EXCEPT !.pc = "loading", !.batch = b] \in Loader
        BY <1>1, LoaderMoves
    <2>2. Len(batch) + 1 \in Nat
        BY <1>1
    <2> QED
        BY <2>1, <2>2
<1>4. l.pc = "loading" /\ l.read = 0
    BY <1>1 DEF Loader
<1> HIDE DEF l
<1>5. RowsKept
    BY CreateBatchType DEF RowsKept, Covered
<1>6. AccountedFor(held', error', l)
    BY <1>4, RowAssumption DEF AccountedFor, Rows
<1>7. LoadsAccount'
    BY <1>2, <1>3, <1>5, <1>6, LoadMoves DEF Accounts
<1>8. NoRowLost'
    <2> SUFFICES ASSUME NEW b \in Batches', NEW n \in Rows, batch'[b].status = "completed"
                 PROVE  held'[b][n] > 0 \/ error'[b][n] = "open"
        BY DEF NoRowLost
    <2>1. /\ Len(batch') = Len(batch) + 1 /\ batch'[Len(batch) + 1] = NewBatch
          /\ \A c \in Batches : batch'[c] = batch[c] /\ held'[c] = held[c] /\ error'[c] = error[c]
        BY CreateBatchType
    <2>2. b \in Batches \/ b = Len(batch) + 1
        BY <1>1, <2>1 DEF Batches
    <2>3. NewBatch.status # "completed"
        BY DEF NewBatch
    <2>4. b \in Batches
        BY <2>1, <2>2, <2>3
    <2>5. batch[b].status = "completed"
        BY <2>1, <2>4
    <2>6. held[b][n] > 0 \/ error[b][n] = "open"
        BY <2>4, <2>5 DEF Accounts, NoRowLost
    <2> QED
        BY <2>1, <2>4, <2>6
<1> QED
    BY <1>5, <1>7, <1>8, ReplaysStay DEF CreateBatch, Accounts

\* A load that reads one row more, and has seen to it.
LEMMA OneRowRead ==
    ASSUME TypeInv, Accounts, RowsKept, NEW p \in Loaders, NEW l \in Loader,
           loader[p].pc = "loading", l.pc = "loading", l.batch = loader[p].batch,
           l.read = loader[p].read + 1, Covered(held', error', loader[p].batch, NextRow(p)),
           loader' = [loader EXCEPT ![p] = l]
    PROVE  LoadsAccount'
<1>1. AccountedFor(held', error', loader[p])
    BY StillAccounted DEF Accounts, LoadsAccount
<1>2. loader[p].read \in Nat
    BY LoadState DEF Loader
<1>3. ASSUME NEW n \in Rows, n <= l.read
      PROVE  Covered(held', error', l.batch, n)
    <2>1. n <= loader[p].read \/ n = NextRow(p)
        BY <1>2, <1>3 DEF Rows, NextRow
    <2> QED
        BY <1>1, <2>1 DEF AccountedFor, Live
<1>4. AccountedFor(held', error', l)
    BY <1>3 DEF AccountedFor
<1> QED
    BY <1>4, LoadMoves DEF Accounts

\* StoreRow keeps the accounts in order.
LEMMA StoreRowAccounts ==
    ASSUME TypeInv, Accounts, NEW p \in Loaders, StoreRow(p)
    PROVE  Accounts'
<1> DEFINE l == [loader[p] EXCEPT !.read = @ + 1, !.done = @ + 1]
           b == loader[p].batch
<1>1. loader[p] \in Loader /\ b \in Batches /\ NextRow(p) \in Rows /\ loader[p].pc = "loading"
    BY LoadState DEF StoreRow, Loading, Live
<1>2. held' = [held EXCEPT ![b][NextRow(p)] = @ + 1] /\ UNCHANGED <<batch, error, replay>>
    BY DEF StoreRow
<1>3. \A c \in Batches, k \in Rows :
          held'[c][k] = IF c = b /\ k = NextRow(p) THEN held[c][k] + 1 ELSE held[c][k]
    BY <1>1, <1>2, HoldRow DEF TypeInv
<1>4. \A c \in Batches, k \in Rows : held[c][k] \in Nat
    BY RowsOf DEF TypeInv
<1>5. RowsKept
    BY <1>2, <1>3, <1>4 DEF RowsKept, Covered
<1>6. Covered(held', error', b, NextRow(p))
    BY <1>1, <1>3, <1>4 DEF Covered
<1>7. l \in Loader
    BY <1>1, LoaderReads
<1>8. l.pc = "loading" /\ l.batch = b /\ l.read = loader[p].read + 1
    BY <1>1 DEF Loader
<1>9. loader' = [loader EXCEPT ![p] = l]
    BY DEF StoreRow, TypeInv, LoadersOK
<1> HIDE DEF l
<1>10. LoadsAccount'
    BY <1>1, <1>5, <1>6, <1>7, <1>8, <1>9, OneRowRead
<1> QED
    BY <1>2, <1>5, <1>10, SameNoneCompleted, ReplaysStay, NoneLost DEF Accounts

\* RecordFailure keeps the accounts in order.
LEMMA RecordFailureAccounts ==
    ASSUME TypeInv, Accounts, NEW p \in Loaders, RecordFailure(p)
    PROVE  Accounts'
<1> DEFINE l == [loader[p] EXCEPT !.read = @ + 1, !.failed = @ + 1]
           b == loader[p].batch
<1>1. loader[p] \in Loader /\ b \in Batches /\ NextRow(p) \in Rows /\ loader[p].pc = "loading"
    BY LoadState DEF RecordFailure, Loading, Live
<1>2. error' = [error EXCEPT ![b][NextRow(p)] = "open"] /\ UNCHANGED <<batch, held, replay>>
    BY DEF RecordFailure
<1>3. \A c \in Batches, k \in Rows :
          error'[c][k] = IF c = b /\ k = NextRow(p) THEN "open" ELSE error[c][k]
    BY <1>1, <1>2, SetError DEF TypeInv
<1>4. RowsKept
    BY <1>2, <1>3 DEF RowsKept, Covered
<1>5. Covered(held', error', b, NextRow(p))
    BY <1>1, <1>3 DEF Covered
<1>6. l \in Loader
    BY <1>1, LoaderReads
<1>7. l.pc = "loading" /\ l.batch = b /\ l.read = loader[p].read + 1
    BY <1>1 DEF Loader
<1>8. loader' = [loader EXCEPT ![p] = l]
    BY DEF RecordFailure, TypeInv, LoadersOK
<1> HIDE DEF l
<1>9. LoadsAccount'
    BY <1>1, <1>4, <1>5, <1>6, <1>7, <1>8, OneRowRead
<1> QED
    BY <1>2, <1>4, <1>9, SameNoneCompleted, ReplaysStay, NoneLost DEF Accounts

\* A step that sets a batch row without completing it.
LEMMA RowNotCompleted ==
    ASSUME TypeInv, NEW b \in Batches, NEW row \in Batch, batch' = [batch EXCEPT ![b] = row],
           row.status = "completed" => batch[b].status = "completed"
    PROVE  NoneCompleted
<1>1. Len(batch') = Len(batch) /\ \A c \in Batches : batch'[c] = IF c = b THEN row ELSE batch[c]
    BY SetBatch DEF TypeInv
<1> QED
    BY <1>1 DEF NoneCompleted, Batches

\* A load completes its batch when it has read the whole file.
LEMMA CompletedAccounts ==
    ASSUME TypeInv, Accounts, NEW p \in Loaders, Live(loader[p]), loader[p].read >= RowCount,
           NEW row \in Batch, batch' = [batch EXCEPT ![loader[p].batch] = row],
           UNCHANGED <<held, error>>
    PROVE  NoRowLost'
<1> DEFINE b == loader[p].batch
<1>1. b \in Batches /\ loader[p].read \in Nat
    BY LoadState DEF Loader
<1>2. Len(batch') = Len(batch) /\ \A c \in Batches : c # b => batch'[c] = batch[c]
    BY <1>1, SetBatch DEF TypeInv
<1>3. \A n \in Rows : n <= loader[p].read
    BY <1>1, RowAssumption DEF Rows
<1>4. \A n \in Rows : held[b][n] > 0 \/ error[b][n] = "open"
    BY <1>3 DEF Accounts, LoadsAccount, AccountedFor, Covered
<1> QED
    BY <1>2, <1>4 DEF Accounts, NoRowLost, Batches

\* MarkPublished keeps the accounts in order.
LEMMA MarkPublishedAccounts ==
    ASSUME TypeInv, Accounts, NEW p \in Loaders, NEW publish \in BOOLEAN, MarkPublished(p, publish)
    PROVE  Accounts'
<1> DEFINE b == loader[p].batch
           row == [batch[b] EXCEPT !.published = @ \/ publish]
           l == [loader[p] EXCEPT !.pc = "closing"]
<1>1. /\ loader[p] \in Loader /\ b \in Batches /\ Live(loader[p])
      /\ loader[p].read = RowCount
    BY LoadState DEF MarkPublished, Loading, Live
<1>2. batch[b] \in Batch /\ batch[b].published \in BOOLEAN
    BY <1>1, RowsOf, BatchFields DEF TypeInv
<1>3. row \in Batch
    <2>1. (batch[b].published \/ publish) \in BOOLEAN
        BY <1>2
    <2> QED
        BY <1>2, <2>1, BatchFields
<1>4. row.status = batch[b].status
    BY <1>2 DEF Batch
<1>5. batch' = [batch EXCEPT ![b] = row] /\ UNCHANGED <<held, error, replay>>
    BY DEF MarkPublished
<1>6. loader' = [loader EXCEPT ![p] = l]
    BY DEF MarkPublished
<1>7. l \in Loader
    BY <1>1, LoaderMoves
<1>8. l.pc = "closing" /\ l.batch = b /\ l.read = loader[p].read
    BY <1>1 DEF Loader
<1> HIDE DEF row, l
<1>9. RowsKept /\ NoneCompleted
    BY <1>1, <1>3, <1>4, <1>5, SameRowsKept, RowNotCompleted
<1>10. AccountedFor(held', error', l)
    <2>1. AccountedFor(held', error', loader[p])
        BY <1>9, StillAccounted DEF Accounts, LoadsAccount
    <2> QED
        BY <1>1, <1>8, <2>1, RowAssumption DEF AccountedFor
<1>11. LoadsAccount'
    BY <1>6, <1>7, <1>9, <1>10, LoadMoves DEF Accounts
<1> QED
    BY <1>5, <1>9, <1>11, ReplaysStay, NoneLost DEF Accounts

\* FinishRecords keeps the accounts in order.
LEMMA FinishRecordsAccounts ==
    ASSUME TypeInv, Accounts, NEW p \in Loaders, FinishRecords(p)
    PROVE  Accounts'
<1> DEFINE l == loader[p]
           row == Finished(l.batch, l.read, l.done, l.failed)
<1>1. Live(l) /\ l.batch \in Batches /\ l.read \in Nat /\ l.done \in Nat /\ l.failed \in Nat
    BY LoadState DEF FinishRecords, Live, Loader
<1>2. l.read >= RowCount
    BY DEF FinishRecords, Accounts, LoadsAccount, AccountedFor
<1>3. row \in Batch
    BY <1>1, FinishedType DEF TypeInv
<1>4. /\ batch' = [batch EXCEPT ![l.batch] = row]
      /\ loader' = [loader EXCEPT ![p] = IdleLoader]
      /\ UNCHANGED <<held, error, replay>>
    BY DEF FinishRecords
<1> HIDE DEF row
<1>5. NoRowLost'
    BY <1>1, <1>2, <1>3, <1>4, CompletedAccounts
<1> QED
    BY <1>4, <1>5, SameRowsKept, LoadRests, ReplaysStay DEF Accounts

\* StoreChunk keeps the accounts in order.
LEMMA StoreChunkAccounts ==
    ASSUME TypeInv, Accounts, NEW p \in Loaders, StoreChunk(p)
    PROVE  Accounts'
<1> DEFINE k == Cardinality(Chunk(p))
           l == [loader[p] EXCEPT !.read = @ + k, !.done = @ + k]
           b == loader[p].batch
           counts == [n \in Rows |-> held[b][n] + IF n \in Chunk(p) THEN 1 ELSE 0]
<1>1. loader[p] \in Loader /\ b \in Batches /\ loader[p].pc = "loading" /\ loader[p].read \in Nat
    BY LoadState DEF StoreChunk, Loading, Live, Loader
<1>2. k \in Nat /\ Chunk(p) = (loader[p].read + 1)..(loader[p].read + k)
    BY <1>1, ChunkRows DEF StoreChunk
<1>3. \A c \in Batches, n \in Rows : held[c][n] \in Nat
    BY RowsOf DEF TypeInv
<1>4. counts \in [Rows -> Nat]
    BY <1>1, <1>3
<1>5. held' = [held EXCEPT ![b] = counts] /\ UNCHANGED <<batch, error, replay>>
    BY DEF StoreChunk
<1>6. \A n \in Rows : counts[n] = held[b][n] + IF n \in Chunk(p) THEN 1 ELSE 0
    OBVIOUS
<1>7. loader' = [loader EXCEPT ![p] = l]
    BY <1>1 DEF StoreChunk, TypeInv, LoadersOK
<1>8. l \in Loader
    BY <1>1, <1>2, LoaderReads
<1>9. l.pc = "loading" /\ l.batch = b /\ l.read = loader[p].read + k
    BY <1>1 DEF Loader
<1> HIDE DEF k, l, counts
<1>10. \A c \in Batches : held'[c] = IF c = b THEN counts ELSE held[c]
    BY <1>1, <1>4, <1>5, SetHeld DEF TypeInv
<1>11. RowsKept
    BY <1>3, <1>5, <1>6, <1>10 DEF RowsKept, Covered
<1>12. ASSUME NEW n \in Rows, n <= l.read
       PROVE  Covered(held', error', b, n)
    <2>1. CASE n <= loader[p].read
        <3>1. AccountedFor(held', error', loader[p])
            BY <1>11, StillAccounted DEF Accounts, LoadsAccount
        <3> QED
            BY <1>1, <2>1, <3>1 DEF AccountedFor, Live
    <2>2. CASE ~(n <= loader[p].read)
        <3>1. n \in Chunk(p)
            BY <1>1, <1>2, <1>9, <1>12, <2>2 DEF Rows
        <3> QED
            BY <1>1, <1>3, <1>6, <1>10, <3>1 DEF Covered
    <2> QED
        BY <2>1, <2>2
<1>13. AccountedFor(held', error', l)
    BY <1>9, <1>12 DEF AccountedFor
<1>14. LoadsAccount'
    BY <1>7, <1>8, <1>11, <1>13, LoadMoves DEF Accounts
<1> QED
    BY <1>5, <1>11, <1>14, SameNoneCompleted, ReplaysStay, NoneLost DEF Accounts

\* FailLoad keeps the accounts in order.
LEMMA FailLoadAccounts ==
    ASSUME TypeInv, Accounts, NEW p \in Loaders, FailLoad(p)
    PROVE  Accounts'
<1> DEFINE b == loader[p].batch
           row == [batch[b] EXCEPT !.status = "failed"]
<1>1. b \in Batches /\ batch[b] \in Batch
    BY LoadState, RowsOf DEF FailLoad, Loading, Live, TypeInv
<1>2. row \in Batch
    BY <1>1, BatchFields
<1>3. row.status # "completed"
    BY <1>1 DEF Batch
<1>4. /\ batch' = [batch EXCEPT ![b] = row]
      /\ loader' = [loader EXCEPT ![p] = IdleLoader]
      /\ UNCHANGED <<held, error, replay>>
    BY DEF FailLoad
<1> HIDE DEF row
<1>5. RowsKept /\ NoneCompleted
    BY <1>1, <1>2, <1>3, <1>4, SameRowsKept, RowNotCompleted
<1> QED
    BY <1>4, <1>5, LoadRests, ReplaysStay, NoneLost DEF Accounts

\* FinishIngest keeps the accounts in order.
LEMMA FinishIngestAccounts ==
    ASSUME TypeInv, Accounts, NEW p \in Loaders, FinishIngest(p)
    PROVE  Accounts'
<1> DEFINE b == loader[p].batch
           row == Finished(b, loader[p].read, loader[p].done, 0)
           l == [loader[p] EXCEPT !.pc = "publishing"]
<1>1. /\ loader[p] \in Loader /\ Live(loader[p]) /\ b \in Batches
      /\ loader[p].read \in Nat /\ loader[p].done \in Nat
    BY LoadState DEF FinishIngest, Loading, Live, Loader
<1>2. loader[p].read >= RowCount
    BY <1>1, NoChunkLeft DEF FinishIngest
<1>3. row \in Batch
    BY <1>1, FinishedType DEF TypeInv
<1>4. batch' = [batch EXCEPT ![b] = row] /\ UNCHANGED <<held, error, replay>>
    BY DEF FinishIngest
<1>5. loader' = [loader EXCEPT ![p] = l]
    BY DEF FinishIngest
<1>6. l \in Loader
    BY <1>1, LoaderMoves
<1>7. l.pc = "publishing" /\ l.batch = b /\ l.read = loader[p].read
    BY <1>1 DEF Loader
<1> HIDE DEF row, l
<1>8. RowsKept
    BY <1>4, SameRowsKept
<1>9. AccountedFor(held', error', l)
    <2>1. AccountedFor(held', error', loader[p])
        BY <1>8, StillAccounted DEF Accounts, LoadsAccount
    <2> QED
        BY <1>1, <1>7, <2>1 DEF AccountedFor
<1>10. LoadsAccount'
    BY <1>5, <1>6, <1>8, <1>9, LoadMoves DEF Accounts
<1>11. NoRowLost'
    BY <1>1, <1>2, <1>3, <1>4, CompletedAccounts
<1> QED
    BY <1>4, <1>8, <1>10, <1>11, ReplaysStay DEF Accounts

\* PublishIngest keeps the accounts in order.
LEMMA PublishIngestAccounts ==
    ASSUME TypeInv, Accounts, NEW p \in Loaders, NEW delivered \in BOOLEAN,
           PublishIngest(p, delivered)
    PROVE  Accounts'
<1> DEFINE b == loader[p].batch
           row == [batch[b] EXCEPT !.published = @ \/ delivered]
<1>1. b \in Batches
    BY LoadState DEF PublishIngest, Live
<1>2. batch[b] \in Batch /\ batch[b].published \in BOOLEAN
    BY <1>1, RowsOf, BatchFields DEF TypeInv
<1>3. row \in Batch
    <2>1. (batch[b].published \/ delivered) \in BOOLEAN
        BY <1>2
    <2> QED
        BY <1>2, <2>1, BatchFields
<1>4. row.status = batch[b].status
    BY <1>2 DEF Batch
<1>5. /\ batch' = [batch EXCEPT ![b] = row]
      /\ loader' = [loader EXCEPT ![p] = IdleLoader]
      /\ UNCHANGED <<held, error, replay>>
    BY DEF PublishIngest
<1> HIDE DEF row
<1>6. RowsKept /\ NoneCompleted
    BY <1>1, <1>3, <1>4, <1>5, SameRowsKept, RowNotCompleted
<1> QED
    BY <1>5, <1>6, LoadRests, ReplaysStay, NoneLost DEF Accounts

\* Die keeps the accounts in order.
LEMMA DieAccounts ==
    ASSUME TypeInv, Accounts, NEW p \in Loaders, Die(p)
    PROVE  Accounts'
<1>1. RowsKept /\ NoneCompleted
    BY SameRowsKept, SameNoneCompleted DEF Die
<1> QED
    BY <1>1, LoadRests, ReplaysStay, NoneLost DEF Die, Accounts

---------------------------------------------------------------------------
(* So does each step of an operator and of a replay.                       *)

\* FindRunning keeps the accounts in order.
LEMMA FindRunningAccounts ==
    ASSUME TypeInv, Accounts, NEW o \in Operators, NEW b \in Batches, FindRunning(o, b)
    PROVE  Accounts'
<1>1. RowsKept /\ NoneCompleted
    BY SameRowsKept, SameNoneCompleted DEF FindRunning
<1> QED
    BY <1>1, LoadsStay, ReplaysStay, NoneLost DEF FindRunning, Accounts

\* Abandon keeps the accounts in order.
LEMMA AbandonAccounts ==
    ASSUME TypeInv, Accounts, NEW o \in Operators, Abandon(o)
    PROVE  Accounts'
<1> DEFINE b == desk[o]
           row == [batch[b] EXCEPT !.status = "failed"]
<1>1. b \in Batches
    BY DEF Abandon, TypeInv, DesksOK, Tables, Batches, NoBatch
<1>2. batch[b] \in Batch
    BY <1>1, RowsOf DEF TypeInv
<1>3. row \in Batch
    BY <1>2, BatchFields
<1>4. row.status # "completed"
    BY <1>2 DEF Batch
<1>5. batch' = [batch EXCEPT ![b] = row] /\ UNCHANGED <<held, error, loader, replay>>
    BY DEF Abandon
<1> HIDE DEF row
<1>6. RowsKept /\ NoneCompleted
    BY <1>1, <1>3, <1>4, <1>5, SameRowsKept, RowNotCompleted
<1> QED
    BY <1>5, <1>6, LoadsStay, ReplaysStay, NoneLost DEF Accounts

\* StartReplay keeps the accounts in order.
LEMMA StartReplayAccounts ==
    ASSUME TypeInv, Accounts, NEW q \in Replayers, StartReplay(q)
    PROVE  Accounts'
<1> DEFINE r == [pc |-> "next", todo |-> OpenErrors]
<1>1. replay' = [replay EXCEPT ![q] = r] /\ UNCHANGED <<batch, held, error, loader>>
    BY DEF StartReplay
<1>2. r.pc # "marking"
    OBVIOUS
<1> HIDE DEF r
<1>3. RowsKept /\ NoneCompleted
    BY <1>1, SameRowsKept, SameNoneCompleted
<1>4. MarkedIsHeld'
    BY <1>1, <1>2, <1>3, ReplayMoves DEF Accounts
<1> QED
    BY <1>1, <1>3, <1>4, LoadsStay, NoneLost DEF Accounts

\* ReplayRow keeps the accounts in order.
LEMMA ReplayRowAccounts ==
    ASSUME TypeInv, Accounts, NEW q \in Replayers, ReplayRow(q)
    PROVE  Accounts'
<1> DEFINE x == First(replay[q].todo)
           r == [replay[q] EXCEPT !.pc = "marking"]
<1>1. x[1] \in Batches /\ x[2] \in Rows
    BY ReplayState DEF ReplayRow
<1>2. held' = [held EXCEPT ![x[1]][x[2]] = @ + 1] /\ UNCHANGED <<batch, error, loader>>
    BY DEF ReplayRow
<1>3. replay' = [replay EXCEPT ![q] = r]
    BY DEF ReplayRow
<1>4. First(r.todo) = x
    <2>1. replay[q] \in Replay
        BY DEF TypeInv, ReplaysOK
    <2>2. r.todo = replay[q].todo
        BY <2>1 DEF Replay
    <2> QED
        BY <2>2
<1> HIDE DEF x, r
<1>5. \A c \in Batches, k \in Rows :
          held'[c][k] = IF c = x[1] /\ k = x[2] THEN held[c][k] + 1 ELSE held[c][k]
    BY <1>1, <1>2, HoldRow DEF TypeInv
<1>6. \A c \in Batches, k \in Rows : held[c][k] \in Nat
    BY RowsOf DEF TypeInv
<1>7. RowsKept
    BY <1>2, <1>5, <1>6 DEF RowsKept, Covered
<1>8. held'[x[1]][x[2]] > 0
    BY <1>1, <1>5, <1>6
<1>9. MarkedIsHeld'
    BY <1>3, <1>4, <1>7, <1>8, ReplayMoves DEF Accounts
<1> QED
    BY <1>2, <1>7, <1>9, SameNoneCompleted, LoadsStay, NoneLost DEF Accounts

\* MarkReprocessed keeps the accounts in order.
LEMMA MarkReprocessedAccounts ==
    ASSUME TypeInv, Accounts, NEW q \in Replayers, MarkReprocessed(q)
    PROVE  Accounts'
<1> DEFINE x == First(replay[q].todo)
           b == batch[x[1]]
           row == [b EXCEPT !.ingested = @ + 1, !.skipped = IF @ = 0 THEN 0 ELSE @ - 1]
           r == After(q, x)
<1>1. x[1] \in Batches /\ x[2] \in Rows /\ r.pc # "marking"
    BY ReplayState DEF MarkReprocessed
<1>2. held[x[1]][x[2]] > 0
    BY DEF MarkReprocessed, Accounts, MarkedIsHeld
<1>3. b \in Batch
    BY <1>1, RowsOf DEF TypeInv
<1>4. row \in Batch
    <2>1. b.ingested + 1 \in Nat /\ (IF b.skipped = 0 THEN 0 ELSE b.skipped - 1) \in Nat
        BY <1>3 DEF Batch
    <2> QED
        BY <1>3, <2>1, BatchFields
<1>5. row.status = b.status
    BY <1>3 DEF Batch
<1>6. /\ error' = [error EXCEPT ![x[1]][x[2]] = "reprocessed"]
      /\ batch' = [batch EXCEPT ![x[1]] = row]
      /\ replay' = [replay EXCEPT ![q] = r]
      /\ UNCHANGED <<held, loader>>
    BY DEF MarkReprocessed
<1> HIDE DEF x, row, r
<1>7. \A c \in Batches, k \in Rows :
          error'[c][k] = IF c = x[1] /\ k = x[2] THEN "reprocessed" ELSE error[c][k]
    BY <1>1, <1>6, SetError DEF TypeInv
<1>8. RowsKept
    BY <1>2, <1>6, <1>7 DEF RowsKept, Covered
<1>9. NoneCompleted
    BY <1>1, <1>4, <1>5, <1>6, RowNotCompleted
<1>10. MarkedIsHeld'
    BY <1>1, <1>6, <1>8, ReplayMoves DEF Accounts
<1> QED
    BY <1>6, <1>8, <1>9, <1>10, LoadsStay, NoneLost DEF Accounts

\* ReplayFailure keeps the accounts in order.
LEMMA ReplayFailureAccounts ==
    ASSUME TypeInv, Accounts, NEW q \in Replayers, ReplayFailure(q)
    PROVE  Accounts'
<1> DEFINE x == First(replay[q].todo)
           r == After(q, x)
<1>1. x[1] \in Batches /\ x[2] \in Rows /\ r.pc # "marking"
    BY ReplayState DEF ReplayFailure
<1>2. /\ error' = [error EXCEPT ![x[1]][x[2]] = "open"]
      /\ replay' = [replay EXCEPT ![q] = r]
      /\ UNCHANGED <<batch, held, loader>>
    BY DEF ReplayFailure
<1> HIDE DEF x, r
<1>3. \A c \in Batches, k \in Rows :
          error'[c][k] = IF c = x[1] /\ k = x[2] THEN "open" ELSE error[c][k]
    BY <1>1, <1>2, SetError DEF TypeInv
<1>4. RowsKept
    BY <1>2, <1>3 DEF RowsKept, Covered
<1>5. MarkedIsHeld'
    BY <1>1, <1>2, <1>4, ReplayMoves DEF Accounts
<1> QED
    BY <1>2, <1>4, <1>5, SameNoneCompleted, LoadsStay, NoneLost DEF Accounts

\* ReplayDies keeps the accounts in order.
LEMMA ReplayDiesAccounts ==
    ASSUME TypeInv, Accounts, NEW q \in Replayers, ReplayDies(q)
    PROVE  Accounts'
<1>1. RowsKept /\ NoneCompleted
    BY SameRowsKept, SameNoneCompleted DEF ReplayDies
<1>2. MarkedIsHeld'
    BY <1>1, IdleType, ReplayMoves DEF ReplayDies, Accounts
<1> QED
    BY <1>1, <1>2, LoadsStay, NoneLost DEF ReplayDies, Accounts

---------------------------------------------------------------------------
\* The accounts are in order at first and after every step.
LEMMA InitAccounts == Init => Accounts
<1> SUFFICES ASSUME Init PROVE Accounts
    OBVIOUS
<1>1. LoadsAccount
    BY IdleType DEF Init, LoadsAccount, AccountedFor, IdleLoader
<1>2. MarkedIsHeld
    BY IdleType DEF Init, MarkedIsHeld
<1>3. NoRowLost
    BY DEF Init, NoRowLost, Batches
<1> QED
    BY <1>1, <1>2, <1>3 DEF Accounts

\* Every step of a load keeps the accounts in order.
LEMMA LoadAccounts ==
    ASSUME TypeInv, Accounts, NEW p \in Loaders, Load(p)
    PROVE  Accounts'
<1>1. ASSUME NEW path \in {"record", "batch"}, NEW again \in Flags, CheckCompleted(p, path, again)
      PROVE  Accounts'
    BY <1>1, CheckCompletedAccounts
<1>2. CASE CheckInFlight(p)
    BY <1>2, CheckInFlightAccounts
<1>3. CASE CreateBatch(p)
    BY <1>3, CreateBatchAccounts
<1>4. CASE StoreRow(p)
    BY <1>4, StoreRowAccounts
<1>5. CASE RecordFailure(p)
    BY <1>5, RecordFailureAccounts
<1>6. CASE FinishRecords(p)
    BY <1>6, FinishRecordsAccounts
<1>7. ASSUME NEW publish \in BOOLEAN, MarkPublished(p, publish)
      PROVE  Accounts'
    BY <1>7, MarkPublishedAccounts
<1>8. CASE StoreChunk(p)
    BY <1>8, StoreChunkAccounts
<1>9. CASE FailLoad(p)
    BY <1>9, FailLoadAccounts
<1>10. CASE FinishIngest(p)
    BY <1>10, FinishIngestAccounts
<1>11. ASSUME NEW delivered \in BOOLEAN, PublishIngest(p, delivered)
       PROVE  Accounts'
    BY <1>11, PublishIngestAccounts
<1>12. CASE Die(p)
    BY <1>12, DieAccounts
<1> QED
    BY <1>1, <1>2, <1>3, <1>4, <1>5, <1>6, <1>7, <1>8, <1>9, <1>10, <1>11, <1>12 DEF Load

\* Every step of the system does.
LEMMA NextAccounts == TypeInv /\ Accounts /\ [Next]_vars => Accounts'
<1> SUFFICES ASSUME TypeInv, Accounts, [Next]_vars PROVE Accounts'
    OBVIOUS
<1>1. ASSUME NEW p \in Loaders, Load(p)
      PROVE  Accounts'
    BY <1>1, LoadAccounts
<1>2. ASSUME NEW o \in Operators, Operate(o)
      PROVE  Accounts'
    BY <1>2, AbandonAccounts, FindRunningAccounts DEF Operate
<1>3. ASSUME NEW q \in Replayers, Reprocess(q)
      PROVE  Accounts'
    BY <1>3, StartReplayAccounts, ReplayRowAccounts, MarkReprocessedAccounts,
       ReplayFailureAccounts, ReplayDiesAccounts DEF Reprocess
<1>4. CASE UNCHANGED vars
    BY <1>4, SameRowsKept, SameNoneCompleted, LoadsStay, ReplaysStay, NoneLost
       DEF vars, Accounts
<1> QED
    BY <1>1, <1>2, <1>3, <1>4 DEF Next

\* Whatever the number of loads, replays and operators, and whoever dies when, a
\* batch that says completed holds every row of its file or has an open error for it.
THEOREM RowsAreKept == Spec => []NoRowLost
<1>1. Spec => [](TypeInv /\ Accounts)
    BY InitTypeInv, NextTypeInv, InitAccounts, NextAccounts, PTL DEF Spec
<1>2. Accounts => NoRowLost
    BY DEF Accounts
<1> QED
    BY <1>1, <1>2, PTL

---------------------------------------------------------------------------
(* The sum of what a batch holds.  HeldRows folds over sets of rows, so    *)
(* its lemmas go by the smallest set that they could fail for.             *)

LEMMA RowsAreFinite ==
    /\ IsFiniteSet(Rows) /\ Cardinality(Rows) \in Nat
    /\ \A s \in SUBSET Rows : IsFiniteSet(s) /\ Cardinality(s) \in Nat
<1>1. IsFiniteSet(Rows)
    BY RowAssumption, FS_Interval DEF Rows
<1>2. \A s \in SUBSET Rows : IsFiniteSet(s)
    BY <1>1, FS_Subset
<1> QED
    BY <1>1, <1>2, FS_CardinalityType

\* A set of sets of rows has one that is smallest.
LEMMA SmallestSet ==
    ASSUME NEW B \in SUBSET (SUBSET Rows), B # {}
    PROVE  \E s \in B : \A x \in s : s \ {x} \notin B
<1> DEFINE sizes == {Cardinality(s) : s \in B}
<1>1. IsFiniteSet(Rows)
    BY RowsAreFinite
<1>2. \A s \in B : IsFiniteSet(s) /\ Cardinality(s) \in Nat
    BY RowsAreFinite
<1>3. sizes \in SUBSET Nat /\ sizes # {}
    BY <1>2
<1>4. PICK n \in sizes : \A k \in sizes : n <= k
    BY <1>3, LeastNumber
<1>5. PICK s \in B : Cardinality(s) = n
    BY <1>4
<1>6. ASSUME NEW x \in s, s \ {x} \in B
      PROVE  FALSE
    <2>1. Cardinality(s \ {x}) = Cardinality(s) - 1
        BY <1>2, <1>6, FS_RemoveElement
    <2>2. n <= Cardinality(s \ {x}) /\ n \in Nat
        BY <1>3, <1>4, <1>6
    <2> QED
        BY <1>5, <2>1, <2>2
<1> QED
    BY <1>5, <1>6

\* What the fold is of a set of rows, given what it is of the smaller ones.
Taken(s) == CHOOSE x \in s : TRUE
Added(h, f, s) == IF s = {} THEN 0 ELSE h[Taken(s)] + f[s \ {Taken(s)}]
Fold(h, f) == f = [s \in SUBSET Rows |-> Added(h, f, s)]
FoldOf(h) == CHOOSE f : Fold(h, f)

LEMMA TakenIsMember ==
    ASSUME NEW s \in SUBSET Rows, s # {}
    PROVE  Taken(s) \in s /\ Taken(s) \in Rows /\ s \ {Taken(s)} \in SUBSET Rows
BY DEF Taken

\* f is the fold of every set of up to n rows.
FoldUpTo(h, f, n) ==
    /\ f = [s \in SUBSET Rows |-> f[s]]
    /\ \A s \in SUBSET Rows : Cardinality(s) <= n => f[s] = Added(h, f, s)

LEMMA FoldGrows ==
    ASSUME NEW h, NEW f, NEW n \in Nat, FoldUpTo(h, f, n)
    PROVE  \E g : FoldUpTo(h, g, n + 1)
<1>1. PICK g : g = [s \in SUBSET Rows |-> Added(h, f, s)]
    OBVIOUS
<1>2. \A s \in SUBSET Rows : g[s] = Added(h, f, s)
    BY <1>1
<1>3. ASSUME NEW s \in SUBSET Rows, Cardinality(s) <= n + 1
      PROVE  g[s] = Added(h, g, s)
    <2>1. CASE s = {}
        BY <1>2, <2>1 DEF Added
    <2>2. CASE s # {}
        <3>1. PICK x, less : x = Taken(s) /\ less = s \ {x}
            OBVIOUS
        <3>2. x \in s /\ less \in SUBSET Rows
            BY <2>2, <3>1, TakenIsMember
        <3>3. IsFiniteSet(s)
            BY RowsAreFinite
        <3>4. Cardinality(less) = Cardinality(s) - 1 /\ Cardinality(s) \in Nat
            BY <3>1, <3>2, <3>3, FS_RemoveElement, FS_CardinalityType
        <3>5. Cardinality(less) <= n
            BY <1>3, <3>4
        <3>6. f[less] = Added(h, f, less)
            BY <3>2, <3>5 DEF FoldUpTo
        <3>7. f[less] = g[less]
            BY <1>2, <3>2, <3>6
        <3>8. g[s] = h[x] + f[less] /\ Added(h, g, s) = h[x] + g[less]
            BY <1>2, <2>2, <3>1 DEF Added
        <3> QED
            BY <3>7, <3>8
    <2> QED
        BY <2>1, <2>2
<1>4. g = [s \in SUBSET Rows |-> g[s]]
    BY <1>1
<1> QED
    BY <1>3, <1>4 DEF FoldUpTo

LEMMA FoldReaches ==
    ASSUME NEW h, NEW n \in Nat
    PROVE  \E f : FoldUpTo(h, f, n)
<1> DEFINE Short == {k \in Nat : ~ \E f : FoldUpTo(h, f, k)}
<1>1. SUFFICES ASSUME Short # {} PROVE FALSE
    OBVIOUS
<1>2. PICK k \in Short : \A j \in Short : k <= j
    BY <1>1, LeastNumber
<1>3. CASE k = 0
    <2>1. PICK f : f = [s \in SUBSET Rows |-> 0]
        OBVIOUS
    <2>2. ASSUME NEW s \in SUBSET Rows, Cardinality(s) <= 0
          PROVE  f[s] = Added(h, f, s)
        <3>1. IsFiniteSet(s)
            BY RowsAreFinite
        <3>2. Cardinality(s) \in Nat
            BY <3>1, FS_CardinalityType
        <3>3. Cardinality(s) = 0
            BY <2>2, <3>2
        <3>4. s = {}
            BY <3>1, <3>3, FS_EmptySet
        <3> QED
            BY <2>1, <3>4 DEF Added
    <2>3. FoldUpTo(h, f, 0)
        BY <2>1, <2>2 DEF FoldUpTo
    <2> QED
        BY <1>3, <2>3
<1>4. CASE k # 0
    <2>1. k - 1 \in Nat /\ k - 1 \notin Short /\ (k - 1) + 1 = k
        BY <1>2, <1>4
    <2>2. PICK f : FoldUpTo(h, f, k - 1)
        BY <2>1
    <2>3. \E g : FoldUpTo(h, g, (k - 1) + 1)
        BY <2>1, <2>2, FoldGrows
    <2> QED
        BY <2>1, <2>3
<1> QED
    BY <1>3, <1>4

LEMMA FoldExists ==
    ASSUME NEW h
    PROVE  Fold(h, FoldOf(h))
<1>1. IsFiniteSet(Rows) /\ Cardinality(Rows) \in Nat
    BY RowsAreFinite
<1>2. PICK f : FoldUpTo(h, f, Cardinality(Rows))
    BY <1>1, FoldReaches
<1>3. \A s \in SUBSET Rows : f[s] = Added(h, f, s)
    <2> TAKE s \in SUBSET Rows
    <2>1. Cardinality(s) <= Cardinality(Rows)
        BY <1>1, FS_Subset
    <2> QED
        BY <1>2, <2>1 DEF FoldUpTo
<1>4. Fold(h, f)
    BY <1>2, <1>3 DEF FoldUpTo, Fold
<1> QED
    BY <1>4 DEF FoldOf

\* HeldRows is that fold.
LEMMA HeldIsFold ==
    ASSUME NEW b
    PROVE  HeldRows(b) = FoldOf(held[b])[Rows]
BY DEF HeldRows, MapThenSumSet, MapThenFoldSet, FoldOf, Fold, Added, Taken

\* The fold of counts is a count, and grows by one for every row that is counted once more.
LEMMA FoldIsNumber ==
    ASSUME NEW h \in [Rows -> Nat], NEW s \in SUBSET Rows
    PROVE  FoldOf(h)[s] \in Nat
<1> DEFINE f == FoldOf(h)
           B == {t \in SUBSET Rows : f[t] \notin Nat}
<1>1. SUFFICES ASSUME B # {} PROVE FALSE
    OBVIOUS
<1>2. \A t \in SUBSET Rows : f[t] = Added(h, f, t)
    BY FoldExists DEF Fold
<1>3. PICK t \in B : \A x \in t : t \ {x} \notin B
    BY <1>1, SmallestSet
<1> HIDE DEF f
<1>4. t # {}
    BY <1>2, <1>3 DEF Added
<1>5. PICK x : x = Taken(t)
    OBVIOUS
<1>6. x \in t /\ x \in Rows /\ t \ {x} \in SUBSET Rows
    BY <1>3, <1>4, <1>5, TakenIsMember
<1>7. f[t \ {x}] \in Nat /\ f[t] = h[x] + f[t \ {x}]
    BY <1>2, <1>3, <1>4, <1>5, <1>6 DEF Added
<1>8. h[x] \in Nat
    BY <1>6
<1> QED
    BY <1>3, <1>7, <1>8

OneMore(g, h, C) == \A n \in Rows : g[n] = h[n] + IF n \in C THEN 1 ELSE 0

LEMMA FoldAdds ==
    ASSUME NEW h \in [Rows -> Nat], NEW g \in [Rows -> Nat], NEW C \in SUBSET Rows,
           OneMore(g, h, C), NEW s \in SUBSET Rows
    PROVE  FoldOf(g)[s] = FoldOf(h)[s] + Cardinality(s \cap C)
<1> DEFINE f == FoldOf(h)
           e == FoldOf(g)
           B == {t \in SUBSET Rows : e[t] # f[t] + Cardinality(t \cap C)}
<1>1. SUFFICES ASSUME B # {} PROVE FALSE
    OBVIOUS
<1>2. /\ \A t \in SUBSET Rows : f[t] = Added(h, f, t)
      /\ \A t \in SUBSET Rows : e[t] = Added(g, e, t)
    BY FoldExists DEF Fold
<1>3. PICK t \in B : \A x \in t : t \ {x} \notin B
    BY <1>1, SmallestSet
<1>4. \A r \in SUBSET Rows : f[r] \in Nat
    BY FoldIsNumber
<1> HIDE DEF f, e
<1>5. t # {}
    <2>1. ASSUME t = {} PROVE FALSE
        <3>1. t \cap C = {}
            BY <2>1
        <3>2. Cardinality(t \cap C) = 0
            BY <3>1, FS_EmptySet
        <3>3. e[t] = 0 /\ f[t] = 0
            BY <1>2, <2>1 DEF Added
        <3> QED
            BY <1>3, <3>2, <3>3
    <2> QED
        BY <2>1
<1>6. PICK x, less : x = Taken(t) /\ less = t \ {x}
    OBVIOUS
<1>7. x \in t /\ x \in Rows /\ less \in SUBSET Rows
    BY <1>3, <1>5, <1>6, TakenIsMember
<1>8. e[less] = f[less] + Cardinality(less \cap C)
    BY <1>3, <1>6, <1>7
<1>9. e[t] = g[x] + e[less] /\ f[t] = h[x] + f[less]
    BY <1>2, <1>3, <1>5, <1>6 DEF Added
<1>10. PICK big, small : big = t \cap C /\ small = less \cap C
    OBVIOUS
<1>11. IsFiniteSet(big) /\ Cardinality(big) \in Nat /\ Cardinality(small) \in Nat
    <2>1. big \in SUBSET Rows /\ small \in SUBSET Rows
        BY <1>10
    <2> QED
        BY <2>1, RowsAreFinite
<1>12. PICK one \in Nat : one = IF x \in C THEN 1 ELSE 0
    OBVIOUS
<1>13. Cardinality(big) = Cardinality(small) + one
    <2>1. CASE x \in C
        <3>1. x \in big /\ small = big \ {x} /\ one = 1
            BY <1>6, <1>7, <1>10, <1>12, <2>1
        <3>2. Cardinality(small) = Cardinality(big) - 1
            BY <1>11, <3>1, FS_RemoveElement
        <3> QED
            BY <1>11, <3>1, <3>2
    <2>2. CASE x \notin C
        <3>1. small = big /\ one = 0
            BY <1>6, <1>7, <1>10, <1>12, <2>2
        <3> QED
            BY <1>11, <3>1
    <2> QED
        BY <2>1, <2>2
<1>14. g[x] = h[x] + one /\ h[x] \in Nat /\ f[less] \in Nat
    BY <1>4, <1>7, <1>12 DEF OneMore
<1>15. e[t] = f[t] + Cardinality(t \cap C)
    BY <1>8, <1>9, <1>10, <1>11, <1>13, <1>14
<1> QED
    BY <1>3, <1>15

---------------------------------------------------------------------------
(* What a batch claims, it holds.  ClaimsOnlyWhatItHolds speaks of batches *)
(* that have completed; the invariant adds the rows that a load will claim *)
(* when it finishes, and the rows that replays have stored and not counted *)
(* yet: every batch has room for both.                                     *)

Total(h) == FoldOf(h)[Rows]

\* The replays that have stored a row of batch b which they are still to count.
MarkingIn(r, b) == {q \in Replayers : r[q].pc = "marking" /\ First(r[q].todo)[1] = b}

\* With those rows a claim of k rows does not exceed what the batch holds.
Fits(h, r, b, k) == k + Cardinality(MarkingIn(r, b)) <= Total(h[b])

BatchesClaim ==
    \A b \in Batches : IsFiniteSet(MarkingIn(replay, b)) /\ Fits(held, replay, b, batch[b].ingested)

LoadFits(h, r, l) ==
    /\ Live(l) => Fits(h, r, l.batch, l.done)
    /\ l.pc \in {"checked", "clear"} => l.done = 0

LoadsClaim == \A p \in Loaders : LoadFits(held, replay, loader[p])

Claims == BatchesClaim /\ LoadsClaim

\* A step that leaves every claim that fits its room.
RoomKept ==
    \A b \in Batches :
        /\ IsFiniteSet(MarkingIn(replay', b))
        /\ \A k \in Nat : Fits(held, replay, b, k) => Fits(held', replay', b, k)

\* The numbers of a claim are numbers.
LEMMA RoomOf ==
    ASSUME TypeInv, BatchesClaim, NEW b \in Batches
    PROVE  /\ Total(held[b]) \in Nat /\ IsFiniteSet(MarkingIn(replay, b))
           /\ Cardinality(MarkingIn(replay, b)) \in Nat
<1>1. held[b] \in [Rows -> Nat]
    BY RowsOf DEF TypeInv
<1>2. Total(held[b]) \in Nat
    BY <1>1, FoldIsNumber DEF Total
<1>3. IsFiniteSet(MarkingIn(replay, b))
    BY DEF BatchesClaim
<1> QED
    BY <1>2, <1>3, FS_CardinalityType

\* The total grows by the rows that are counted once more.
LEMMA TotalAdds ==
    ASSUME NEW h \in [Rows -> Nat], NEW g \in [Rows -> Nat], NEW C \in SUBSET Rows,
           OneMore(g, h, C)
    PROVE  Total(g) = Total(h) + Cardinality(C)
<1>1. Rows \in SUBSET Rows /\ Rows \cap C = C
    OBVIOUS
<1>2. FoldOf(g)[Rows] = FoldOf(h)[Rows] + Cardinality(Rows \cap C)
    BY <1>1, FoldAdds
<1> QED
    BY <1>1, <1>2 DEF Total

\* Neither rows nor replays move.
LEMMA SameRoom ==
    ASSUME BatchesClaim, UNCHANGED <<held, replay>>
    PROVE  RoomKept
BY DEF RoomKept, BatchesClaim

\* A batch holds one more of each row of C.
LEMMA RowsAdded ==
    ASSUME TypeInv, BatchesClaim, NEW b \in Batches, NEW C \in SUBSET Rows,
           UNCHANGED <<batch, replay>>, held' \in Seq([Rows -> Nat]),
           Len(held') = Len(held),
           \A c \in Batches, n \in Rows :
               held'[c][n] = IF c = b /\ n \in C THEN held[c][n] + 1 ELSE held[c][n]
    PROVE  /\ RoomKept
           /\ \A k \in Nat :
                 Fits(held, replay, b, k) => Fits(held', replay', b, k + Cardinality(C))
<1>1. \A c \in Batches : held[c] \in [Rows -> Nat] /\ held'[c] \in [Rows -> Nat]
    BY RowsOf DEF TypeInv, Tables, Batches
<1>2. IsFiniteSet(C) /\ Cardinality(C) \in Nat /\ Rows \cap C = C
    BY RowsAreFinite
<1>3. ASSUME NEW c \in Batches, c # b
      PROVE  held'[c] = held[c]
    BY <1>1, <1>3
<1>4. Total(held'[b]) = Total(held[b]) + Cardinality(C)
    <2>1. \A n \in Rows : held'[b][n] = held[b][n] + IF n \in C THEN 1 ELSE 0
        BY <1>1
    <2>2. PICK h \in [Rows -> Nat], g \in [Rows -> Nat] : h = held[b] /\ g = held'[b]
        BY <1>1
    <2>3. OneMore(g, h, C)
        BY <2>1, <2>2 DEF OneMore
    <2>4. Total(g) = Total(h) + Cardinality(C)
        BY <2>2, <2>3, TotalAdds
    <2> QED
        BY <2>2, <2>4
<1>5. ASSUME NEW k \in Nat, Fits(held, replay, b, k)
      PROVE  Fits(held', replay', b, k) /\ Fits(held', replay', b, k + Cardinality(C))
    <2>1. PICK t, m : t = Total(held[b]) /\ m = Cardinality(MarkingIn(replay, b))
        OBVIOUS
    <2>2. t \in Nat /\ m \in Nat
        BY <2>1, RoomOf
    <2>3. k + m <= t
        BY <1>5, <2>1 DEF Fits
    <2>4. k + m <= t + Cardinality(C) /\ (k + Cardinality(C)) + m <= t + Cardinality(C)
        BY <1>2, <2>2, <2>3
    <2> QED
        BY <1>4, <2>1, <2>4 DEF Fits
<1>6. ASSUME NEW c \in Batches, NEW k \in Nat, Fits(held, replay, c, k)
      PROVE  Fits(held', replay', c, k)
    <2>1. CASE c = b
        BY <1>5, <1>6, <2>1
    <2>2. CASE c # b
        BY <1>3, <1>6, <2>2 DEF Fits
    <2> QED
        BY <2>1, <2>2
<1>7. RoomKept
    BY <1>6 DEF RoomKept, BatchesClaim
<1> QED
    BY <1>5, <1>7

\* A replay moves on, and not to a row that it has stored.
LEMMA ReplayMovesOn ==
    ASSUME TypeInv, BatchesClaim, NEW q \in Replayers, NEW r, r.pc # "marking",
           replay' = [replay EXCEPT ![q] = r]
    PROVE  \A b \in Batches : MarkingIn(replay', b) = MarkingIn(replay, b) \ {q}
<1>1. \A x \in Replayers : replay'[x] = IF x = q THEN r ELSE replay[x]
    BY DEF TypeInv, ReplaysOK
<1> QED
    BY <1>1 DEF MarkingIn

LEMMA ReplayLeavesRoom ==
    ASSUME TypeInv, BatchesClaim, NEW q \in Replayers, NEW r, r.pc # "marking",
           replay' = [replay EXCEPT ![q] = r], UNCHANGED held
    PROVE  RoomKept
<1>1. \A b \in Batches : MarkingIn(replay', b) = MarkingIn(replay, b) \ {q}
    BY ReplayMovesOn
<1>2. ASSUME NEW b \in Batches
      PROVE  /\ IsFiniteSet(MarkingIn(replay', b))
             /\ \A k \in Nat : Fits(held, replay, b, k) => Fits(held', replay', b, k)
    <2>1. PICK m, n : m = MarkingIn(replay, b) /\ n = MarkingIn(replay', b)
        OBVIOUS
    <2>2. IsFiniteSet(m) /\ n \subseteq m
        BY <1>1, <2>1 DEF BatchesClaim
    <2>3. IsFiniteSet(n) /\ Cardinality(n) <= Cardinality(m)
        BY <2>2, FS_Subset
    <2>4. Cardinality(m) \in Nat /\ Cardinality(n) \in Nat
        BY <2>2, <2>3, FS_CardinalityType
    <2>5. Total(held[b]) \in Nat
        BY RoomOf
    <2>6. ASSUME NEW k \in Nat, Fits(held, replay, b, k)
          PROVE  Fits(held', replay', b, k)
        <3>1. PICK t \in Nat : t = Total(held[b])
            BY <2>5
        <3>2. k + Cardinality(m) <= t
            BY <2>1, <2>6, <3>1 DEF Fits
        <3>3. k + Cardinality(n) <= t
            BY <2>3, <2>4, <3>2
        <3> QED
            BY <2>1, <3>1, <3>3 DEF Fits
    <2> QED
        BY <2>1, <2>3, <2>6
<1> QED
    BY <1>2 DEF RoomKept

---------------------------------------------------------------------------
(* What a step with room for the claims owes besides.                      *)

\* No batch claims more than before.
LEMMA SameClaims ==
    ASSUME TypeInv, BatchesClaim, RoomKept, Batches' = Batches,
           \A b \in Batches : batch'[b].ingested = batch[b].ingested
    PROVE  BatchesClaim'
<1>1. ASSUME NEW b \in Batches
      PROVE  IsFiniteSet(MarkingIn(replay', b)) /\ Fits(held', replay', b, batch'[b].ingested)
    <2>1. batch[b].ingested \in Nat
        BY RowsOf DEF TypeInv, Batch
    <2>2. Fits(held, replay, b, batch[b].ingested)
        BY DEF BatchesClaim
    <2> QED
        BY <2>1, <2>2 DEF RoomKept
<1> QED
    BY <1>1 DEF BatchesClaim

\* One batch row is written, with a claim that fits.
LEMMA RowClaims ==
    ASSUME TypeInv, BatchesClaim, RoomKept, NEW b \in Batches, NEW row \in Batch,
           batch' = [batch EXCEPT ![b] = row], Fits(held', replay', b, row.ingested)
    PROVE  BatchesClaim'
<1>1. Batches' = Batches /\ \A c \in Batches : batch'[c] = IF c = b THEN row ELSE batch[c]
    BY SetBatch DEF TypeInv, Batches
<1>2. ASSUME NEW c \in Batches
      PROVE  IsFiniteSet(MarkingIn(replay', c)) /\ Fits(held', replay', c, batch'[c].ingested)
    <2>1. CASE c = b
        BY <1>1, <2>1 DEF RoomKept
    <2>2. CASE c # b
        <3>1. batch[c].ingested \in Nat
            BY RowsOf DEF TypeInv, Batch
        <3>2. Fits(held, replay, c, batch[c].ingested)
            BY DEF BatchesClaim
        <3>3. batch'[c] = batch[c]
            BY <1>1, <2>2
        <3> QED
            BY <3>1, <3>2, <3>3 DEF RoomKept
    <2> QED
        BY <2>1, <2>2
<1> QED
    BY <1>1, <1>2 DEF BatchesClaim

\* A batch row that keeps its claim.
LEMMA RowKeepsClaim ==
    ASSUME TypeInv, BatchesClaim, RoomKept, NEW b \in Batches, NEW row \in Batch,
           batch' = [batch EXCEPT ![b] = row], row.ingested = batch[b].ingested
    PROVE  BatchesClaim'
<1>1. batch[b].ingested \in Nat /\ Fits(held, replay, b, batch[b].ingested)
    BY RowsOf DEF TypeInv, Batch, BatchesClaim
<1>2. Fits(held', replay', b, row.ingested)
    BY <1>1 DEF RoomKept
<1> QED
    BY <1>2, RowClaims

\* A load whose own state does not move will still claim what its batch holds.
LEMMA StillFits ==
    ASSUME TypeInv, RoomKept, NEW p \in Loaders, LoadFits(held, replay, loader[p])
    PROVE  LoadFits(held', replay', loader[p])
<1>1. loader[p].done \in Nat /\ (Live(loader[p]) => loader[p].batch \in Batches)
    BY LoadState DEF Loader
<1> QED
    BY <1>1 DEF LoadFits, RoomKept

LEMMA LoadsStillFit ==
    ASSUME TypeInv, LoadsClaim, RoomKept, UNCHANGED loader
    PROVE  LoadsClaim'
BY StillFits DEF LoadsClaim

\* One load moves on.
LEMMA OneLoadFits ==
    ASSUME TypeInv, LoadsClaim, RoomKept, NEW p \in Loaders, NEW l \in Loader,
           loader' = [loader EXCEPT ![p] = l], LoadFits(held', replay', l)
    PROVE  LoadsClaim'
<1>1. \A x \in Loaders : loader'[x] = IF x = p THEN l ELSE loader[x]
    BY DEF TypeInv, LoadersOK
<1>2. ASSUME NEW x \in Loaders
      PROVE  LoadFits(held', replay', loader'[x])
    <2>1. CASE x = p
        BY <1>1, <2>1
    <2>2. CASE x # p
        <3>1. loader'[x] = loader[x]
            BY <1>1, <2>2
        <3>2. LoadFits(held', replay', loader[x])
            BY StillFits DEF LoadsClaim
        <3> QED
            BY <3>1, <3>2
    <2> QED
        BY <2>1, <2>2
<1> QED
    BY <1>2 DEF LoadsClaim

LEMMA RestingLoadFits ==
    ASSUME TypeInv, LoadsClaim, RoomKept, NEW p \in Loaders,
           loader' = [loader EXCEPT ![p] = IdleLoader]
    PROVE  LoadsClaim'
<1>1. LoadFits(held', replay', IdleLoader)
    BY IdleType DEF LoadFits, IdleLoader
<1> QED
    BY <1>1, IdleType, OneLoadFits

---------------------------------------------------------------------------
(* Each step of a load keeps the claims.                                   *)

\* CheckCompleted keeps the claims.
LEMMA CheckCompletedClaims ==
    ASSUME TypeInv, Claims, NEW p \in Loaders, NEW path \in {"record", "batch"},
           NEW again \in Flags, CheckCompleted(p, path, again)
    PROVE  Claims'
<1> DEFINE l == [IdleLoader EXCEPT !.pc = "checked", !.path = path]
<1>1. l \in Loader /\ ~Live(l) /\ l.done = 0
    BY DEF IdleLoader, Loader, Live, NoBatch
<1>2. loader' = [loader EXCEPT ![p] = l] /\ UNCHANGED <<batch, held, replay>>
    BY DEF CheckCompleted
<1> HIDE DEF l
<1>3. RoomKept
    BY <1>2, SameRoom DEF Claims
<1>4. LoadFits(held', replay', l)
    BY <1>1 DEF LoadFits
<1>5. LoadsClaim'
    BY <1>1, <1>2, <1>3, <1>4, OneLoadFits DEF Claims
<1>6. BatchesClaim'
    BY <1>2, <1>3, SameClaims DEF Claims, Batches
<1> QED
    BY <1>5, <1>6 DEF Claims

\* CheckInFlight keeps the claims.
LEMMA CheckInFlightClaims ==
    ASSUME TypeInv, Claims, NEW p \in Loaders, CheckInFlight(p)
    PROVE  Claims'
<1> DEFINE clear == [loader[p] EXCEPT !.pc = "clear"]
<1>1. UNCHANGED <<batch, held, replay>>
    BY DEF CheckInFlight
<1>2. RoomKept
    BY <1>1, SameRoom DEF Claims
<1>3. LoadsClaim'
    <2>1. CASE Has("running")
        <3>1. loader' = [loader EXCEPT ![p] = IdleLoader]
            BY <2>1 DEF CheckInFlight
        <3> QED
            BY <1>2, <3>1, RestingLoadFits DEF Claims
    <2>2. CASE ~Has("running")
        <3>1. loader' = [loader EXCEPT ![p] = clear]
            BY <2>2 DEF CheckInFlight, TypeInv, LoadersOK
        <3>2. loader[p] \in Loader /\ loader[p].pc = "checked"
            BY LoadState DEF CheckInFlight
        <3>3. clear \in Loader
            BY <3>2, LoaderMoves
        <3>4. clear.pc = "clear" /\ clear.done = loader[p].done
            BY <3>2 DEF Loader
        <3> HIDE DEF clear
        <3>5. LoadFits(held', replay', clear)
            BY <3>2, <3>4 DEF LoadFits, Live, Claims, LoadsClaim
        <3> QED
            BY <1>2, <3>1, <3>3, <3>5, OneLoadFits DEF Claims
    <2> QED
        BY <2>1, <2>2
<1>4. BatchesClaim'
    BY <1>1, <1>2, SameClaims DEF Claims, Batches
<1> QED
    BY <1>3, <1>4 DEF Claims

\* No replay has a row of a batch that does not exist yet.
LEMMA NewBatchFits ==
    ASSUME TypeInv, NEW b \in Nat, b \notin Batches, NEW h \in [Rows -> Nat]
    PROVE  /\ MarkingIn(replay, b) = {} /\ IsFiniteSet(MarkingIn(replay, b))
           /\ 0 + Cardinality(MarkingIn(replay, b)) <= Total(h)
<1>1. MarkingIn(replay, b) = {}
    BY ReplayState DEF MarkingIn
<1>2. IsFiniteSet({}) /\ Cardinality({}) = 0
    BY FS_EmptySet
<1>3. Total(h) \in Nat
    BY FoldIsNumber DEF Total
<1> QED
    BY <1>1, <1>2, <1>3

\* CreateBatch keeps the claims.
LEMMA CreateBatchClaims ==
    ASSUME TypeInv, Claims, NEW p \in Loaders, CreateBatch(p)
    PROVE  Claims'
<1> DEFINE b == Len(batch) + 1
           l == [loader[p] EXCEPT !.pc = "loading", !.batch = b]
<1>1. /\ TypeInv' /\ Len(batch') = b
      /\ \A c \in Batches : batch'[c] = batch[c] /\ held'[c] = held[c]
      /\ batch'[b] = NewBatch
      /\ loader' = [loader EXCEPT ![p] = [@ EXCEPT !.pc = "loading", !.batch = b]]
    BY CreateBatchType
<1>2. loader' = [loader EXCEPT ![p] = l] /\ UNCHANGED replay
    BY <1>1 DEF TypeInv, LoadersOK, CreateBatch
<1>3. Len(batch) \in Nat /\ loader[p] \in Loader /\ loader[p].pc = "clear"
    BY LoadState DEF CreateBatch
<1>4. l \in Loader
    <2>1. \A c \in Nat : [loader[p] EXCEPT !.pc = "loading", !.batch = c] \in Loader
        BY <1>3, LoaderMoves
    <2>2. b \in Nat
        BY <1>3
    <2> HIDE DEF b
    <2> QED
        BY <2>1, <2>2
<1>5. l.batch = b /\ l.pc = "loading" /\ l.done = loader[p].done
    BY <1>3 DEF Loader
<1>6. loader[p].done = 0
    BY <1>3 DEF Claims, LoadsClaim, LoadFits
<1> HIDE DEF l
<1>7. b \in Nat /\ b \notin Batches /\ Batches' = Batches \cup {b}
    BY <1>1, <1>3 DEF Batches
<1>8. held'[b] \in [Rows -> Nat]
    BY <1>1, <1>7 DEF TypeInv, Tables, Batches
<1> HIDE DEF b
<1>9. IsFiniteSet(MarkingIn(replay', b)) /\ Fits(held', replay', b, 0)
    BY <1>2, <1>7, <1>8, NewBatchFits DEF Fits
<1>10. RoomKept
    BY <1>1, <1>2 DEF RoomKept, Claims, BatchesClaim, Fits
<1>11. LoadsClaim'
    <2>1. LoadFits(held', replay', l)
        BY <1>5, <1>6, <1>9 DEF LoadFits
    <2> QED
        BY <1>2, <1>4, <1>10, <2>1, OneLoadFits DEF Claims
<1>12. BatchesClaim'
    <2>1. ASSUME NEW c \in Batches
          PROVE  IsFiniteSet(MarkingIn(replay', c)) /\ Fits(held', replay', c, batch'[c].ingested)
        BY <1>1, <1>2, <2>1 DEF Claims, BatchesClaim, Fits
    <2>2. batch'[b].ingested = 0
        BY <1>1 DEF NewBatch
    <2>3. Fits(held', replay', b, batch'[b].ingested)
        BY <1>9, <2>2
    <2> QED
        BY <1>7, <1>9, <2>1, <2>3 DEF BatchesClaim
<1> QED
    BY <1>11, <1>12 DEF Claims

\* StoreRow keeps the claims.
LEMMA StoreRowClaims ==
    ASSUME TypeInv, Claims, NEW p \in Loaders, StoreRow(p)
    PROVE  Claims'
<1> DEFINE n == NextRow(p)
           b == loader[p].batch
           l == [loader[p] EXCEPT !.read = @ + 1, !.done = @ + 1]
<1>1. /\ loader[p] \in Loader /\ b \in Batches /\ loader[p].pc = "loading"
      /\ n \in Rows /\ loader[p].done \in Nat
    BY LoadState DEF StoreRow, Loading, Live, Loader
<1>2. held' = [held EXCEPT ![b][n] = @ + 1] /\ UNCHANGED <<batch, error, replay>>
    BY DEF StoreRow
<1>3. loader' = [loader EXCEPT ![p] = l]
    BY <1>1 DEF StoreRow, TypeInv, LoadersOK
<1>4. l \in Loader
    BY <1>1, LoaderReads
<1>5. l.pc = "loading" /\ l.batch = b /\ l.done = loader[p].done + 1
    BY <1>1 DEF Loader
<1> HIDE DEF n, l
<1>6. /\ held' \in Seq([Rows -> Nat]) /\ Len(held') = Len(held)
      /\ \A c \in Batches, k \in Rows :
            held'[c][k] = IF c = b /\ k = n THEN held[c][k] + 1 ELSE held[c][k]
    BY <1>1, <1>2, HoldRow DEF TypeInv
<1>7. Cardinality({n}) = 1
    BY FS_Singleton
<1>8. \A c \in Batches, k \in Rows :
          held'[c][k] = IF c = b /\ k \in {n} THEN held[c][k] + 1 ELSE held[c][k]
    BY <1>6
<1>9. /\ RoomKept
      /\ \A k \in Nat : Fits(held, replay, b, k) => Fits(held', replay', b, k + Cardinality({n}))
    <2>1. {n} \in SUBSET Rows /\ UNCHANGED <<batch, replay>>
        BY <1>1, <1>2
    <2> QED
        BY <1>1, <1>6, <1>8, <2>1, RowsAdded DEF Claims
<1>10. LoadFits(held', replay', l)
    <2>1. Fits(held, replay, b, loader[p].done)
        BY <1>1 DEF Claims, LoadsClaim, LoadFits, Live
    <2>2. Fits(held', replay', b, loader[p].done + 1)
        BY <1>1, <1>7, <1>9, <2>1
    <2> QED
        BY <1>5, <2>2 DEF LoadFits
<1>11. LoadsClaim'
    BY <1>3, <1>4, <1>9, <1>10, OneLoadFits DEF Claims
<1>12. BatchesClaim'
    BY <1>2, <1>9, SameClaims DEF Claims, Batches
<1> QED
    BY <1>11, <1>12 DEF Claims

\* RecordFailure keeps the claims.
LEMMA RecordFailureClaims ==
    ASSUME TypeInv, Claims, NEW p \in Loaders, RecordFailure(p)
    PROVE  Claims'
<1> DEFINE b == loader[p].batch
           l == [loader[p] EXCEPT !.read = @ + 1, !.failed = @ + 1]
<1>1. loader[p] \in Loader /\ b \in Batches /\ loader[p].pc = "loading" /\ loader[p].done \in Nat
    BY LoadState DEF RecordFailure, Loading, Live, Loader
<1>2. UNCHANGED <<batch, held, replay>>
    BY DEF RecordFailure
<1>3. loader' = [loader EXCEPT ![p] = l]
    BY <1>1 DEF RecordFailure, TypeInv, LoadersOK
<1>4. l \in Loader
    BY <1>1, LoaderReads
<1>5. l.pc = "loading" /\ l.batch = b /\ l.done = loader[p].done
    BY <1>1 DEF Loader
<1> HIDE DEF l
<1>6. RoomKept
    BY <1>2, SameRoom DEF Claims
<1>7. LoadFits(held', replay', l)
    BY <1>1, <1>2, <1>5 DEF Claims, LoadsClaim, LoadFits, Live
<1>8. LoadsClaim'
    BY <1>3, <1>4, <1>6, <1>7, OneLoadFits DEF Claims
<1>9. BatchesClaim'
    BY <1>2, <1>6, SameClaims DEF Claims, Batches
<1> QED
    BY <1>8, <1>9 DEF Claims

\* MarkPublished keeps the claims.
LEMMA MarkPublishedClaims ==
    ASSUME TypeInv, Claims, NEW p \in Loaders, NEW publish \in BOOLEAN, MarkPublished(p, publish)
    PROVE  Claims'
<1> DEFINE b == loader[p].batch
           row == [batch[b] EXCEPT !.published = @ \/ publish]
           l == [loader[p] EXCEPT !.pc = "closing"]
<1>1. loader[p] \in Loader /\ b \in Batches /\ Live(loader[p])
    BY LoadState DEF MarkPublished, Loading, Live
<1>2. batch[b] \in Batch /\ batch[b].published \in BOOLEAN
    BY <1>1, RowsOf, BatchFields DEF TypeInv
<1>3. row \in Batch
    <2>1. (batch[b].published \/ publish) \in BOOLEAN
        BY <1>2
    <2> QED
        BY <1>2, <2>1, BatchFields
<1>4. row.ingested = batch[b].ingested
    BY <1>2 DEF Batch
<1>5. batch' = [batch EXCEPT ![b] = row] /\ UNCHANGED <<held, replay>>
    BY DEF MarkPublished
<1>6. loader' = [loader EXCEPT ![p] = l]
    BY DEF MarkPublished
<1>7. l \in Loader
    BY <1>1, LoaderMoves
<1>8. l.pc = "closing" /\ l.batch = b /\ l.done = loader[p].done
    BY <1>1 DEF Loader
<1> HIDE DEF row, l
<1>9. RoomKept
    BY <1>5, SameRoom DEF Claims
<1>10. LoadFits(held', replay', l)
    BY <1>1, <1>5, <1>8 DEF Claims, LoadsClaim, LoadFits
<1>11. LoadsClaim'
    BY <1>6, <1>7, <1>9, <1>10, OneLoadFits DEF Claims
<1>12. BatchesClaim'
    BY <1>1, <1>3, <1>4, <1>5, <1>9, RowKeepsClaim DEF Claims
<1> QED
    BY <1>11, <1>12 DEF Claims

\* The claim that finish_batch writes.
LEMMA FinishedClaims ==
    ASSUME Tables, NEW b \in Batches, NEW read \in Nat, NEW done \in Nat, NEW failed \in Nat
    PROVE  Finished(b, read, done, failed).ingested = done
<1>1. batch[b] \in Batch
    BY RowsOf
<1> QED
    BY <1>1 DEF Finished, Batch

\* FinishRecords keeps the claims: the batch claims what the load has stored.
LEMMA FinishRecordsClaims ==
    ASSUME TypeInv, Claims, NEW p \in Loaders, FinishRecords(p)
    PROVE  Claims'
<1> DEFINE l == loader[p]
           row == Finished(l.batch, l.read, l.done, l.failed)
<1>1. l.batch \in Batches /\ l.read \in Nat /\ l.done \in Nat /\ l.failed \in Nat /\ Live(l)
    BY LoadState DEF FinishRecords, Live, Loader
<1>2. row \in Batch /\ row.ingested = l.done
    BY <1>1, FinishedType, FinishedClaims DEF TypeInv
<1>3. /\ batch' = [batch EXCEPT ![l.batch] = row]
      /\ loader' = [loader EXCEPT ![p] = IdleLoader]
      /\ UNCHANGED <<held, replay>>
    BY DEF FinishRecords
<1> HIDE DEF row
<1>4. RoomKept
    BY <1>3, SameRoom DEF Claims
<1>5. Fits(held', replay', l.batch, row.ingested)
    BY <1>1, <1>2, <1>3 DEF Claims, LoadsClaim, LoadFits
<1>6. BatchesClaim'
    BY <1>1, <1>2, <1>3, <1>4, <1>5, RowClaims DEF Claims
<1> QED
    BY <1>3, <1>4, <1>6, RestingLoadFits DEF Claims

\* StoreChunk keeps the claims.
LEMMA StoreChunkClaims ==
    ASSUME TypeInv, Claims, NEW p \in Loaders, StoreChunk(p)
    PROVE  Claims'
<1> DEFINE C == Chunk(p)
           k == Cardinality(C)
           l == [loader[p] EXCEPT !.read = @ + k, !.done = @ + k]
           b == loader[p].batch
           counts == [n \in Rows |-> held[b][n] + IF n \in C THEN 1 ELSE 0]
<1>1. /\ loader[p] \in Loader /\ b \in Batches /\ loader[p].pc = "loading"
      /\ loader[p].read \in Nat /\ loader[p].done \in Nat
    BY LoadState DEF StoreChunk, Loading, Live, Loader
<1>2. /\ k \in Nat /\ C = (loader[p].read + 1)..(loader[p].read + k)
      /\ loader[p].read + k <= RowCount
    BY <1>1, ChunkRows DEF StoreChunk
<1>3. C \in SUBSET Rows
    <2>1. PICK x \in Nat, y \in Nat : x = loader[p].read /\ y = k
        BY <1>1, <1>2
    <2>2. C = (x + 1)..(x + y) /\ x + y <= RowCount
        BY <1>2, <2>1
    <2>3. (x + 1)..(x + y) \subseteq Rows
        BY <2>2, RowAssumption DEF Rows
    <2> QED
        BY <2>2, <2>3
<1>4. \A c \in Batches, n \in Rows : held[c][n] \in Nat
    BY RowsOf DEF TypeInv
<1>5. counts \in [Rows -> Nat]
    BY <1>1, <1>4
<1>6. held' = [held EXCEPT ![b] = counts] /\ UNCHANGED <<batch, replay>>
    BY DEF StoreChunk
<1>7. \A n \in Rows : counts[n] = IF n \in C THEN held[b][n] + 1 ELSE held[b][n]
    BY <1>1, <1>4
<1>8. loader' = [loader EXCEPT ![p] = l]
    BY <1>1 DEF StoreChunk, TypeInv, LoadersOK
<1>9. l \in Loader
    BY <1>1, <1>2, LoaderReads
<1>10. l.pc = "loading" /\ l.batch = b /\ l.done = loader[p].done + k
    BY <1>1 DEF Loader
<1> HIDE DEF l, counts
<1>11. /\ held' \in Seq([Rows -> Nat]) /\ Len(held') = Len(held)
       /\ \A c \in Batches : held'[c] = IF c = b THEN counts ELSE held[c]
    BY <1>1, <1>5, <1>6, SetHeld DEF TypeInv
<1>12. \A c \in Batches, n \in Rows :
           held'[c][n] = IF c = b /\ n \in C THEN held[c][n] + 1 ELSE held[c][n]
    BY <1>7, <1>11
<1> HIDE DEF C
<1>13. /\ RoomKept
       /\ \A i \in Nat : Fits(held, replay, b, i) => Fits(held', replay', b, i + k)
    BY <1>1, <1>3, <1>6, <1>11, <1>12, RowsAdded DEF Claims
<1> HIDE DEF k
<1>14. LoadFits(held', replay', l)
    <2>1. Fits(held, replay, b, loader[p].done)
        BY <1>1 DEF Claims, LoadsClaim, LoadFits, Live
    <2>2. Fits(held', replay', b, loader[p].done + k)
        BY <1>1, <1>13, <2>1
    <2> QED
        BY <1>10, <2>2 DEF LoadFits
<1>15. LoadsClaim'
    BY <1>8, <1>9, <1>13, <1>14, OneLoadFits DEF Claims
<1>16. BatchesClaim'
    BY <1>6, <1>13, SameClaims DEF Claims, Batches
<1> QED
    BY <1>15, <1>16 DEF Claims

\* FailLoad keeps the claims.
LEMMA FailLoadClaims ==
    ASSUME TypeInv, Claims, NEW p \in Loaders, FailLoad(p)
    PROVE  Claims'
<1> DEFINE b == loader[p].batch
           row == [batch[b] EXCEPT !.status = "failed"]
<1>1. b \in Batches /\ batch[b] \in Batch
    BY LoadState, RowsOf DEF FailLoad, Loading, Live, TypeInv
<1>2. row \in Batch
    BY <1>1, BatchFields
<1>3. row.ingested = batch[b].ingested
    BY <1>1 DEF Batch
<1>4. /\ batch' = [batch EXCEPT ![b] = row]
      /\ loader' = [loader EXCEPT ![p] = IdleLoader]
      /\ UNCHANGED <<held, replay>>
    BY DEF FailLoad
<1> HIDE DEF row
<1>5. RoomKept
    BY <1>4, SameRoom DEF Claims
<1>6. BatchesClaim'
    BY <1>1, <1>2, <1>3, <1>4, <1>5, RowKeepsClaim DEF Claims
<1> QED
    BY <1>4, <1>5, <1>6, RestingLoadFits DEF Claims

\* FinishIngest keeps the claims: the batch claims what its chunks have stored.
LEMMA FinishIngestClaims ==
    ASSUME TypeInv, Claims, NEW p \in Loaders, FinishIngest(p)
    PROVE  Claims'
<1> DEFINE b == loader[p].batch
           row == Finished(b, loader[p].read, loader[p].done, 0)
           l == [loader[p] EXCEPT !.pc = "publishing"]
<1>1. /\ loader[p] \in Loader /\ Live(loader[p]) /\ b \in Batches
      /\ loader[p].read \in Nat /\ loader[p].done \in Nat
    BY LoadState DEF FinishIngest, Loading, Live, Loader
<1>2. row \in Batch /\ row.ingested = loader[p].done
    BY <1>1, FinishedType, FinishedClaims DEF TypeInv
<1>3. batch' = [batch EXCEPT ![b] = row] /\ UNCHANGED <<held, replay>>
    BY DEF FinishIngest
<1>4. loader' = [loader EXCEPT ![p] = l]
    BY DEF FinishIngest
<1>5. l \in Loader
    BY <1>1, LoaderMoves
<1>6. l.pc = "publishing" /\ l.batch = b /\ l.done = loader[p].done
    BY <1>1 DEF Loader
<1> HIDE DEF row, l
<1>7. RoomKept
    BY <1>3, SameRoom DEF Claims
<1>8. Fits(held', replay', b, loader[p].done)
    BY <1>1, <1>3 DEF Claims, LoadsClaim, LoadFits
<1>9. LoadFits(held', replay', l)
    BY <1>6, <1>8 DEF LoadFits
<1>10. LoadsClaim'
    BY <1>4, <1>5, <1>7, <1>9, OneLoadFits DEF Claims
<1>11. BatchesClaim'
    <2>1. Fits(held', replay', b, row.ingested)
        BY <1>2, <1>8
    <2> QED
        BY <1>1, <1>2, <1>3, <1>7, <2>1, RowClaims DEF Claims
<1> QED
    BY <1>10, <1>11 DEF Claims

\* PublishIngest keeps the claims.
LEMMA PublishIngestClaims ==
    ASSUME TypeInv, Claims, NEW p \in Loaders, NEW delivered \in BOOLEAN,
           PublishIngest(p, delivered)
    PROVE  Claims'
<1> DEFINE b == loader[p].batch
           row == [batch[b] EXCEPT !.published = @ \/ delivered]
<1>1. b \in Batches
    BY LoadState DEF PublishIngest, Live
<1>2. batch[b] \in Batch /\ batch[b].published \in BOOLEAN
    BY <1>1, RowsOf, BatchFields DEF TypeInv
<1>3. row \in Batch
    <2>1. (batch[b].published \/ delivered) \in BOOLEAN
        BY <1>2
    <2> QED
        BY <1>2, <2>1, BatchFields
<1>4. row.ingested = batch[b].ingested
    BY <1>2 DEF Batch
<1>5. /\ batch' = [batch EXCEPT ![b] = row]
      /\ loader' = [loader EXCEPT ![p] = IdleLoader]
      /\ UNCHANGED <<held, replay>>
    BY DEF PublishIngest
<1> HIDE DEF row
<1>6. RoomKept
    BY <1>5, SameRoom DEF Claims
<1>7. BatchesClaim'
    BY <1>1, <1>3, <1>4, <1>5, <1>6, RowKeepsClaim DEF Claims
<1> QED
    BY <1>5, <1>6, <1>7, RestingLoadFits DEF Claims

\* Die keeps the claims.
LEMMA DieClaims ==
    ASSUME TypeInv, Claims, NEW p \in Loaders, Die(p)
    PROVE  Claims'
<1>1. RoomKept
    BY SameRoom DEF Die, Claims
<1>2. BatchesClaim'
    BY <1>1, SameClaims DEF Die, Claims, Batches
<1> QED
    BY <1>1, <1>2, RestingLoadFits DEF Die, Claims

---------------------------------------------------------------------------
(* So does each step of an operator and of a replay.                       *)

\* FindRunning keeps the claims.
LEMMA FindRunningClaims ==
    ASSUME TypeInv, Claims, NEW o \in Operators, NEW b \in Batches, FindRunning(o, b)
    PROVE  Claims'
<1>1. RoomKept
    BY SameRoom DEF FindRunning, Claims
<1>2. BatchesClaim'
    BY <1>1, SameClaims DEF FindRunning, Claims, Batches
<1> QED
    BY <1>1, <1>2, LoadsStillFit DEF FindRunning, Claims

\* Abandon keeps the claims.
LEMMA AbandonClaims ==
    ASSUME TypeInv, Claims, NEW o \in Operators, Abandon(o)
    PROVE  Claims'
<1> DEFINE b == desk[o]
           row == [batch[b] EXCEPT !.status = "failed"]
<1>1. b \in Batches
    BY DEF Abandon, TypeInv, DesksOK, Tables, Batches, NoBatch
<1>2. batch[b] \in Batch
    BY <1>1, RowsOf DEF TypeInv
<1>3. row \in Batch
    BY <1>2, BatchFields
<1>4. row.ingested = batch[b].ingested
    BY <1>2 DEF Batch
<1>5. batch' = [batch EXCEPT ![b] = row] /\ UNCHANGED <<held, loader, replay>>
    BY DEF Abandon
<1> HIDE DEF row
<1>6. RoomKept
    BY <1>5, SameRoom DEF Claims
<1>7. BatchesClaim'
    BY <1>1, <1>3, <1>4, <1>5, <1>6, RowKeepsClaim DEF Claims
<1> QED
    BY <1>5, <1>6, <1>7, LoadsStillFit DEF Claims

\* StartReplay keeps the claims.
LEMMA StartReplayClaims ==
    ASSUME TypeInv, Claims, NEW q \in Replayers, StartReplay(q)
    PROVE  Claims'
<1> DEFINE r == [pc |-> "next", todo |-> OpenErrors]
<1>1. replay' = [replay EXCEPT ![q] = r] /\ UNCHANGED <<batch, held, loader>>
    BY DEF StartReplay
<1>2. r.pc # "marking"
    OBVIOUS
<1> HIDE DEF r
<1>3. RoomKept
    BY <1>1, <1>2, ReplayLeavesRoom DEF Claims
<1>4. BatchesClaim'
    BY <1>1, <1>3, SameClaims DEF Claims, Batches
<1> QED
    BY <1>1, <1>3, <1>4, LoadsStillFit DEF Claims

\* ReplayRow keeps the claims: the row it stores makes room for the count it owes.
LEMMA ReplayRowClaims ==
    ASSUME TypeInv, Claims, NEW q \in Replayers, ReplayRow(q)
    PROVE  Claims'
<1> DEFINE x == First(replay[q].todo)
           r == [replay[q] EXCEPT !.pc = "marking"]
<1>1. x[1] \in Batches /\ x[2] \in Rows /\ replay[q].pc = "next"
    BY ReplayState DEF ReplayRow
<1>2. held' = [held EXCEPT ![x[1]][x[2]] = @ + 1] /\ UNCHANGED <<batch, loader>>
    BY DEF ReplayRow
<1>3. replay' = [replay EXCEPT ![q] = r]
    BY DEF ReplayRow
<1>4. First(r.todo) = x /\ r.pc = "marking"
    <2>1. replay[q] \in Replay
        BY DEF TypeInv, ReplaysOK
    <2>2. r.todo = replay[q].todo /\ r.pc = "marking"
        BY <2>1 DEF Replay
    <2> QED
        BY <2>2
<1>5. PICK b, n : b = x[1] /\ n = x[2]
    OBVIOUS
<1> HIDE DEF x, r
<1>6. b \in Batches /\ n \in Rows /\ held' = [held EXCEPT ![b][n] = @ + 1]
    BY <1>1, <1>2, <1>5
<1>7. /\ held' \in Seq([Rows -> Nat]) /\ Len(held') = Len(held)
      /\ \A c \in Batches, k \in Rows :
            held'[c][k] = IF c = b /\ k = n THEN held[c][k] + 1 ELSE held[c][k]
    BY <1>6, HoldRow DEF TypeInv
<1>8. \A y \in Replayers : replay'[y] = IF y = q THEN r ELSE replay[y]
    BY <1>3 DEF TypeInv, ReplaysOK
<1>9. \A c \in Batches : c # b => MarkingIn(replay', c) = MarkingIn(replay, c)
    BY <1>1, <1>4, <1>5, <1>8 DEF MarkingIn
<1>10. MarkingIn(replay', b) = MarkingIn(replay, b) \cup {q} /\ q \notin MarkingIn(replay, b)
    BY <1>1, <1>4, <1>5, <1>8 DEF MarkingIn
<1>11. \A c \in Batches : held[c] \in [Rows -> Nat] /\ held'[c] \in [Rows -> Nat]
    BY <1>7, RowsOf DEF TypeInv, Tables, Batches
<1>12. \A c \in Batches : c # b => held'[c] = held[c]
    BY <1>7, <1>11
<1>13. Total(held'[b]) = Total(held[b]) + 1
    <2>1. PICK h, g : h = held[b] /\ g = held'[b]
        OBVIOUS
    <2>2. h \in [Rows -> Nat] /\ g \in [Rows -> Nat] /\ {n} \in SUBSET Rows
        BY <1>6, <1>11, <2>1
    <2>3. OneMore(g, h, {n})
        BY <1>6, <1>7, <2>1, <2>2 DEF OneMore
    <2>4. Cardinality({n}) = 1
        BY FS_Singleton
    <2> QED
        BY <2>1, <2>2, <2>3, <2>4, TotalAdds
<1>14. RoomKept
    <2>1. ASSUME NEW c \in Batches, c # b
          PROVE  /\ IsFiniteSet(MarkingIn(replay', c))
                 /\ \A k \in Nat : Fits(held, replay, c, k) => Fits(held', replay', c, k)
        BY <1>9, <1>12, <2>1 DEF Claims, BatchesClaim, Fits
    <2>2. PICK m, w : m = MarkingIn(replay, b) /\ w = MarkingIn(replay', b)
        OBVIOUS
    <2>3. IsFiniteSet(m) /\ w = m \cup {q} /\ q \notin m
        BY <1>6, <1>10, <2>2 DEF Claims, BatchesClaim
    <2>4. IsFiniteSet(w) /\ Cardinality(w) = Cardinality(m) + 1
        BY <2>3, FS_AddElement
    <2>5. PICK t \in Nat, i \in Nat : t = Total(held[b]) /\ i = Cardinality(m)
        BY <1>6, <2>2, RoomOf DEF Claims
    <2>6. ASSUME NEW k \in Nat, Fits(held, replay, b, k)
          PROVE  Fits(held', replay', b, k)
        <3>1. k + i <= t
            BY <2>2, <2>5, <2>6 DEF Fits
        <3>2. k + (i + 1) <= t + 1
            BY <3>1
        <3>3. Total(held'[b]) = t + 1 /\ Cardinality(w) = i + 1
            BY <1>13, <2>4, <2>5
        <3> QED
            BY <2>2, <3>2, <3>3 DEF Fits
    <2> QED
        BY <2>1, <2>2, <2>4, <2>6 DEF RoomKept
<1>15. BatchesClaim'
    BY <1>2, <1>14, SameClaims DEF Claims, Batches
<1> QED
    BY <1>2, <1>14, <1>15, LoadsStillFit DEF Claims

\* MarkReprocessed keeps the claims: it counts the one row that it owed.
LEMMA MarkReprocessedClaims ==
    ASSUME TypeInv, Claims, NEW q \in Replayers, MarkReprocessed(q)
    PROVE  Claims'
<1> DEFINE x == First(replay[q].todo)
           b == x[1]
           row == [batch[b] EXCEPT !.ingested = @ + 1, !.skipped = IF @ = 0 THEN 0 ELSE @ - 1]
           r == After(q, x)
<1>1. b \in Batches /\ r.pc # "marking" /\ replay[q].pc = "marking"
    BY ReplayState DEF MarkReprocessed
<1>2. batch[b] \in Batch
    BY <1>1, RowsOf DEF TypeInv
<1>3. row \in Batch
    <2>1. batch[b].ingested + 1 \in Nat /\ (IF batch[b].skipped = 0 THEN 0 ELSE batch[b].skipped - 1) \in Nat
        BY <1>2 DEF Batch
    <2> QED
        BY <1>2, <2>1, BatchFields
<1>4. row.ingested = batch[b].ingested + 1 /\ batch[b].ingested \in Nat
    BY <1>2 DEF Batch
<1>5. /\ batch' = [batch EXCEPT ![b] = row] /\ replay' = [replay EXCEPT ![q] = r]
      /\ UNCHANGED <<held, loader>>
    BY DEF MarkReprocessed
<1>6. q \in MarkingIn(replay, b)
    BY <1>1 DEF MarkingIn
<1> HIDE DEF row, r, b
<1>7. RoomKept
    BY <1>1, <1>5, ReplayLeavesRoom DEF Claims
<1>8. MarkingIn(replay', b) = MarkingIn(replay, b) \ {q}
    BY <1>1, <1>5, ReplayMovesOn DEF Claims
<1>9. Fits(held', replay', b, row.ingested)
    <2>1. PICK m, w : m = MarkingIn(replay, b) /\ w = MarkingIn(replay', b)
        OBVIOUS
    <2>2. IsFiniteSet(m) /\ w = m \ {q} /\ q \in m
        BY <1>1, <1>6, <1>8, <2>1 DEF Claims, BatchesClaim
    <2>3. Cardinality(w) = Cardinality(m) - 1
        BY <2>2, FS_RemoveElement
    <2>4. PICK t \in Nat, i \in Nat : t = Total(held[b]) /\ i = Cardinality(m)
        BY <1>1, <2>1, RoomOf DEF Claims
    <2>5. PICK k \in Nat : k = batch[b].ingested
        BY <1>4
    <2>6. k + i <= t
        BY <1>1, <2>1, <2>4, <2>5 DEF Claims, BatchesClaim, Fits
    <2>7. (k + 1) + (i - 1) <= t
        BY <2>6
    <2>8. row.ingested = k + 1 /\ Cardinality(w) = i - 1 /\ Total(held'[b]) = t
        BY <1>4, <1>5, <2>3, <2>4, <2>5
    <2> QED
        BY <2>1, <2>7, <2>8 DEF Fits
<1>10. BatchesClaim'
    BY <1>1, <1>3, <1>5, <1>7, <1>9, RowClaims DEF Claims
<1> QED
    BY <1>5, <1>7, <1>10, LoadsStillFit DEF Claims

\* ReplayFailure keeps the claims.
LEMMA ReplayFailureClaims ==
    ASSUME TypeInv, Claims, NEW q \in Replayers, ReplayFailure(q)
    PROVE  Claims'
<1> DEFINE r == After(q, First(replay[q].todo))
<1>1. r.pc # "marking"
    BY ReplayState DEF ReplayFailure
<1>2. replay' = [replay EXCEPT ![q] = r] /\ UNCHANGED <<batch, held, loader>>
    BY DEF ReplayFailure
<1> HIDE DEF r
<1>3. RoomKept
    BY <1>1, <1>2, ReplayLeavesRoom DEF Claims
<1>4. BatchesClaim'
    BY <1>2, <1>3, SameClaims DEF Claims, Batches
<1> QED
    BY <1>2, <1>3, <1>4, LoadsStillFit DEF Claims

\* ReplayDies keeps the claims: the row it has stored is never counted.
LEMMA ReplayDiesClaims ==
    ASSUME TypeInv, Claims, NEW q \in Replayers, ReplayDies(q)
    PROVE  Claims'
<1>1. IdleReplay.pc # "marking"
    BY IdleType
<1>2. RoomKept
    BY <1>1, ReplayLeavesRoom DEF ReplayDies, Claims
<1>3. BatchesClaim'
    BY <1>2, SameClaims DEF ReplayDies, Claims, Batches
<1> QED
    BY <1>2, <1>3, LoadsStillFit DEF ReplayDies, Claims

---------------------------------------------------------------------------
\* Nothing is claimed at first, and no step claims more than is held.
LEMMA InitClaims == Init => Claims
<1> SUFFICES ASSUME Init PROVE Claims
    OBVIOUS
<1>1. BatchesClaim
    BY DEF Init, BatchesClaim, Batches
<1>2. LoadsClaim
    BY IdleType DEF Init, LoadsClaim, LoadFits, IdleLoader
<1> QED
    BY <1>1, <1>2 DEF Claims

LEMMA LoadClaims ==
    ASSUME TypeInv, Claims, NEW p \in Loaders, Load(p)
    PROVE  Claims'
<1>1. ASSUME NEW path \in {"record", "batch"}, NEW again \in Flags, CheckCompleted(p, path, again)
      PROVE  Claims'
    BY <1>1, CheckCompletedClaims
<1>2. CASE CheckInFlight(p)
    BY <1>2, CheckInFlightClaims
<1>3. CASE CreateBatch(p)
    BY <1>3, CreateBatchClaims
<1>4. CASE StoreRow(p)
    BY <1>4, StoreRowClaims
<1>5. CASE RecordFailure(p)
    BY <1>5, RecordFailureClaims
<1>6. CASE FinishRecords(p)
    BY <1>6, FinishRecordsClaims
<1>7. ASSUME NEW publish \in BOOLEAN, MarkPublished(p, publish)
      PROVE  Claims'
    BY <1>7, MarkPublishedClaims
<1>8. CASE StoreChunk(p)
    BY <1>8, StoreChunkClaims
<1>9. CASE FailLoad(p)
    BY <1>9, FailLoadClaims
<1>10. CASE FinishIngest(p)
    BY <1>10, FinishIngestClaims
<1>11. ASSUME NEW delivered \in BOOLEAN, PublishIngest(p, delivered)
       PROVE  Claims'
    BY <1>11, PublishIngestClaims
<1>12. CASE Die(p)
    BY <1>12, DieClaims
<1> QED
    BY <1>1, <1>2, <1>3, <1>4, <1>5, <1>6, <1>7, <1>8, <1>9, <1>10, <1>11, <1>12 DEF Load

LEMMA NextClaims == TypeInv /\ Claims /\ [Next]_vars => Claims'
<1> SUFFICES ASSUME TypeInv, Claims, [Next]_vars PROVE Claims'
    OBVIOUS
<1>1. ASSUME NEW p \in Loaders, Load(p)
      PROVE  Claims'
    BY <1>1, LoadClaims
<1>2. ASSUME NEW o \in Operators, Operate(o)
      PROVE  Claims'
    BY <1>2, AbandonClaims, FindRunningClaims DEF Operate
<1>3. ASSUME NEW q \in Replayers, Reprocess(q)
      PROVE  Claims'
    BY <1>3, StartReplayClaims, ReplayRowClaims, MarkReprocessedClaims,
       ReplayFailureClaims, ReplayDiesClaims DEF Reprocess
<1>4. CASE UNCHANGED vars
    <2>1. RoomKept
        BY <1>4, SameRoom DEF vars, Claims
    <2>2. BatchesClaim'
        BY <1>4, <2>1, SameClaims DEF vars, Claims, Batches
    <2> QED
        BY <1>4, <2>1, <2>2, LoadsStillFit DEF vars, Claims
<1> QED
    BY <1>1, <1>2, <1>3, <1>4 DEF Next

\* However many loads and replays run at once, and wherever they die, a batch that
\* says completed holds at least the rows it claims: a replay stores a row before it
\* counts it, and counts it in the batch that holds it.
THEOREM ClaimsAreHeld == Spec => []ClaimsOnlyWhatItHolds
<1>1. Spec => [](TypeInv /\ Claims)
    BY InitTypeInv, NextTypeInv, InitClaims, NextClaims, PTL DEF Spec
<1>2. TypeInv /\ Claims => ClaimsOnlyWhatItHolds
    <2> SUFFICES ASSUME TypeInv, Claims, NEW b \in Batches
                 PROVE  batch[b].ingested <= HeldRows(b)
        BY DEF ClaimsOnlyWhatItHolds
    <2>1. PICK t \in Nat, i \in Nat :
              t = Total(held[b]) /\ i = Cardinality(MarkingIn(replay, b))
        BY RoomOf DEF Claims
    <2>2. PICK k \in Nat : k = batch[b].ingested
        BY RowsOf DEF TypeInv, Batch
    <2>3. k + i <= t
        BY <2>1, <2>2 DEF Claims, BatchesClaim, Fits
    <2>4. HeldRows(b) = t
        BY <2>1, HeldIsFold DEF Total
    <2>5. k <= t
        BY <2>3
    <2> QED
        BY <2>2, <2>4, <2>5
<1> QED
    BY <1>1, <1>2, PTL

---------------------------------------------------------------------------
(* One command at a time.  Whoever acts finds everybody else at rest, so   *)
(* the invariant says what the one command at work may rely on: a load in  *)
(* progress has the only running batch and has counted its rows, a replay  *)
(* has only open errors before it, and an operator has found a running     *)
(* batch.                                                                  *)

OpenIn(errors) == {n \in Rows : errors[n] = "open"}
NoneWith(rows, status) == \A b \in 1..Len(rows) : rows[b].status # status

\* The counters of a batch row agree with its errors.
Accurate(row, errors) ==
    /\ row.skipped = Cardinality(OpenIn(errors))
    /\ row.ingested + row.skipped = row.read

InProgress(rows, errors, l) ==
    /\ rows[l.batch].status = "running"
    /\ l.done + l.failed = l.read
    /\ l.failed = Cardinality(OpenIn(errors[l.batch]))
    /\ \A n \in Rows : n > l.read => errors[l.batch][n] = "none"
    /\ l.path = "batch" => l.failed = 0

LoadInOrder(rows, errors, l) ==
    /\ l.pc \in {"loading", "closing"} => InProgress(rows, errors, l)
    /\ l.pc \in {"checked", "clear"} => l.read = 0 /\ l.done = 0 /\ l.failed = 0
    /\ l.pc \in {"checked", "clear"} /\ TRUE \notin Flags => NoneWith(rows, "completed")
    /\ l.pc = "clear" => NoneWith(rows, "running")

ReplayInOrder(errors, r) == r.pc # "idle" => \A x \in r.todo : errors[x[1]][x[2]] = "open"
DeskInOrder(rows, b) == b # NoBatch => rows[b].status = "running"

Order ==
    /\ OneAtATime
    /\ \A p \in Loaders : LoadInOrder(batch, error, loader[p])
    /\ \A q \in Replayers : ReplayInOrder(error, replay[q])
    /\ \A o \in Operators : DeskInOrder(batch, desk[o])
    /\ FileLoadedOnce /\ SkippedAreOpen

\* Everybody but a is at rest.
OthersRest(l, r, d, a) ==
    /\ \A p \in Loaders \ {a} : l[p].pc = "idle"
    /\ \A q \in Replayers \ {a} : r[q].pc = "idle"
    /\ \A o \in Operators \ {a} : d[o] = NoBatch

Working(l, r, d) == {p \in Loaders : l[p].pc # "idle"} \cup {q \in Replayers : r[q].pc # "idle"}
                        \cup {o \in Operators : d[o] # NoBatch}

LEMMA OneWorks ==
    ASSUME NEW l, NEW r, NEW d, NEW a \in Working(l, r, d),
           \A x, y \in Working(l, r, d) : x = y
    PROVE  OthersRest(l, r, d, a)
BY DEF Working, OthersRest

\* While a command works, everybody else is at rest, before its step and after it.
LEMMA LoadWorksAlone ==
    ASSUME TypeInv, OneAtATime, OneAtATime', NEW p \in Loaders,
           NEW l, loader' = [loader EXCEPT ![p] = l], UNCHANGED <<replay, desk>>,
           loader[p].pc # "idle" \/ l.pc # "idle"
    PROVE  OthersRest(loader, replay, desk, p) /\ OthersRest(loader', replay', desk', p)
<1>1. \A x \in Loaders : loader'[x] = IF x = p THEN l ELSE loader[x]
    BY DEF TypeInv, LoadersOK
<1>2. CASE loader[p].pc # "idle"
    <2>1. p \in Working(loader, replay, desk)
        BY <1>2 DEF Working
    <2>2. \A x, y \in Working(loader, replay, desk) : x = y
        BY DEF OneAtATime, Busy, Working
    <2>3. OthersRest(loader, replay, desk, p)
        BY <2>1, <2>2, OneWorks
    <2> QED
        BY <1>1, <2>3 DEF OthersRest
<1>3. CASE l.pc # "idle"
    <2>1. p \in Working(loader', replay', desk')
        BY <1>1, <1>3 DEF Working
    <2>2. \A x, y \in Working(loader', replay', desk') : x = y
        BY DEF OneAtATime, Busy, Working
    <2>3. OthersRest(loader', replay', desk', p)
        BY <2>1, <2>2, OneWorks
    <2> QED
        BY <1>1, <2>3 DEF OthersRest
<1> QED
    BY <1>2, <1>3

LEMMA ReplayWorksAlone ==
    ASSUME TypeInv, OneAtATime, OneAtATime', NEW q \in Replayers,
           NEW r, replay' = [replay EXCEPT ![q] = r], UNCHANGED <<loader, desk>>,
           replay[q].pc # "idle" \/ r.pc # "idle"
    PROVE  OthersRest(loader, replay, desk, q) /\ OthersRest(loader', replay', desk', q)
<1>1. \A x \in Replayers : replay'[x] = IF x = q THEN r ELSE replay[x]
    BY DEF TypeInv, ReplaysOK
<1>2. CASE replay[q].pc # "idle"
    <2>1. q \in Working(loader, replay, desk)
        BY <1>2 DEF Working
    <2>2. \A x, y \in Working(loader, replay, desk) : x = y
        BY DEF OneAtATime, Busy, Working
    <2>3. OthersRest(loader, replay, desk, q)
        BY <2>1, <2>2, OneWorks
    <2> QED
        BY <1>1, <2>3 DEF OthersRest
<1>3. CASE r.pc # "idle"
    <2>1. q \in Working(loader', replay', desk')
        BY <1>1, <1>3 DEF Working
    <2>2. \A x, y \in Working(loader', replay', desk') : x = y
        BY DEF OneAtATime, Busy, Working
    <2>3. OthersRest(loader', replay', desk', q)
        BY <2>1, <2>2, OneWorks
    <2> QED
        BY <1>1, <2>3 DEF OthersRest
<1> QED
    BY <1>2, <1>3

LEMMA OperatorWorksAlone ==
    ASSUME TypeInv, OneAtATime, OneAtATime', NEW o \in Operators,
           NEW b, desk' = [desk EXCEPT ![o] = b], UNCHANGED <<loader, replay>>,
           desk[o] # NoBatch \/ b # NoBatch
    PROVE  OthersRest(loader, replay, desk, o) /\ OthersRest(loader', replay', desk', o)
<1>1. \A x \in Operators : desk'[x] = IF x = o THEN b ELSE desk[x]
    BY DEF TypeInv, DesksOK
<1>2. CASE desk[o] # NoBatch
    <2>1. o \in Working(loader, replay, desk)
        BY <1>2 DEF Working
    <2>2. \A x, y \in Working(loader, replay, desk) : x = y
        BY DEF OneAtATime, Busy, Working
    <2>3. OthersRest(loader, replay, desk, o)
        BY <2>1, <2>2, OneWorks
    <2> QED
        BY <1>1, <2>3 DEF OthersRest
<1>3. CASE b # NoBatch
    <2>1. o \in Working(loader', replay', desk')
        BY <1>1, <1>3 DEF Working
    <2>2. \A x, y \in Working(loader', replay', desk') : x = y
        BY DEF OneAtATime, Busy, Working
    <2>3. OthersRest(loader', replay', desk', o)
        BY <2>1, <2>2, OneWorks
    <2> QED
        BY <1>1, <2>3 DEF OthersRest
<1> QED
    BY <1>2, <1>3

\* So the order is kept when the one that works keeps its own.
LEMMA LoadKeepsOrder ==
    ASSUME OneAtATime', NEW p \in Loaders, OthersRest(loader', replay', desk', p),
           LoadInOrder(batch', error', loader'[p]), FileLoadedOnce', SkippedAreOpen'
    PROVE  Order'
<1>1. \A x \in Loaders : LoadInOrder(batch', error', loader'[x])
    BY DEF OthersRest, LoadInOrder
<1>2. \A q \in Replayers : ReplayInOrder(error', replay'[q])
    BY ProcessAssumption DEF OthersRest, ReplayInOrder
<1>3. \A o \in Operators : DeskInOrder(batch', desk'[o])
    BY ProcessAssumption DEF OthersRest, DeskInOrder
<1> QED
    BY <1>1, <1>2, <1>3 DEF Order

LEMMA ReplayKeepsOrder ==
    ASSUME OneAtATime', NEW q \in Replayers, OthersRest(loader', replay', desk', q),
           ReplayInOrder(error', replay'[q]), FileLoadedOnce', SkippedAreOpen'
    PROVE  Order'
<1>1. \A p \in Loaders : loader'[p].pc = "idle"
    BY ProcessAssumption DEF OthersRest
<1>2. \A p \in Loaders : LoadInOrder(batch', error', loader'[p])
    BY <1>1 DEF LoadInOrder
<1>3. \A x \in Replayers : ReplayInOrder(error', replay'[x])
    BY DEF OthersRest, ReplayInOrder
<1>4. \A o \in Operators : DeskInOrder(batch', desk'[o])
    BY ProcessAssumption DEF OthersRest, DeskInOrder
<1> QED
    BY <1>2, <1>3, <1>4 DEF Order

LEMMA OperatorKeepsOrder ==
    ASSUME OneAtATime', NEW o \in Operators, OthersRest(loader', replay', desk', o),
           DeskInOrder(batch', desk'[o]), FileLoadedOnce', SkippedAreOpen'
    PROVE  Order'
<1>1. \A p \in Loaders : loader'[p].pc = "idle"
    BY ProcessAssumption DEF OthersRest
<1>2. \A p \in Loaders : LoadInOrder(batch', error', loader'[p])
    BY <1>1 DEF LoadInOrder
<1>3. \A q \in Replayers : ReplayInOrder(error', replay'[q])
    BY ProcessAssumption DEF OthersRest, ReplayInOrder
<1>4. \A x \in Operators : DeskInOrder(batch', desk'[x])
    BY DEF OthersRest, DeskInOrder
<1> QED
    BY <1>2, <1>3, <1>4 DEF Order

\* Nothing is written.
LEMMA NothingMoves ==
    ASSUME Order, UNCHANGED <<batch, error>>
    PROVE  FileLoadedOnce' /\ SkippedAreOpen'
BY DEF Order, FileLoadedOnce, SkippedAreOpen, Batches

\* SkippedAreOpen, batch by batch.
LEMMA AccurateBatches ==
    SkippedAreOpen <=> \A b \in Batches : batch[b].status = "completed" => Accurate(batch[b], error[b])
BY DEF SkippedAreOpen, Accurate, OpenIn

\* One batch is written with its errors.
LEMMA OneBatchMoves ==
    ASSUME Order, NEW b \in Batches, Batches' = Batches,
           \A c \in Batches : c # b => batch'[c] = batch[c] /\ error'[c] = error[c],
           batch[b].status = "failed" => batch'[b].status = "failed",
           batch'[b].status = "completed" => Accurate(batch'[b], error'[b])
    PROVE  FileLoadedOnce' /\ SkippedAreOpen'
<1>1. \A c \in Batches : batch'[c].status # "failed" => batch[c].status # "failed"
    OBVIOUS
<1>2. FileLoadedOnce'
    BY <1>1 DEF Order, FileLoadedOnce
<1>3. \A c \in Batches : batch'[c].status = "completed" => Accurate(batch'[c], error'[c])
    <2> TAKE c \in Batches
    <2>1. CASE c = b
        BY <2>1
    <2>2. CASE c # b
        BY <2>2, AccurateBatches DEF Order
    <2> QED
        BY <2>1, <2>2
<1>4. SkippedAreOpen'
    BY <1>3 DEF SkippedAreOpen, Accurate, OpenIn
<1> QED
    BY <1>2, <1>4

---------------------------------------------------------------------------
(* Each step of a load keeps the order.                                    *)

\* The open errors of a batch are a number, whatever they are.
LEMMA OpenIsNumber ==
    ASSUME NEW errors
    PROVE  IsFiniteSet(OpenIn(errors)) /\ Cardinality(OpenIn(errors)) \in Nat
<1>1. OpenIn(errors) \in SUBSET Rows
    BY DEF OpenIn
<1> QED
    BY <1>1, RowsAreFinite

\* One row becomes an open error, or ceases to be one.
ErrorSet(new, old, n, status) == \A k \in Rows : new[k] = IF k = n THEN status ELSE old[k]

LEMMA OneMoreOpen ==
    ASSUME NEW old, NEW new, NEW n \in Rows, old[n] # "open", ErrorSet(new, old, n, "open")
    PROVE  Cardinality(OpenIn(new)) = Cardinality(OpenIn(old)) + 1
<1>1. OpenIn(new) = OpenIn(old) \cup {n} /\ n \notin OpenIn(old)
    BY DEF OpenIn, ErrorSet
<1>2. IsFiniteSet(OpenIn(old))
    BY OpenIsNumber
<1> QED
    BY <1>1, <1>2, FS_AddElement

LEMMA OneLessOpen ==
    ASSUME NEW old, NEW new, NEW n \in Rows, old[n] = "open",
           ErrorSet(new, old, n, "reprocessed")
    PROVE  /\ Cardinality(OpenIn(new)) = Cardinality(OpenIn(old)) - 1
           /\ Cardinality(OpenIn(old)) # 0
<1>1. OpenIn(new) = OpenIn(old) \ {n} /\ n \in OpenIn(old)
    BY DEF OpenIn, ErrorSet
<1>2. IsFiniteSet(OpenIn(old))
    BY OpenIsNumber
<1>3. Cardinality(OpenIn(old)) # 0
    BY <1>1, <1>2, FS_EmptySet
<1> QED
    BY <1>1, <1>2, <1>3, FS_RemoveElement

\* CheckCompleted keeps the order.
LEMMA CheckCompletedOrder ==
    ASSUME TypeInv, Order, OneAtATime', NEW p \in Loaders, NEW path \in {"record", "batch"},
           NEW again \in Flags, CheckCompleted(p, path, again)
    PROVE  Order'
<1> DEFINE l == [IdleLoader EXCEPT !.pc = "checked", !.path = path]
<1>1. l.pc = "checked" /\ l.read = 0 /\ l.done = 0 /\ l.failed = 0
    BY DEF IdleLoader
<1>2. loader' = [loader EXCEPT ![p] = l] /\ UNCHANGED <<batch, error, replay, desk>>
    BY DEF CheckCompleted
<1> HIDE DEF l
<1>3. loader'[p] = l
    BY <1>2 DEF TypeInv, LoadersOK
<1>4. OthersRest(loader', replay', desk', p)
    BY <1>1, <1>2, LoadWorksAlone DEF Order
<1>5. TRUE \notin Flags => NoneWith(batch, "completed")
    <2>1. TRUE \notin Flags => again = FALSE
        BY RowAssumption
    <2> QED
        BY <2>1 DEF CheckCompleted, Has, NoneWith, Batches
<1>6. LoadInOrder(batch', error', loader'[p])
    BY <1>1, <1>2, <1>3, <1>5 DEF LoadInOrder
<1> QED
    BY <1>2, <1>4, <1>6, NothingMoves, LoadKeepsOrder

\* CheckInFlight keeps the order.
LEMMA CheckInFlightOrder ==
    ASSUME TypeInv, Order, OneAtATime', NEW p \in Loaders, CheckInFlight(p)
    PROVE  Order'
<1> DEFINE l == IF Has("running") THEN IdleLoader ELSE [loader[p] EXCEPT !.pc = "clear"]
<1>1. loader[p] \in Loader /\ loader[p].pc = "checked"
    BY LoadState DEF CheckInFlight
<1>2. loader' = [loader EXCEPT ![p] = l] /\ UNCHANGED <<batch, error, replay, desk>>
    BY DEF CheckInFlight, TypeInv, LoadersOK
<1>3. loader'[p] = l
    BY <1>2 DEF TypeInv, LoadersOK
<1>4. OthersRest(loader', replay', desk', p)
    <2> HIDE DEF l
    <2> QED
        BY <1>1, <1>2, LoadWorksAlone DEF Order
<1>5. LoadInOrder(batch', error', l)
    <2>1. CASE Has("running")
        BY <2>1 DEF LoadInOrder, IdleLoader
    <2>2. CASE ~Has("running")
        <3>1. LoadInOrder(batch, error, loader[p])
            BY DEF Order
        <3>2. /\ l.pc = "clear" /\ l.read = loader[p].read /\ l.done = loader[p].done
              /\ l.failed = loader[p].failed
            BY <1>1, <2>2 DEF Loader
        <3>3. NoneWith(batch, "running")
            BY <2>2 DEF Has, NoneWith, Batches
        <3> HIDE DEF l
        <3> QED
            BY <1>1, <1>2, <3>1, <3>2, <3>3 DEF LoadInOrder
    <2> QED
        BY <2>1, <2>2
<1> QED
    BY <1>2, <1>3, <1>4, <1>5, NothingMoves, LoadKeepsOrder

\* CreateBatch keeps the order: the new batch is the only one running, and without
\* --allow-reingest the only one that has not failed.
LEMMA CreateBatchOrder ==
    ASSUME TypeInv, Order, OneAtATime', NEW p \in Loaders, CreateBatch(p)
    PROVE  Order'
<1> DEFINE b == Len(batch) + 1
           l == [loader[p] EXCEPT !.pc = "loading", !.batch = b]
<1>1. /\ TypeInv' /\ Len(batch') = b
      /\ \A c \in Batches : batch'[c] = batch[c] /\ error'[c] = error[c]
      /\ batch'[b] = NewBatch
      /\ loader' = [loader EXCEPT ![p] = [@ EXCEPT !.pc = "loading", !.batch = b]]
    BY CreateBatchType
<1>2. loader' = [loader EXCEPT ![p] = l] /\ UNCHANGED <<replay, desk>>
    BY <1>1 DEF TypeInv, LoadersOK, CreateBatch
<1>3. Len(batch) \in Nat /\ loader[p] \in Loader /\ loader[p].pc = "clear"
    BY LoadState DEF CreateBatch
<1>4. error'[b] = [n \in Rows |-> "none"]
    BY DEF CreateBatch, TypeInv, Tables
<1>5. /\ l.batch = b /\ l.pc = "loading" /\ l.read = loader[p].read
      /\ l.done = loader[p].done /\ l.failed = loader[p].failed
    BY <1>3 DEF Loader
<1> HIDE DEF l
<1>6. b \in Nat /\ b \notin Batches /\ Batches' = Batches \cup {b}
    BY <1>1, <1>3 DEF Batches
<1> HIDE DEF b
<1>7. OthersRest(loader', replay', desk', p) /\ loader'[p] = l
    BY <1>2, <1>3, LoadWorksAlone DEF Order, TypeInv, LoadersOK
<1>8. /\ loader[p].read = 0 /\ loader[p].done = 0 /\ loader[p].failed = 0
      /\ TRUE \notin Flags => NoneWith(batch, "completed")
      /\ NoneWith(batch, "running")
    BY <1>3 DEF Order, LoadInOrder
<1>9. OpenIn(error'[b]) = {} /\ \A n \in Rows : error'[b][n] = "none"
    BY <1>4 DEF OpenIn
<1>10. batch'[b].status = "running"
    BY <1>1 DEF NewBatch
<1>11. LoadInOrder(batch', error', l)
    <2>1. Cardinality({}) = 0
        BY FS_EmptySet
    <2>2. InProgress(batch', error', l)
        BY <1>5, <1>8, <1>9, <1>10, <2>1 DEF InProgress
    <2> QED
        BY <1>5, <2>2 DEF LoadInOrder
<1>12. FileLoadedOnce'
    <2> SUFFICES ASSUME TRUE \notin Flags, NEW a \in Batches', NEW c \in Batches',
                        batch'[a].status # "failed", batch'[c].status # "failed"
                 PROVE  a = c
        BY DEF FileLoadedOnce
    <2>1. \A d \in Batches : batch[d].status = "failed"
        BY <1>8, RowsOf DEF NoneWith, Batches, TypeInv, Batch
    <2> QED
        BY <1>1, <1>6, <2>1
<1>13. SkippedAreOpen'
    <2>1. \A c \in Batches' : batch'[c].status = "completed" => Accurate(batch'[c], error'[c])
        BY <1>1, <1>6, <1>10, AccurateBatches DEF Order
    <2> QED
        BY <2>1 DEF SkippedAreOpen, Accurate, OpenIn
<1> QED
    BY <1>7, <1>11, <1>12, <1>13, LoadKeepsOrder

\* What a load in progress relies on.
LEMMA LoadInProgress ==
    ASSUME TypeInv, Order, NEW p \in Loaders, loader[p].pc \in {"loading", "closing"}
    PROVE  /\ loader[p] \in Loader /\ loader[p].batch \in Batches
           /\ loader[p].read \in Nat /\ loader[p].done \in Nat /\ loader[p].failed \in Nat
           /\ InProgress(batch, error, loader[p]) /\ batch[loader[p].batch].status = "running"
<1>1. loader[p] \in Loader /\ loader[p].batch \in Batches
    BY LoadState DEF Live
<1>2. loader[p].read \in Nat /\ loader[p].done \in Nat /\ loader[p].failed \in Nat
    BY <1>1 DEF Loader
<1>3. InProgress(batch, error, loader[p])
    BY DEF Order, LoadInOrder
<1> QED
    BY <1>1, <1>2, <1>3 DEF InProgress

\* StoreRow keeps the order.
LEMMA StoreRowOrder ==
    ASSUME TypeInv, Order, OneAtATime', NEW p \in Loaders, StoreRow(p)
    PROVE  Order'
<1> DEFINE l == [loader[p] EXCEPT !.read = @ + 1, !.done = @ + 1]
<1>1. loader[p].pc = "loading"
    BY DEF StoreRow, Loading
<1>2. /\ loader[p] \in Loader /\ InProgress(batch, error, loader[p])
      /\ loader[p].read \in Nat /\ loader[p].done \in Nat /\ loader[p].failed \in Nat
    BY <1>1, LoadInProgress
<1>3. loader' = [loader EXCEPT ![p] = l] /\ UNCHANGED <<batch, error, replay, desk>>
    BY <1>2 DEF StoreRow, TypeInv, LoadersOK
<1>4. /\ l.pc = "loading" /\ l.batch = loader[p].batch /\ l.path = loader[p].path
      /\ l.read = loader[p].read + 1 /\ l.done = loader[p].done + 1
      /\ l.failed = loader[p].failed
    BY <1>1, <1>2 DEF Loader
<1> HIDE DEF l
<1>5. OthersRest(loader', replay', desk', p) /\ loader'[p] = l
    BY <1>1, <1>3, LoadWorksAlone DEF Order, TypeInv, LoadersOK
<1>6. InProgress(batch', error', l)
    <2>1. l.done + l.failed = l.read
        BY <1>2, <1>4 DEF InProgress
    <2>2. \A n \in Rows : n > l.read => n > loader[p].read
        BY <1>2, <1>4 DEF Rows
    <2> QED
        BY <1>2, <1>3, <1>4, <2>1, <2>2 DEF InProgress
<1>7. LoadInOrder(batch', error', loader'[p])
    BY <1>4, <1>5, <1>6 DEF LoadInOrder
<1> QED
    BY <1>3, <1>5, <1>7, NothingMoves, LoadKeepsOrder

\* RecordFailure keeps the order: the row was no error before.
LEMMA RecordFailureOrder ==
    ASSUME TypeInv, Order, OneAtATime', NEW p \in Loaders, RecordFailure(p)
    PROVE  Order'
<1> DEFINE l == [loader[p] EXCEPT !.read = @ + 1, !.failed = @ + 1]
           b == loader[p].batch
           n == NextRow(p)
<1>1. loader[p].pc = "loading" /\ loader[p].path = "record" /\ n \in Rows
    BY DEF RecordFailure, Loading
<1>2. /\ loader[p] \in Loader /\ b \in Batches /\ InProgress(batch, error, loader[p])
      /\ loader[p].read \in Nat /\ loader[p].done \in Nat /\ loader[p].failed \in Nat
    BY <1>1, LoadInProgress
<1>3. loader' = [loader EXCEPT ![p] = l] /\ UNCHANGED <<batch, replay, desk>>
    BY <1>2 DEF RecordFailure, TypeInv, LoadersOK
<1>4. /\ l.pc = "loading" /\ l.batch = b /\ l.path = "record"
      /\ l.read = loader[p].read + 1 /\ l.done = loader[p].done
      /\ l.failed = loader[p].failed + 1
    BY <1>1, <1>2 DEF Loader
<1>5. n = loader[p].read + 1
    BY DEF NextRow
<1>6. error' = [error EXCEPT ![b][n] = "open"]
    BY DEF RecordFailure
<1> HIDE DEF l, n
<1>7. /\ error' \in Seq(ErrorRow) /\ Len(error') = Len(error)
      /\ \A c \in Batches, k \in Rows :
            error'[c][k] = IF c = b /\ k = n THEN "open" ELSE error[c][k]
    BY <1>1, <1>2, <1>6, SetError DEF TypeInv
<1>8. \A c \in Batches : c # b => error'[c] = error[c]
    BY <1>6 DEF TypeInv, Tables, Batches
<1>9. OthersRest(loader', replay', desk', p) /\ loader'[p] = l
    BY <1>1, <1>3, LoadWorksAlone DEF Order, TypeInv, LoadersOK
<1>10. InProgress(batch', error', l)
    <2>1. l.done + l.failed = l.read
        BY <1>2, <1>4 DEF InProgress
    <2>2. \A k \in Rows : k > l.read => k > loader[p].read /\ k # n
        BY <1>2, <1>4, <1>5 DEF Rows
    <2>3. \A k \in Rows : k > l.read => error'[b][k] = "none"
        BY <1>2, <1>7, <2>2 DEF InProgress
    <2>4. Cardinality(OpenIn(error'[b])) = Cardinality(OpenIn(error[b])) + 1
        <3>1. PICK old, new : old = error[b] /\ new = error'[b]
            OBVIOUS
        <3>2. ErrorSet(new, old, n, "open")
            BY <1>2, <1>7, <3>1 DEF ErrorSet
        <3>3. old[n] # "open"
            BY <1>1, <1>2, <1>5, <3>1 DEF InProgress
        <3> QED
            BY <1>1, <3>1, <3>2, <3>3, OneMoreOpen
    <2>5. l.failed = Cardinality(OpenIn(error'[b]))
        BY <1>2, <1>4, <2>4 DEF InProgress
    <2>6. batch'[b].status = "running"
        BY <1>2, <1>3 DEF InProgress
    <2> QED
        BY <1>4, <2>1, <2>3, <2>5, <2>6 DEF InProgress
<1>11. LoadInOrder(batch', error', loader'[p])
    BY <1>4, <1>9, <1>10 DEF LoadInOrder
<1>12. FileLoadedOnce' /\ SkippedAreOpen'
    <2>1. Batches' = Batches /\ batch'[b].status = "running" /\ batch' = batch
        BY <1>2, <1>3 DEF Batches, InProgress
    <2> QED
        BY <1>2, <1>8, <2>1, OneBatchMoves
<1> QED
    BY <1>9, <1>11, <1>12, LoadKeepsOrder

\* A load that is done with its batch leaves it with a status and counters to match.
Ending(before, after, row, errors) ==
    /\ before.pc \in {"loading", "closing"} /\ after.pc \in {"idle", "publishing"}
    /\ row.status = "completed" => Accurate(row, errors)

LEMMA LoadEnds ==
    ASSUME TypeInv, Order, OneAtATime', NEW p \in Loaders, NEW l \in Loader, NEW row \in Batch,
           Ending(loader[p], l, row, error[loader[p].batch]),
           loader' = [loader EXCEPT ![p] = l],
           batch' = [batch EXCEPT ![loader[p].batch] = row], UNCHANGED <<error, replay, desk>>
    PROVE  Order'
<1>0. /\ loader[p].pc \in {"loading", "closing"} /\ l.pc \in {"idle", "publishing"}
      /\ row.status = "completed" => Accurate(row, error[loader[p].batch])
    BY DEF Ending
<1>1. loader[p].batch \in Batches /\ batch[loader[p].batch].status = "running"
    BY <1>0, LoadInProgress
<1>2. PICK b \in Batches : b = loader[p].batch
    BY <1>1
<1>3. OthersRest(loader', replay', desk', p) /\ loader'[p] = l
    BY <1>0, LoadWorksAlone DEF Order, TypeInv, LoadersOK
<1>4. LoadInOrder(batch', error', loader'[p])
    BY <1>0, <1>3 DEF LoadInOrder
<1>5. Batches' = Batches /\ \A c \in Batches : batch'[c] = IF c = b THEN row ELSE batch[c]
    BY <1>2, SetBatch DEF TypeInv, Batches
<1>6. FileLoadedOnce' /\ SkippedAreOpen'
    <2>1. \A c \in Batches : c # b => batch'[c] = batch[c] /\ error'[c] = error[c]
        BY <1>5
    <2>2. batch[b].status # "failed" /\ batch'[b] = row /\ error'[b] = error[b]
        BY <1>1, <1>2, <1>5
    <2>3. batch'[b].status = "completed" => Accurate(batch'[b], error'[b])
        BY <1>0, <1>2, <2>2
    <2> QED
        BY <1>5, <2>1, <2>2, <2>3, OneBatchMoves
<1> QED
    BY <1>3, <1>4, <1>6, LoadKeepsOrder

\* MarkPublished keeps the order.
LEMMA MarkPublishedOrder ==
    ASSUME TypeInv, Order, OneAtATime', NEW p \in Loaders, NEW publish \in BOOLEAN,
           MarkPublished(p, publish)
    PROVE  Order'
<1> DEFINE b == loader[p].batch
           row == [batch[b] EXCEPT !.published = @ \/ publish]
           l == [loader[p] EXCEPT !.pc = "closing"]
<1>1. loader[p].pc = "loading"
    BY DEF MarkPublished, Loading
<1>2. /\ loader[p] \in Loader /\ b \in Batches /\ InProgress(batch, error, loader[p])
      /\ batch[b].status = "running"
    BY <1>1, LoadInProgress
<1>3. batch[b] \in Batch /\ batch[b].published \in BOOLEAN
    BY <1>2, RowsOf, BatchFields DEF TypeInv
<1>4. row \in Batch
    <2>1. (batch[b].published \/ publish) \in BOOLEAN
        BY <1>3
    <2> QED
        BY <1>3, <2>1, BatchFields
<1>5. row.status = "running"
    BY <1>2, <1>3 DEF Batch
<1>6. batch' = [batch EXCEPT ![b] = row] /\ UNCHANGED <<error, replay, desk>>
    BY DEF MarkPublished
<1>7. loader' = [loader EXCEPT ![p] = l]
    BY DEF MarkPublished
<1>8. /\ l.pc = "closing" /\ l.batch = b /\ l.path = loader[p].path
      /\ l.read = loader[p].read /\ l.done = loader[p].done /\ l.failed = loader[p].failed
    BY <1>2 DEF Loader
<1> HIDE DEF row, l
<1>9. OthersRest(loader', replay', desk', p) /\ loader'[p] = l
    BY <1>1, <1>6, <1>7, LoadWorksAlone DEF Order, TypeInv, LoadersOK
<1>10. Batches' = Batches /\ \A c \in Batches : batch'[c] = IF c = b THEN row ELSE batch[c]
    BY <1>2, <1>4, <1>6, SetBatch DEF TypeInv, Batches
<1>11. InProgress(batch', error', l)
    BY <1>2, <1>5, <1>6, <1>8, <1>10 DEF InProgress
<1>12. LoadInOrder(batch', error', loader'[p])
    BY <1>8, <1>9, <1>11 DEF LoadInOrder
<1>13. FileLoadedOnce' /\ SkippedAreOpen'
    <2>1. \A c \in Batches : c # b => batch'[c] = batch[c] /\ error'[c] = error[c]
        BY <1>6, <1>10
    <2>2. batch'[b].status = "running"
        BY <1>2, <1>5, <1>10
    <2> QED
        BY <1>2, <1>10, <2>1, <2>2, OneBatchMoves
<1> QED
    BY <1>9, <1>12, <1>13, LoadKeepsOrder

\* The counters that finish_batch writes.
LEMMA FinishedAccurate ==
    ASSUME Tables, NEW b \in Batches, NEW read \in Nat, NEW done \in Nat, NEW failed \in Nat,
           failed = Cardinality(OpenIn(error[b])), done + failed = read
    PROVE  Accurate(Finished(b, read, done, failed), error[b])
<1>1. batch[b] \in Batch
    BY RowsOf
<1>2. PICK row : row = Finished(b, read, done, failed)
    OBVIOUS
<1>3. row.skipped = failed /\ row.ingested = done /\ row.read = read
    BY <1>1, <1>2 DEF Finished, Batch
<1>4. Accurate(row, error[b])
    BY <1>3 DEF Accurate
<1> QED
    BY <1>2, <1>4

\* FinishRecords keeps the order.
LEMMA FinishRecordsOrder ==
    ASSUME TypeInv, Order, OneAtATime', NEW p \in Loaders, FinishRecords(p)
    PROVE  Order'
<1> DEFINE l == loader[p]
           row == Finished(l.batch, l.read, l.done, l.failed)
<1>1. l.pc = "closing"
    BY DEF FinishRecords
<1>2. /\ l.batch \in Batches /\ l.read \in Nat /\ l.done \in Nat /\ l.failed \in Nat
      /\ InProgress(batch, error, l)
    BY <1>1, LoadInProgress
<1>3. row \in Batch
    BY <1>2, FinishedType DEF TypeInv
<1>4. Accurate(row, error[l.batch])
    BY <1>2, FinishedAccurate DEF TypeInv, InProgress
<1>5. /\ batch' = [batch EXCEPT ![l.batch] = row]
      /\ loader' = [loader EXCEPT ![p] = IdleLoader]
      /\ UNCHANGED <<error, replay, desk>>
    BY DEF FinishRecords
<1> HIDE DEF row
<1>6. Ending(l, IdleLoader, row, error[l.batch])
    BY <1>1, <1>4 DEF Ending, IdleLoader
<1> QED
    BY <1>3, <1>5, <1>6, IdleType, LoadEnds

\* StoreChunk keeps the order.
LEMMA StoreChunkOrder ==
    ASSUME TypeInv, Order, OneAtATime', NEW p \in Loaders, StoreChunk(p)
    PROVE  Order'
<1> DEFINE k == Cardinality(Chunk(p))
           l == [loader[p] EXCEPT !.read = @ + k, !.done = @ + k]
<1>1. loader[p].pc = "loading"
    BY DEF StoreChunk, Loading
<1>2. /\ loader[p] \in Loader /\ InProgress(batch, error, loader[p])
      /\ loader[p].read \in Nat /\ loader[p].done \in Nat /\ loader[p].failed \in Nat
    BY <1>1, LoadInProgress
<1>3. k \in Nat
    BY <1>2, ChunkRows DEF StoreChunk
<1>4. loader' = [loader EXCEPT ![p] = l] /\ UNCHANGED <<batch, error, replay, desk>>
    BY <1>2 DEF StoreChunk, TypeInv, LoadersOK
<1> HIDE DEF k
<1>5. /\ l.pc = "loading" /\ l.batch = loader[p].batch /\ l.path = loader[p].path
      /\ l.read = loader[p].read + k /\ l.done = loader[p].done + k
      /\ l.failed = loader[p].failed
    BY <1>1, <1>2 DEF Loader
<1> HIDE DEF l
<1>6. OthersRest(loader', replay', desk', p) /\ loader'[p] = l
    BY <1>1, <1>4, LoadWorksAlone DEF Order, TypeInv, LoadersOK
<1>7. InProgress(batch', error', l)
    <2>1. l.done + l.failed = l.read
        BY <1>2, <1>3, <1>5 DEF InProgress
    <2>2. \A n \in Rows : n > l.read => n > loader[p].read
        BY <1>2, <1>3, <1>5 DEF Rows
    <2> QED
        BY <1>2, <1>4, <1>5, <2>1, <2>2 DEF InProgress
<1>8. LoadInOrder(batch', error', loader'[p])
    BY <1>5, <1>6, <1>7 DEF LoadInOrder
<1> QED
    BY <1>4, <1>6, <1>8, NothingMoves, LoadKeepsOrder

\* FailLoad keeps the order.
LEMMA FailLoadOrder ==
    ASSUME TypeInv, Order, OneAtATime', NEW p \in Loaders, FailLoad(p)
    PROVE  Order'
<1> DEFINE row == [batch[loader[p].batch] EXCEPT !.status = "failed"]
<1>1. loader[p].pc = "loading"
    BY DEF FailLoad, Loading
<1>2. batch[loader[p].batch] \in Batch
    BY <1>1, LoadInProgress, RowsOf DEF TypeInv
<1>3. row \in Batch
    BY <1>2, BatchFields
<1>4. row.status = "failed"
    BY <1>2 DEF Batch
<1>5. /\ batch' = [batch EXCEPT ![loader[p].batch] = row]
      /\ loader' = [loader EXCEPT ![p] = IdleLoader]
      /\ UNCHANGED <<error, replay, desk>>
    BY DEF FailLoad
<1> HIDE DEF row
<1>6. Ending(loader[p], IdleLoader, row, error[loader[p].batch])
    BY <1>1, <1>4 DEF Ending, IdleLoader
<1> QED
    BY <1>3, <1>5, <1>6, IdleType, LoadEnds

\* FinishIngest keeps the order.
LEMMA FinishIngestOrder ==
    ASSUME TypeInv, Order, OneAtATime', NEW p \in Loaders, FinishIngest(p)
    PROVE  Order'
<1> DEFINE b == loader[p].batch
           row == Finished(b, loader[p].read, loader[p].done, 0)
           l == [loader[p] EXCEPT !.pc = "publishing"]
<1>1. loader[p].pc = "loading" /\ loader[p].path = "batch"
    BY DEF FinishIngest, Loading
<1>2. /\ loader[p] \in Loader /\ b \in Batches
      /\ loader[p].read \in Nat /\ loader[p].done \in Nat
      /\ InProgress(batch, error, loader[p])
    BY <1>1, LoadInProgress
<1>3. row \in Batch
    BY <1>2, FinishedType DEF TypeInv
<1>4. Accurate(row, error[b])
    <2>1. loader[p].failed = 0
        BY <1>1, <1>2 DEF InProgress
    <2>2. 0 = Cardinality(OpenIn(error[b])) /\ loader[p].done + 0 = loader[p].read
        BY <1>2, <2>1 DEF InProgress
    <2> QED
        BY <1>2, <2>2, FinishedAccurate DEF TypeInv
<1>5. batch' = [batch EXCEPT ![b] = row] /\ UNCHANGED <<error, replay, desk>>
    BY DEF FinishIngest
<1>6. loader' = [loader EXCEPT ![p] = l]
    BY DEF FinishIngest
<1>7. l.pc = "publishing"
    BY <1>2 DEF Loader
<1>8. l \in Loader
    BY <1>2, LoaderMoves
<1> HIDE DEF row, l
<1>9. Ending(loader[p], l, row, error[b])
    BY <1>1, <1>4, <1>7 DEF Ending
<1> QED
    BY <1>3, <1>5, <1>6, <1>8, <1>9, LoadEnds

\* PublishIngest keeps the order: the mark is no part of it.
LEMMA PublishIngestOrder ==
    ASSUME TypeInv, Order, OneAtATime', NEW p \in Loaders, NEW delivered \in BOOLEAN,
           PublishIngest(p, delivered)
    PROVE  Order'
<1> DEFINE b == loader[p].batch
           row == [batch[b] EXCEPT !.published = @ \/ delivered]
<1>1. b \in Batches /\ loader[p].pc = "publishing"
    BY LoadState DEF PublishIngest, Live
<1>2. batch[b] \in Batch /\ batch[b].published \in BOOLEAN
    BY <1>1, RowsOf, BatchFields DEF TypeInv
<1>3. row \in Batch
    <2>1. (batch[b].published \/ delivered) \in BOOLEAN
        BY <1>2
    <2> QED
        BY <1>2, <2>1, BatchFields
<1>4. /\ row.status = batch[b].status /\ row.skipped = batch[b].skipped
      /\ row.ingested = batch[b].ingested /\ row.read = batch[b].read
    BY <1>2 DEF Batch
<1>5. /\ batch' = [batch EXCEPT ![b] = row]
      /\ loader' = [loader EXCEPT ![p] = IdleLoader]
      /\ UNCHANGED <<error, replay, desk>>
    BY DEF PublishIngest
<1> HIDE DEF row
<1>6. OthersRest(loader', replay', desk', p) /\ loader'[p] = IdleLoader
    BY <1>1, <1>5, LoadWorksAlone DEF Order, TypeInv, LoadersOK
<1>7. LoadInOrder(batch', error', loader'[p])
    BY <1>6, IdleType DEF LoadInOrder, IdleLoader
<1>8. Batches' = Batches /\ \A c \in Batches : batch'[c] = IF c = b THEN row ELSE batch[c]
    BY <1>1, <1>3, <1>5, SetBatch DEF TypeInv, Batches
<1>9. FileLoadedOnce' /\ SkippedAreOpen'
    <2>1. \A c \in Batches : c # b => batch'[c] = batch[c] /\ error'[c] = error[c]
        BY <1>5, <1>8
    <2>2. batch'[b] = row /\ error'[b] = error[b]
        BY <1>1, <1>5, <1>8
    <2>3. batch'[b].status = "completed" => Accurate(batch'[b], error'[b])
        BY <1>1, <1>4, <2>2, AccurateBatches DEF Order, Accurate
    <2> QED
        BY <1>1, <1>4, <1>8, <2>1, <2>2, <2>3, OneBatchMoves
<1> QED
    BY <1>6, <1>7, <1>9, LoadKeepsOrder

\* Die keeps the order: the batch stays running, and nobody works on it.
LEMMA DieOrder ==
    ASSUME TypeInv, Order, OneAtATime', NEW p \in Loaders, Die(p)
    PROVE  Order'
<1>1. /\ loader' = [loader EXCEPT ![p] = IdleLoader] /\ UNCHANGED <<batch, error, replay, desk>>
      /\ loader[p].pc # "idle"
    BY DEF Die
<1>2. OthersRest(loader', replay', desk', p) /\ loader'[p] = IdleLoader
    BY <1>1, LoadWorksAlone DEF Order, TypeInv, LoadersOK
<1>3. LoadInOrder(batch', error', loader'[p])
    BY <1>2, IdleType DEF LoadInOrder, IdleLoader
<1> QED
    BY <1>1, <1>2, <1>3, NothingMoves, LoadKeepsOrder

---------------------------------------------------------------------------
(* So does each step of an operator and of a replay.                       *)

\* FindRunning keeps the order.
LEMMA FindRunningOrder ==
    ASSUME TypeInv, Order, OneAtATime', NEW o \in Operators, NEW b \in Batches, FindRunning(o, b)
    PROVE  Order'
<1>1. /\ desk' = [desk EXCEPT ![o] = b] /\ UNCHANGED <<batch, error, loader, replay>>
      /\ batch[b].status = "running"
    BY DEF FindRunning
<1>2. b # NoBatch
    BY DEF Batches, NoBatch
<1>3. OthersRest(loader', replay', desk', o) /\ desk'[o] = b
    BY <1>1, <1>2, OperatorWorksAlone DEF Order, TypeInv, DesksOK
<1>4. DeskInOrder(batch', desk'[o])
    BY <1>1, <1>3 DEF DeskInOrder
<1> QED
    BY <1>1, <1>3, <1>4, NothingMoves, OperatorKeepsOrder

\* Abandon keeps the order: the batch fails, and nobody else is at work on it.
LEMMA AbandonOrder ==
    ASSUME TypeInv, Order, OneAtATime', NEW o \in Operators, Abandon(o)
    PROVE  Order'
<1> DEFINE row == [batch[desk[o]] EXCEPT !.status = "failed"]
<1>1. desk[o] \in Batches /\ desk[o] # NoBatch
    BY DEF Abandon, TypeInv, DesksOK, Tables, Batches, NoBatch
<1>2. PICK b \in Batches : b = desk[o]
    BY <1>1
<1>3. batch[b] \in Batch
    BY RowsOf DEF TypeInv
<1>4. row \in Batch /\ row.status = "failed"
    <2>1. row.status = "failed"
        BY <1>2, <1>3 DEF Batch
    <2> QED
        BY <1>2, <1>3, <2>1, BatchFields
<1>5. /\ batch' = [batch EXCEPT ![b] = row] /\ desk' = [desk EXCEPT ![o] = NoBatch]
      /\ UNCHANGED <<error, loader, replay>>
    BY <1>2 DEF Abandon
<1> HIDE DEF row
<1>6. OthersRest(loader', replay', desk', o) /\ desk'[o] = NoBatch
    BY <1>1, <1>5, OperatorWorksAlone DEF Order, TypeInv, DesksOK
<1>7. DeskInOrder(batch', desk'[o])
    BY <1>6 DEF DeskInOrder
<1>8. Batches' = Batches /\ \A c \in Batches : batch'[c] = IF c = b THEN row ELSE batch[c]
    BY <1>4, <1>5, SetBatch DEF TypeInv, Batches
<1>9. FileLoadedOnce' /\ SkippedAreOpen'
    <2>1. \A c \in Batches : c # b => batch'[c] = batch[c] /\ error'[c] = error[c]
        BY <1>5, <1>8
    <2>2. batch'[b].status = "failed"
        BY <1>4, <1>8
    <2> QED
        BY <1>8, <2>1, <2>2, OneBatchMoves
<1> QED
    BY <1>6, <1>7, <1>9, OperatorKeepsOrder

\* StartReplay keeps the order.
LEMMA StartReplayOrder ==
    ASSUME TypeInv, Order, OneAtATime', NEW q \in Replayers, StartReplay(q)
    PROVE  Order'
<1> DEFINE r == [pc |-> "next", todo |-> OpenErrors]
<1>1. replay' = [replay EXCEPT ![q] = r] /\ UNCHANGED <<batch, error, loader, desk>>
    BY DEF StartReplay
<1>2. r.pc = "next" /\ r.todo = OpenErrors
    OBVIOUS
<1> HIDE DEF r
<1>3. OthersRest(loader', replay', desk', q) /\ replay'[q] = r
    BY <1>1, <1>2, ReplayWorksAlone DEF Order, TypeInv, ReplaysOK
<1>4. ReplayInOrder(error', replay'[q])
    BY <1>1, <1>2, <1>3 DEF ReplayInOrder, OpenErrors
<1> QED
    BY <1>1, <1>3, <1>4, NothingMoves, ReplayKeepsOrder

\* ReplayRow keeps the order.
LEMMA ReplayRowOrder ==
    ASSUME TypeInv, Order, OneAtATime', NEW q \in Replayers, ReplayRow(q)
    PROVE  Order'
<1> DEFINE r == [replay[q] EXCEPT !.pc = "marking"]
<1>1. /\ replay' = [replay EXCEPT ![q] = r] /\ UNCHANGED <<batch, error, loader, desk>>
      /\ replay[q].pc = "next"
    BY DEF ReplayRow
<1>2. r.todo = replay[q].todo
    BY DEF TypeInv, ReplaysOK, Replay
<1> HIDE DEF r
<1>3. OthersRest(loader', replay', desk', q) /\ replay'[q] = r
    BY <1>1, ReplayWorksAlone DEF Order, TypeInv, ReplaysOK
<1>4. ReplayInOrder(error', replay'[q])
    BY <1>1, <1>2, <1>3 DEF Order, ReplayInOrder
<1> QED
    BY <1>1, <1>3, <1>4, NothingMoves, ReplayKeepsOrder

\* The error a replay is at is open, and so is what it has left whatever becomes of it.
OthersUntouched(new, x) ==
    \A c \in Batches, k \in Rows : c # x[1] \/ k # x[2] => new[c][k] = error[c][k]

LEMMA ReplayAtOpen ==
    ASSUME TypeInv, Order, NEW q \in Replayers, replay[q].pc # "idle",
           NEW x, x = First(replay[q].todo), NEW new, OthersUntouched(new, x)
    PROVE  /\ x[1] \in Batches /\ x[2] \in Rows /\ error[x[1]][x[2]] = "open"
           /\ ReplayInOrder(new, After(q, x))
<1>1. /\ x \in replay[q].todo /\ x[1] \in Batches /\ x[2] \in Rows
      /\ replay[q].todo \subseteq Batches \X Rows
    BY ReplayState DEF TypeInv, ReplaysOK
<1>2. \A y \in replay[q].todo : error[y[1]][y[2]] = "open"
    BY DEF Order, ReplayInOrder
<1>3. ReplayInOrder(new, After(q, x))
    <2>1. CASE replay[q].todo = {x}
        BY <2>1, IdleType DEF After, ReplayInOrder
    <2>2. CASE replay[q].todo # {x}
        <3>1. After(q, x).todo = replay[q].todo \ {x}
            BY <2>2 DEF After
        <3>2. ASSUME NEW y \in replay[q].todo \ {x}
              PROVE  new[y[1]][y[2]] = "open"
            <4>1. y[1] \in Batches /\ y[2] \in Rows /\ (y[1] # x[1] \/ y[2] # x[2])
                BY <1>1, <3>2
            <4> QED
                BY <1>2, <4>1 DEF OthersUntouched
        <3> QED
            BY <3>1, <3>2 DEF ReplayInOrder
    <2> QED
        BY <2>1, <2>2
<1> QED
    BY <1>1, <1>2, <1>3

\* MarkReprocessed keeps the order: there is an error to take off rows_skipped.
LEMMA MarkReprocessedOrder ==
    ASSUME TypeInv, Order, OneAtATime', NEW q \in Replayers, MarkReprocessed(q)
    PROVE  Order'
<1> DEFINE row(s) == [batch[s] EXCEPT !.ingested = @ + 1, !.skipped = IF @ = 0 THEN 0 ELSE @ - 1]
<1>0. PICK x : x = First(replay[q].todo)
    OBVIOUS
<1>1. /\ replay[q].pc = "marking"
      /\ error' = [error EXCEPT ![x[1]][x[2]] = "reprocessed"]
      /\ batch' = [batch EXCEPT ![x[1]] = row(x[1])]
      /\ replay' = [replay EXCEPT ![q] = After(q, x)]
      /\ UNCHANGED <<loader, desk>>
    BY <1>0 DEF MarkReprocessed
<1>2. x[1] \in Batches /\ x[2] \in Rows
    BY <1>0, <1>1, ReplayState
<1>3. PICK b \in Batches, n \in Rows : b = x[1] /\ n = x[2]
    BY <1>2
<1>4. batch[b] \in Batch
    BY RowsOf DEF TypeInv
<1>5. /\ row(b) \in Batch
      /\ row(b).status = batch[b].status /\ row(b).read = batch[b].read
      /\ row(b).ingested = batch[b].ingested + 1
      /\ row(b).skipped = IF batch[b].skipped = 0 THEN 0 ELSE batch[b].skipped - 1
    <2>1. batch[b].ingested + 1 \in Nat /\ (IF batch[b].skipped = 0 THEN 0 ELSE batch[b].skipped - 1) \in Nat
        BY <1>4 DEF Batch
    <2>2. row(b) \in Batch
        BY <1>4, <2>1, BatchFields
    <2> QED
        BY <1>4, <2>2 DEF Batch
<1>6. PICK new : new = row(b)
    OBVIOUS
<1> HIDE DEF row
<1>7. \A c \in Batches, k \in Rows :
          error'[c][k] = IF c = b /\ k = n THEN "reprocessed" ELSE error[c][k]
    <2>1. Tables
        BY DEF TypeInv
    <2>2. error' = [error EXCEPT ![b][n] = "reprocessed"]
        BY <1>1, <1>3
    <2> QED
        BY <2>1, <2>2, SetError
<1>8. \A c \in Batches : c # b => error'[c] = error[c]
    BY <1>1, <1>3 DEF TypeInv, Tables, Batches
<1>9. error[b][n] = "open" /\ ReplayInOrder(error', After(q, x))
    <2>1. OthersUntouched(error', x)
        BY <1>3, <1>7 DEF OthersUntouched
    <2>2. replay[q].pc # "idle"
        BY <1>1
    <2> QED
        BY <1>0, <1>3, <2>1, <2>2, ReplayAtOpen
<1>10. OthersRest(loader', replay', desk', q) /\ replay'[q] = After(q, x)
    BY <1>1, ReplayWorksAlone DEF Order, TypeInv, ReplaysOK
<1>11. Batches' = Batches /\ \A c \in Batches : batch'[c] = IF c = b THEN new ELSE batch[c]
    BY <1>1, <1>3, <1>5, <1>6, SetBatch DEF TypeInv, Batches
<1>12. ASSUME batch[b].status = "completed"
       PROVE  Accurate(batch'[b], error'[b])
    <2>1. PICK old, after : old = error[b] /\ after = error'[b]
        OBVIOUS
    <2>2. ErrorSet(after, old, n, "reprocessed") /\ old[n] = "open"
        BY <1>7, <1>9, <2>1 DEF ErrorSet
    <2>3. /\ Cardinality(OpenIn(after)) = Cardinality(OpenIn(old)) - 1
          /\ Cardinality(OpenIn(old)) # 0
        BY <2>2, OneLessOpen
    <2>4. Accurate(batch[b], old)
        BY <1>12, <2>1, AccurateBatches DEF Order
    <2>5. PICK i \in Nat, s \in Nat, m \in Nat :
              i = batch[b].ingested /\ s = batch[b].skipped /\ m = batch[b].read
        BY <1>4 DEF Batch
    <2>6. s = Cardinality(OpenIn(old)) /\ i + s = m
        BY <2>4, <2>5 DEF Accurate
    <2>7. s # 0 /\ Cardinality(OpenIn(after)) = s - 1
        BY <2>3, <2>6
    <2>8. batch'[b].ingested = i + 1 /\ batch'[b].skipped = s - 1 /\ batch'[b].read = m
        BY <1>5, <1>6, <1>11, <2>5, <2>7
    <2>9. (i + 1) + (s - 1) = m
        BY <2>6
    <2> QED
        BY <2>1, <2>7, <2>8, <2>9 DEF Accurate
<1>13. FileLoadedOnce' /\ SkippedAreOpen'
    <2>1. \A c \in Batches : c # b => batch'[c] = batch[c] /\ error'[c] = error[c]
        BY <1>8, <1>11
    <2>2. batch'[b].status = batch[b].status
        BY <1>5, <1>6, <1>11
    <2> QED
        BY <1>11, <1>12, <2>1, <2>2, OneBatchMoves
<1> QED
    BY <1>9, <1>10, <1>13, ReplayKeepsOrder

\* ReplayFailure keeps the order: the error was open and stays open.
LEMMA ReplayFailureOrder ==
    ASSUME TypeInv, Order, OneAtATime', NEW q \in Replayers, ReplayFailure(q)
    PROVE  Order'
<1>0. PICK x : x = First(replay[q].todo)
    OBVIOUS
<1>1. /\ replay[q].pc = "next"
      /\ error' = [error EXCEPT ![x[1]][x[2]] = "open"]
      /\ replay' = [replay EXCEPT ![q] = After(q, x)]
      /\ UNCHANGED <<batch, loader, desk>>
    BY <1>0 DEF ReplayFailure
<1>2. x[1] \in Batches /\ x[2] \in Rows
    BY <1>0, <1>1, ReplayState
<1>3. PICK b \in Batches, n \in Rows : b = x[1] /\ n = x[2]
    BY <1>2
<1>4. \A c \in Batches, k \in Rows :
          error'[c][k] = IF c = b /\ k = n THEN "open" ELSE error[c][k]
    <2>1. Tables
        BY DEF TypeInv
    <2>2. error' = [error EXCEPT ![b][n] = "open"]
        BY <1>1, <1>3
    <2> QED
        BY <2>1, <2>2, SetError
<1>5. \A c \in Batches : c # b => error'[c] = error[c]
    BY <1>1, <1>3 DEF TypeInv, Tables, Batches
<1>6. error[b][n] = "open" /\ ReplayInOrder(error', After(q, x))
    <2>1. OthersUntouched(error', x)
        BY <1>3, <1>4 DEF OthersUntouched
    <2>2. replay[q].pc # "idle"
        BY <1>1
    <2> QED
        BY <1>0, <1>3, <2>1, <2>2, ReplayAtOpen
<1>7. OthersRest(loader', replay', desk', q) /\ replay'[q] = After(q, x)
    BY <1>1, ReplayWorksAlone DEF Order, TypeInv, ReplaysOK
<1>8. FileLoadedOnce' /\ SkippedAreOpen'
    <2>1. Batches' = Batches /\ \A c \in Batches : c # b => batch'[c] = batch[c] /\ error'[c] = error[c]
        BY <1>1, <1>5 DEF Batches
    <2>2. OpenIn(error'[b]) = OpenIn(error[b])
        BY <1>4, <1>6 DEF OpenIn
    <2>3. batch'[b].status = "completed" => Accurate(batch'[b], error'[b])
        BY <1>1, <2>2, AccurateBatches DEF Order, Accurate
    <2> QED
        BY <1>1, <2>1, <2>3, OneBatchMoves
<1> QED
    BY <1>6, <1>7, <1>8, ReplayKeepsOrder

\* ReplayDies keeps the order.
LEMMA ReplayDiesOrder ==
    ASSUME TypeInv, Order, OneAtATime', NEW q \in Replayers, ReplayDies(q)
    PROVE  Order'
<1>1. /\ replay' = [replay EXCEPT ![q] = IdleReplay]
      /\ UNCHANGED <<batch, error, loader, desk>> /\ replay[q].pc # "idle"
    BY DEF ReplayDies
<1>2. OthersRest(loader', replay', desk', q) /\ replay'[q] = IdleReplay
    BY <1>1, ReplayWorksAlone DEF Order, TypeInv, ReplaysOK
<1>3. ReplayInOrder(error', replay'[q])
    BY <1>2, IdleType DEF ReplayInOrder
<1> QED
    BY <1>1, <1>2, <1>3, NothingMoves, ReplayKeepsOrder

---------------------------------------------------------------------------
\* The order holds at first, and commands that take turns keep it.
LEMMA InitOrder == Init => Order
<1> SUFFICES ASSUME Init PROVE Order
    OBVIOUS
<1>1. \A p \in Loaders : loader[p].pc = "idle"
    BY DEF Init, IdleLoader
<1>2. \A q \in Replayers : replay[q].pc = "idle"
    BY IdleType DEF Init
<1>3. \A o \in Operators : desk[o] = NoBatch
    BY DEF Init
<1>4. OneAtATime
    BY <1>1, <1>2, <1>3 DEF OneAtATime, Busy
<1>5. FileLoadedOnce /\ SkippedAreOpen
    BY DEF Init, FileLoadedOnce, SkippedAreOpen, Batches
<1> QED
    BY <1>1, <1>2, <1>3, <1>4, <1>5 DEF Order, LoadInOrder, ReplayInOrder, DeskInOrder

LEMMA LoadOrder ==
    ASSUME TypeInv, Order, OneAtATime', NEW p \in Loaders, Load(p)
    PROVE  Order'
<1>1. ASSUME NEW path \in {"record", "batch"}, NEW again \in Flags, CheckCompleted(p, path, again)
      PROVE  Order'
    BY <1>1, CheckCompletedOrder
<1>2. CASE CheckInFlight(p)
    BY <1>2, CheckInFlightOrder
<1>3. CASE CreateBatch(p)
    BY <1>3, CreateBatchOrder
<1>4. CASE StoreRow(p)
    BY <1>4, StoreRowOrder
<1>5. CASE RecordFailure(p)
    BY <1>5, RecordFailureOrder
<1>6. CASE FinishRecords(p)
    BY <1>6, FinishRecordsOrder
<1>7. ASSUME NEW publish \in BOOLEAN, MarkPublished(p, publish)
      PROVE  Order'
    BY <1>7, MarkPublishedOrder
<1>8. CASE StoreChunk(p)
    BY <1>8, StoreChunkOrder
<1>9. CASE FailLoad(p)
    BY <1>9, FailLoadOrder
<1>10. CASE FinishIngest(p)
    BY <1>10, FinishIngestOrder
<1>11. ASSUME NEW delivered \in BOOLEAN, PublishIngest(p, delivered)
       PROVE  Order'
    BY <1>11, PublishIngestOrder
<1>12. CASE Die(p)
    BY <1>12, DieOrder
<1> QED
    BY <1>1, <1>2, <1>3, <1>4, <1>5, <1>6, <1>7, <1>8, <1>9, <1>10, <1>11, <1>12 DEF Load

LEMMA NextOrder == TypeInv /\ Order /\ [Next /\ OneAtATime']_vars => Order'
<1> SUFFICES ASSUME TypeInv, Order, [Next /\ OneAtATime']_vars PROVE Order'
    OBVIOUS
<1>1. ASSUME OneAtATime', NEW p \in Loaders, Load(p)
      PROVE  Order'
    BY <1>1, LoadOrder
<1>2. ASSUME OneAtATime', NEW o \in Operators, Operate(o)
      PROVE  Order'
    BY <1>2, AbandonOrder, FindRunningOrder DEF Operate
<1>3. ASSUME OneAtATime', NEW q \in Replayers, Reprocess(q)
      PROVE  Order'
    BY <1>3, StartReplayOrder, ReplayRowOrder, MarkReprocessedOrder,
       ReplayFailureOrder, ReplayDiesOrder DEF Reprocess
<1>4. CASE UNCHANGED vars
    <2>1. UNCHANGED <<batch, error, loader, replay, desk>>
        BY <1>4 DEF vars
    <2>2. FileLoadedOnce' /\ SkippedAreOpen'
        BY <2>1, NothingMoves
    <2>3. OneAtATime'
        BY <2>1 DEF Order, OneAtATime, Busy
    <2> QED
        BY <2>1, <2>2, <2>3 DEF Order
<1> QED
    BY <1>1, <1>2, <1>3, <1>4 DEF Next

LEMMA SerialInvariant == SerialSpec => [](TypeInv /\ Order)
<1>1. [Next /\ OneAtATime']_vars => [Next]_vars
    OBVIOUS
<1> QED
    BY <1>1, InitTypeInv, NextTypeInv, InitOrder, NextOrder, PTL DEF SerialSpec

\* When commands take turns, crashes included, a file has one batch that has not
\* failed, unless --allow-reingest asks for more.
THEOREM FilesLoadOnce == SerialSpec => []FileLoadedOnce
<1>1. Order => FileLoadedOnce
    BY DEF Order
<1> QED
    BY <1>1, SerialInvariant, PTL

\* When commands take turns the counters of a completed batch agree with its open
\* errors, through every failure, replay and crash in between.
THEOREM SkippedRowsAreOpen == SerialSpec => []SkippedAreOpen
<1>1. Order => SkippedAreOpen
    BY DEF Order
<1> QED
    BY <1>1, SerialInvariant, PTL

---------------------------------------------------------------------------
(* Who writes a status.                                                    *)

VerdictsKept == \A b \in Batches : batch[b].status # "running" => batch'[b].status = batch[b].status

\* No batch is written, or one that is running, or its status is not.
LEMMA NoVerdict ==
    ASSUME UNCHANGED batch
    PROVE  VerdictsKept
BY DEF VerdictsKept

LEMMA OneVerdict ==
    ASSUME TypeInv, NEW b \in Batches, NEW row, batch' = [batch EXCEPT ![b] = row],
           batch[b].status = "running" \/ row.status = batch[b].status
    PROVE  VerdictsKept
<1>1. \A c \in Batches : batch'[c] = IF c = b THEN row ELSE batch[c]
    BY DEF TypeInv, Tables, Batches
<1> QED
    BY <1>1 DEF VerdictsKept

\* A load gives its verdict on the batch it has in progress.
LEMMA LoadVerdict ==
    ASSUME TypeInv, Order, NEW p \in Loaders, Load(p)
    PROVE  VerdictsKept
<1>1. CASE UNCHANGED batch
    BY <1>1, NoVerdict
<1>2. CASE CreateBatch(p)
    BY <1>2, CreateBatchType DEF VerdictsKept
<1>3. loader[p].pc \in {"loading", "closing"} =>
          loader[p].batch \in Batches /\ batch[loader[p].batch].status = "running"
    BY LoadInProgress
<1>4. ASSUME NEW publish \in BOOLEAN, MarkPublished(p, publish)
      PROVE  VerdictsKept
    <2>1. loader[p].pc \in {"loading", "closing"}
        BY <1>4 DEF MarkPublished, Loading
    <2>2. PICK row : batch' = [batch EXCEPT ![loader[p].batch] = row]
        BY <1>4 DEF MarkPublished
    <2> QED
        BY <1>3, <2>1, <2>2, OneVerdict
<1>5. CASE FinishRecords(p)
    <2>1. loader[p].pc \in {"loading", "closing"}
        BY <1>5 DEF FinishRecords
    <2>2. PICK row : batch' = [batch EXCEPT ![loader[p].batch] = row]
        BY <1>5 DEF FinishRecords
    <2> QED
        BY <1>3, <2>1, <2>2, OneVerdict
<1>6. CASE FailLoad(p)
    <2>1. loader[p].pc \in {"loading", "closing"}
        BY <1>6 DEF FailLoad, Loading
    <2>2. PICK row : batch' = [batch EXCEPT ![loader[p].batch] = row]
        BY <1>6 DEF FailLoad
    <2> QED
        BY <1>3, <2>1, <2>2, OneVerdict
<1>7. CASE FinishIngest(p)
    <2>1. loader[p].pc \in {"loading", "closing"}
        BY <1>7 DEF FinishIngest, Loading
    <2>2. PICK row : batch' = [batch EXCEPT ![loader[p].batch] = row]
        BY <1>7 DEF FinishIngest
    <2> QED
        BY <1>3, <2>1, <2>2, OneVerdict
<1>8. ASSUME NEW delivered \in BOOLEAN, PublishIngest(p, delivered)
      PROVE  VerdictsKept
    <2> DEFINE b == loader[p].batch
               row == [batch[b] EXCEPT !.published = @ \/ delivered]
    <2>1. b \in Batches /\ batch' = [batch EXCEPT ![b] = row]
        BY <1>8, LoadState DEF PublishIngest, Live
    <2>2. batch[b] \in Batch
        BY <2>1, RowsOf DEF TypeInv
    <2>3. row.status = batch[b].status
        BY <2>2 DEF Batch
    <2> HIDE DEF row
    <2> QED
        BY <2>1, <2>3, OneVerdict
<1> QED
    BY <1>1, <1>2, <1>4, <1>5, <1>6, <1>7, <1>8
       DEF Load, CheckCompleted, CheckInFlight, StoreRow, RecordFailure, StoreChunk, Die

\* An operator fails the batch that is on the desk.
LEMMA OperateVerdict ==
    ASSUME TypeInv, Order, NEW o \in Operators, Operate(o)
    PROVE  VerdictsKept
<1>1. CASE UNCHANGED batch
    BY <1>1, NoVerdict
<1>2. CASE Abandon(o)
    <2>1. desk[o] \in Batches /\ batch[desk[o]].status = "running"
        BY <1>2 DEF Abandon, TypeInv, DesksOK, Tables, Batches, NoBatch, Order, DeskInOrder
    <2>2. PICK row : batch' = [batch EXCEPT ![desk[o]] = row]
        BY <1>2 DEF Abandon
    <2> QED
        BY <2>1, <2>2, OneVerdict
<1> QED
    BY <1>1, <1>2 DEF Operate, FindRunning

\* A replay counts the row and leaves the status.
LEMMA ReprocessVerdict ==
    ASSUME TypeInv, NEW q \in Replayers, Reprocess(q)
    PROVE  VerdictsKept
<1>1. CASE UNCHANGED batch
    BY <1>1, NoVerdict
<1>2. CASE MarkReprocessed(q)
    <2> DEFINE x == First(replay[q].todo)
               row == [batch[x[1]] EXCEPT !.ingested = @ + 1,
                                          !.skipped = IF @ = 0 THEN 0 ELSE @ - 1]
    <2>1. x[1] \in Batches /\ batch' = [batch EXCEPT ![x[1]] = row]
        BY <1>2, ReplayState DEF MarkReprocessed
    <2>2. batch[x[1]] \in Batch
        BY <2>1, RowsOf DEF TypeInv
    <2>3. row.status = batch[x[1]].status
        BY <2>2 DEF Batch
    <2> HIDE DEF row, x
    <2> QED
        BY <2>1, <2>3, OneVerdict
<1> QED
    BY <1>1, <1>2 DEF Reprocess, StartReplay, ReplayRow, ReplayFailure, ReplayDies

\* When commands take turns no step gives another verdict on a batch that has ended.
THEOREM VerdictsStand == SerialSpec => VerdictStands
<1>1. TypeInv /\ Order /\ [Next /\ OneAtATime']_vars => VerdictsKept
    BY NoVerdict, LoadVerdict, OperateVerdict, ReprocessVerdict DEF Next, vars
<1>2. TypeInv /\ Order /\ [Next /\ OneAtATime']_vars
          => [\A b \in Batches : batch[b].status # "running"
                  => batch'[b].status = batch[b].status]_vars
    BY <1>1 DEF VerdictsKept
<1> QED
    BY <1>2, SerialInvariant, PTL DEF SerialSpec, VerdictStands

===========================================================================
