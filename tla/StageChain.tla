----------------------------- MODULE StageChain -----------------------------
(***************************************************************************)
(* The five consumers that move a batch from batch.ingested to             *)
(* golden.updated.  Each reads one topic, does the work of its stage in     *)
(* many transactions, publishes a reference to the batch and then commits  *)
(* its offset: at-least-once delivery.  A stage that refuses a batch skips *)
(* the message; any other exception ends the process, which the container  *)
(* runtime starts again at the last committed offset.  An operator may run *)
(* any stage by hand, which publishes nothing.                             *)
(*                                                                         *)
(* A message is the reference that it carries.  A stage commits its work a *)
(* record at a time here (2000 observations, 500 verdicts, one record and  *)
(* one entity in the code): what matters is that it takes many commits.    *)
(* What validation finds changes with the mappings and the rules, and      *)
(* people decide on what is quarantined, in one step here.                 *)
(***************************************************************************)
EXTENDS Naturals, Sequences, FiniteSets

CONSTANTS
  Batches, Records, Layouts, Partitions,
  BatchOf,      \* the batch of a record
  LayoutOf,     \* the column layout of a batch
  Doubtful,     \* the records that validation can find invalid
  Failing,      \* those that it finds invalid at first
  PartitionOf,  \* topic and batch to partition: the hash of the message's key
  Cli,          \* the operator's command
  MaxFailures,  \* bound: processes that end before their message is done
  MaxCommands   \* bound: commands, decisions and changes of mappings or rules

ASSUME ChainAssumption ==
  /\ BatchOf \in [Records -> Batches]
  /\ LayoutOf \in [Batches -> Layouts]
  /\ Failing \subseteq Doubtful /\ Doubtful \subseteq Records
  /\ MaxFailures \in Nat
  /\ MaxCommands \in Nat

Stages == {"mapping", "normalization", "validation", "resolution", "golden"}

ASSUME CliIsNoConsumer == Cli \notin Stages

\* The topic a consumer subscribes to, and the one it publishes on.
Consumes ==
  [mapping |-> "batch.ingested", normalization |-> "schema.mapped",
   validation |-> "records.normalized", resolution |-> "records.validated",
   golden |-> "entities.resolved"]

Produces ==
  [mapping |-> "schema.mapped", normalization |-> "records.normalized",
   validation |-> "records.validated", resolution |-> "entities.resolved",
   golden |-> "golden.updated"]

Topics ==
  {"batch.ingested", "schema.mapped", "records.normalized",
   "records.validated", "entities.resolved", "golden.updated"}

ASSUME PartitionAssumption == PartitionOf \in [Topics -> [Batches -> Partitions]]

VARIABLES
  ingest,     \* per batch: where its ingestion is
  log,        \* per topic and partition: the messages, as batches
  offset,     \* per stage and partition: the committed offset
  position,   \* per stage and partition: how far the running consumer has read
  worker,     \* per consumer, and the operator's command: what it is doing
  schemas,    \* the layouts that have a source_schema
  observed, judged, linked, built,  \* the records each stage has committed
  flawed,     \* the records that validation would find invalid now
  invalid,    \* the records whose verdict is invalid
  item,       \* per record: the status of its quarantine item
  failures, commands

tables == <<schemas, observed, judged, linked, built>>
verdicts == <<flawed, invalid, item>>
broker == <<log, offset>>
vars == <<ingest, log, offset, position, worker, schemas, observed, judged,
          linked, built, flawed, invalid, item, failures, commands>>

Idle == [pc |-> "down"]

Polling == [pc |-> "polling"]

Statuses == {"none", "open", "released", "rejected", "resolved"}

NoItems == [r \in Records |-> "none"]

\* Validation reads the items of its batch when it begins (quarantine_items_for_batch).
Working(s, b, todo) ==
  [pc |-> "working", stage |-> s, batch |-> b, todo |-> todo,
   seen |-> IF s = "validation" THEN item ELSE NoItems]

At(w, pc) == worker[w].pc = pc

Does(w, s) == At(w, "working") /\ worker[w].stage = s

RowsOf(b) == {r \in Records : BatchOf[r] = b}

\* The messages of a topic, whichever partition they are in.
Sent(t) == {b \in Batches : \E p \in Partitions : \E i \in DOMAIN log[t][p] : log[t][p][i] = b}

\* An event refers to its batch, and nothing else of it decides what a stage does.
BatchEvent(b) == [topic |-> "batch.ingested", batch |-> b]

StageEvent(s, b) == [topic |-> Produces[s], batch |-> b]

Send(e) == [log EXCEPT ![e.topic][PartitionOf[e.topic][e.batch]] = Append(@, e.batch)]

Init ==
  /\ ingest = [b \in Batches |-> "loading"]
  /\ log = [t \in Topics |-> [p \in Partitions |-> <<>>]]
  /\ offset = [s \in Stages |-> [p \in Partitions |-> 0]]
  /\ position = offset
  /\ worker = [w \in Stages \cup {Cli} |-> IF w = Cli THEN Idle ELSE Polling]
  /\ schemas = {}
  /\ observed = {} /\ judged = {} /\ linked = {} /\ built = {}
  /\ flawed = Failing /\ invalid = {} /\ item = NoItems
  /\ failures = 0 /\ commands = 0

-----------------------------------------------------------------------------
(* Ingestion announces a batch once its rows are committed.                *)

FinishBatch(b) ==
  /\ ingest[b] = "loading"
  /\ ingest' = [ingest EXCEPT ![b] = "completed"]
  /\ UNCHANGED <<tables, broker, position, worker, verdicts, failures, commands>>

Announce(b) ==
  /\ ingest[b] = "completed"
  /\ ingest' = [ingest EXCEPT ![b] = "announced"]
  /\ log' = Send(BatchEvent(b))
  /\ UNCHANGED <<tables, offset, position, worker, verdicts, failures, commands>>

MarkPublished(b) ==
  /\ ingest[b] = "announced"
  /\ ingest' = [ingest EXCEPT ![b] = "published"]
  /\ UNCHANGED <<tables, broker, position, worker, verdicts, failures, commands>>

\* The broker is away, or it has the event and the process dies before it
\* can say so: events_published_at stays NULL in both cases.
LeaveUnpublished(b) ==
  /\ ingest[b] \in {"completed", "announced"}
  /\ failures < MaxFailures
  /\ failures' = failures + 1
  /\ ingest' = [ingest EXCEPT ![b] = "unpublished"]
  /\ UNCHANGED <<tables, broker, position, worker, verdicts, commands>>

-----------------------------------------------------------------------------
(* What each stage refuses, and the work it finds when it does not.        *)

Completed(b) == ingest[b] # "loading"

\* Faulty: reads the records and not the view that knows of quarantine.
FaultyResolvable(b) == (RowsOf(b) \cap judged) \ linked

\* The view resolvable_record: cleared by validation or released, and not rejected.
LetThrough(r) == item[r] # "rejected" /\ (r \in invalid => item[r] = "released")

\* What a run of resolution lists: let through, and not linked yet.
Resolvable(b) == {r \in RowsOf(b) \cap judged : LetThrough(r)} \ linked

\* The reader records the columns of every file, so a batch without rows has a
\* layout too, and is first refused by validation.
MappingRefuses(b) == ~Completed(b)

NormalizationRefuses(b) == ~Completed(b) \/ LayoutOf[b] \notin schemas

ValidationRefuses(b) == ~Completed(b) \/ RowsOf(b) \cap observed = {}

ResolutionRefuses(b) == ~Completed(b) \/ Resolvable(b) = {}

NothingToBuild(b) == RowsOf(b) \cap linked = {}

Refuses(s, b) ==
  \/ s = "mapping" /\ MappingRefuses(b)
  \/ s = "normalization" /\ NormalizationRefuses(b)
  \/ s = "validation" /\ ValidationRefuses(b)
  \/ s = "resolution" /\ ResolutionRefuses(b)
  \/ s = "golden" /\ NothingToBuild(b)

WorkList(s, b) ==
  CASE s = "mapping" -> {}
    [] s = "normalization" -> RowsOf(b)
    [] s = "validation" -> RowsOf(b) \cap observed
    [] s = "resolution" -> Resolvable(b)
    [] s = "golden" -> RowsOf(b) \cap linked

-----------------------------------------------------------------------------
(* The work of a stage, in a consumer or in a command.  w has read its     *)
(* work list; each step commits one record of it.                          *)

TakeOff(w, r) == worker' = [worker EXCEPT ![w].todo = @ \ {r}]

\* When nothing is left a consumer publishes; a command is over.
FinishWork(w) ==
  worker' = [worker EXCEPT ![w] =
               IF w = Cli THEN Idle ELSE [@ EXCEPT !.pc = "publishing", !.seen = NoItems]]

Unmoved == UNCHANGED <<ingest, broker, position, failures, commands>>

Map(w) ==
  /\ Does(w, "mapping")
  /\ schemas' = schemas \cup {LayoutOf[worker[w].batch]}
  /\ FinishWork(w)
  /\ UNCHANGED <<observed, judged, linked, built, verdicts>>
  /\ Unmoved

Normalize(w) ==
  /\ Does(w, "normalization")
  /\ \E r \in worker[w].todo : observed' = observed \cup {r} /\ TakeOff(w, r)
  /\ UNCHANGED <<schemas, judged, linked, built, verdicts>>
  /\ Unmoved

\* route: the status that a verdict gives an item that was read with this one, and "kept"
\* where it writes none.  What was accepted is not reopened unless the reasons differ.
Route(status, bad) ==
  CASE status = "rejected" -> {"kept"}
    [] ~bad -> IF status \in {"open", "released"} THEN {"resolved"} ELSE {"kept"}
    [] bad /\ status \in {"none", "resolved"} -> {"open"}
    [] OTHER -> {"kept", "open"}

\* The verdict and its consequence for the item, in one transaction.
Judge(r, to) ==
  /\ judged' = judged \cup {r}
  /\ invalid' = (invalid \ {r}) \cup (flawed \cap {r})
  /\ item' = IF to = "kept" THEN item ELSE [item EXCEPT ![r] = to]

Validate(w) ==
  /\ Does(w, "validation")
  /\ \E r \in worker[w].todo :
       /\ \E to \in Route(worker[w].seen[r], r \in flawed) : Judge(r, to)
       /\ TakeOff(w, r)
  /\ UNCHANGED <<schemas, observed, linked, built, flawed>>
  /\ Unmoved

Resolve(w) ==
  /\ Does(w, "resolution")
  /\ \E r \in worker[w].todo : linked' = linked \cup {r} /\ TakeOff(w, r)
  /\ UNCHANGED <<schemas, observed, judged, built, verdicts>>
  /\ Unmoved

Build(w) ==
  /\ Does(w, "golden")
  /\ \E r \in worker[w].todo : built' = built \cup {r} /\ TakeOff(w, r)
  /\ UNCHANGED <<schemas, observed, judged, linked, verdicts>>
  /\ Unmoved

\* Faulty: ends after a commit, whether or not there is more to do.
FaultyStageOver(w) ==
  /\ At(w, "working")
  /\ worker[w].stage # "mapping"
  /\ FinishWork(w)
  /\ UNCHANGED <<tables, verdicts>>
  /\ Unmoved

StageOver(w) ==
  /\ At(w, "working")
  /\ worker[w].stage # "mapping"
  /\ worker[w].todo = {}
  /\ FinishWork(w)
  /\ UNCHANGED <<tables, verdicts>>
  /\ Unmoved

-----------------------------------------------------------------------------
(* The loop of a consumer.                                                 *)

\* Faulty: starts after the message that the process died on.
FaultyRestart(s) ==
  /\ At(s, "down")
  /\ worker' = [worker EXCEPT ![s] = Polling]
  /\ position' = [position EXCEPT ![s] = [p \in Partitions |-> @[p] + 1]]
  /\ UNCHANGED <<ingest, broker, tables, verdicts, failures, commands>>

\* restart: unless-stopped, and auto.offset.reset: earliest.
Restart(s) ==
  /\ At(s, "down")
  /\ worker' = [worker EXCEPT ![s] = Polling]
  /\ position' = [position EXCEPT ![s] = offset[s]]
  /\ UNCHANGED <<ingest, broker, tables, verdicts, failures, commands>>

\* Faulty: enable.auto.commit, which commits what has been handed out.
FaultyPoll(s, p) ==
  /\ At(s, "polling")
  /\ position[s][p] < Len(log[Consumes[s]][p])
  /\ LET b == log[Consumes[s]][p][position[s][p] + 1]
     IN  worker' = [worker EXCEPT ![s] =
                      IF Refuses(s, b)
                      THEN [Working(s, b, {}) EXCEPT !.pc = "committing"]
                      ELSE Working(s, b, WorkList(s, b))]
  /\ position' = [position EXCEPT ![s][p] = @ + 1]
  /\ offset' = position'
  /\ UNCHANGED <<ingest, log, tables, verdicts, failures, commands>>

\* Faulty: a refusal ends the process like any other exception.
FaultyRefusal(s, p) ==
  /\ At(s, "polling")
  /\ position[s][p] < Len(log[Consumes[s]][p])
  /\ LET b == log[Consumes[s]][p][position[s][p] + 1]
     IN  worker' = [worker EXCEPT ![s] =
                      IF Refuses(s, b) THEN Idle ELSE Working(s, b, WorkList(s, b))]
  /\ position' = [position EXCEPT ![s][p] = @ + 1]
  /\ UNCHANGED <<ingest, broker, tables, verdicts, failures, commands>>

\* The next message of a partition: a batch that the stage refuses is skipped.
Poll(s, p) ==
  /\ At(s, "polling")
  /\ position[s][p] < Len(log[Consumes[s]][p])
  /\ LET b == log[Consumes[s]][p][position[s][p] + 1]
     IN  worker' = [worker EXCEPT ![s] =
                      IF Refuses(s, b)
                      THEN [Working(s, b, {}) EXCEPT !.pc = "committing"]
                      ELSE Working(s, b, WorkList(s, b))]
  /\ position' = [position EXCEPT ![s][p] = @ + 1]
  /\ UNCHANGED <<ingest, broker, tables, verdicts, failures, commands>>

\* Faulty: a flush that times out is taken for one that succeeded.
FaultyDeliver(s) ==
  /\ At(s, "publishing")
  /\ \/ log' = Send(StageEvent(s, worker[s].batch)) /\ UNCHANGED failures
     \/ failures < MaxFailures /\ failures' = failures + 1 /\ UNCHANGED log
  /\ worker' = [worker EXCEPT ![s].pc = "committing"]
  /\ UNCHANGED <<ingest, offset, position, tables, verdicts, commands>>

\* publish, and a flush that the broker acknowledged.
Deliver(s) ==
  /\ At(s, "publishing")
  /\ log' = Send(StageEvent(s, worker[s].batch))
  /\ worker' = [worker EXCEPT ![s].pc = "committing"]
  /\ UNCHANGED <<ingest, offset, position, tables, verdicts, failures, commands>>

\* consumer.commit(message, asynchronous=False).
Commit(s) ==
  /\ At(s, "committing")
  /\ LET p == PartitionOf[Consumes[s]][worker[s].batch]
     IN  offset' = [offset EXCEPT ![s][p] = position[s][p]]
  /\ worker' = [worker EXCEPT ![s] = Polling]
  /\ UNCHANGED <<ingest, log, position, tables, verdicts, failures, commands>>

\* A crash, a signal, or an exception that is no refusal: nothing is committed.
Fail(s) ==
  /\ ~At(s, "down")
  /\ failures < MaxFailures
  /\ failures' = failures + 1
  /\ worker' = [worker EXCEPT ![s] = Idle]
  /\ UNCHANGED <<ingest, broker, position, tables, verdicts, commands>>

\* DeliveryFailed after a timeout: the broker may have the event all the same.
DeliverUnnoticed(s) ==
  /\ At(s, "publishing")
  /\ failures < MaxFailures
  /\ failures' = failures + 1
  /\ log' = Send(StageEvent(s, worker[s].batch))
  /\ worker' = [worker EXCEPT ![s] = Idle]
  /\ UNCHANGED <<ingest, offset, position, tables, verdicts, commands>>

\* What a running consumer does, whichever stage it is.
Loop(s) ==
  \/ Restart(s)
  \/ \E p \in Partitions : Poll(s, p)
  \/ Deliver(s)
  \/ Commit(s)

MappingConsumer == Loop("mapping") \/ Map("mapping")

NormalizationConsumer ==
  Loop("normalization") \/ Normalize("normalization") \/ StageOver("normalization")

ValidationConsumer ==
  Loop("validation") \/ Validate("validation") \/ StageOver("validation")

ResolutionConsumer ==
  Loop("resolution") \/ Resolve("resolution") \/ StageOver("resolution")

GoldenConsumer == Loop("golden") \/ Build("golden") \/ StageOver("golden")

Failures == \E s \in Stages : Fail(s) \/ DeliverUnnoticed(s)

-----------------------------------------------------------------------------
(* People: decisions, mappings and rules, stages that are run by hand.     *)

\* review: a release, a rejection, or the item is opened again.
Decide(r, to) ==
  /\ item[r] \notin {"none", to}
  /\ item[r] = "resolved" => to = "open"
  /\ commands < MaxCommands
  /\ commands' = commands + 1
  /\ item' = [item EXCEPT ![r] = to]
  /\ UNCHANGED <<ingest, broker, position, tables, flawed, invalid, worker, failures>>

\* A mapping is reviewed or the rules are changed: validation would find otherwise.
Reconsider(r) ==
  /\ r \in Doubtful
  /\ commands < MaxCommands
  /\ commands' = commands + 1
  /\ flawed' = IF r \in flawed THEN flawed \ {r} ELSE flawed \cup {r}
  /\ UNCHANGED <<ingest, broker, position, tables, invalid, item, worker, failures>>

Command(s, b) ==
  /\ At(Cli, "down")
  /\ commands < MaxCommands
  /\ commands' = commands + 1
  /\ ~Refuses(s, b)
  /\ worker' = [worker EXCEPT ![Cli] = Working(s, b, WorkList(s, b))]
  /\ UNCHANGED <<ingest, broker, position, tables, verdicts, failures>>

CommandWorks ==
  Map(Cli) \/ Normalize(Cli) \/ Validate(Cli) \/ Resolve(Cli) \/ Build(Cli) \/ StageOver(Cli)

\* Ctrl-C.
CommandDies ==
  /\ At(Cli, "working")
  /\ failures < MaxFailures
  /\ failures' = failures + 1
  /\ worker' = [worker EXCEPT ![Cli] = Idle]
  /\ UNCHANGED <<ingest, broker, position, tables, verdicts, commands>>

-----------------------------------------------------------------------------
Ingestion ==
  \E b \in Batches : FinishBatch(b) \/ Announce(b) \/ MarkPublished(b) \/ LeaveUnpublished(b)

Consumers ==
  \/ MappingConsumer \/ NormalizationConsumer \/ ValidationConsumer
  \/ ResolutionConsumer \/ GoldenConsumer

People ==
  \/ \E r \in Records, to \in {"open", "released", "rejected"} : Decide(r, to)
  \/ \E r \in Records : Reconsider(r)
  \/ \E s \in Stages, b \in Batches : Command(s, b)
  \/ CommandWorks
  \/ CommandDies

Next == Ingestion \/ Consumers \/ Failures \/ People

Spec == Init /\ [][Next]_vars

(***************************************************************************)
(* A container that ends is started again, and a running consumer goes on. *)
(* Nothing is promised of ingestion, of failures or of people.             *)
(***************************************************************************)
FairSpec ==
  /\ Spec
  /\ WF_vars(MappingConsumer)
  /\ WF_vars(NormalizationConsumer)
  /\ WF_vars(ValidationConsumer)
  /\ WF_vars(ResolutionConsumer)
  /\ WF_vars(GoldenConsumer)

-----------------------------------------------------------------------------
(* Properties.                                                             *)

JobOf(w) ==
  IF w = Cli
  THEN [pc : {"working"}, stage : Stages, batch : Batches, todo : SUBSET Records,
        seen : [Records -> Statuses]]
  ELSE [pc : {"working", "publishing", "committing"}, stage : {w}, batch : Batches,
        todo : SUBSET Records, seen : [Records -> Statuses]]

\* The tables, logs and offsets have their types, no consumer is past the end
\* of its topic or behind what it committed, and a message is in the
\* partition of its key.
TypeOK ==
  /\ ingest \in [Batches -> {"loading", "completed", "announced", "published", "unpublished"}]
  /\ log \in [Topics -> [Partitions -> Seq(Batches)]]
  /\ \A t \in Topics, p \in Partitions : \A i \in DOMAIN log[t][p] :
       PartitionOf[t][log[t][p][i]] = p
  /\ offset \in [Stages -> [Partitions -> Nat]]
  /\ position \in [Stages -> [Partitions -> Nat]]
  /\ \A s \in Stages, p \in Partitions :
       offset[s][p] <= position[s][p] /\ position[s][p] <= Len(log[Consumes[s]][p])
  /\ DOMAIN worker = Stages \cup {Cli}
  /\ \A w \in Stages \cup {Cli} : worker[w] \in {Idle, Polling} \cup JobOf(w)
  /\ worker[Cli] # Polling
  /\ schemas \subseteq Layouts
  /\ observed \subseteq Records /\ judged \subseteq Records
  /\ linked \subseteq Records /\ built \subseteq Records
  /\ flawed \subseteq Doubtful /\ invalid \subseteq judged
  /\ item \in [Records -> Statuses]
  /\ failures \in 0..MaxFailures
  /\ commands \in 0..MaxCommands

\* The records that nothing can hold back.
Cleared(b) == RowsOf(b) \ Doubtful

\* What a stage has to leave behind for a batch.
Complete(s, b) ==
  CASE s = "mapping" -> LayoutOf[b] \in schemas
    [] s = "normalization" -> RowsOf(b) \subseteq observed
    [] s = "validation" -> RowsOf(b) \subseteq judged
    [] s = "resolution" -> Cleared(b) \subseteq linked
    [] s = "golden" -> Cleared(b) \subseteq built

\* An event never runs ahead of its data: whoever reads one finds every row
\* that it is about committed, by every stage before it.  Nor does the receipt
\* run ahead of the event: a batch with events_published_at was announced.
EventsFollowData ==
  /\ \A b \in Sent("batch.ingested") : Completed(b)
  /\ \A s \in Stages : \A b \in Sent(Produces[s]) : Complete(s, b)
  /\ \A b \in Batches : ingest[b] = "published" => b \in Sent("batch.ingested")

\* A committed offset is a promise kept: whether the message was handled,
\* handled twice or skipped as refused, the stage's work on its batch is
\* complete, and no crash between work, publication and commit breaks that.
AckMeansDone ==
  \A s \in Stages, p \in Partitions : \A i \in 1..offset[s][p] :
    Complete(s, log[Consumes[s]][p][i])

\* Where a record is on its way.
Place(r) ==
  CASE r \in built -> 4
    [] r \in linked \ built -> 3
    [] r \in judged \ (linked \cup built) -> 2
    [] r \in observed \ (judged \cup linked \cup built) -> 1
    [] OTHER -> 0

\* Judged, and not let through.
Held == {r \in judged : ~LetThrough(r)}

\* The records on the lists of the runs of resolution.
Due == {r \in Records : \E w \in Stages \cup {Cli} : Does(w, "resolution") /\ r \in worker[w].todo}

Journey == INSTANCE RecordJourney
  WITH place <- [r \in Records |-> Place(r)], held <- Held, due <- Due

\* Over crashes, redeliveries, commands, verdicts that change and decisions that are
\* taken back, each record takes the steps of its journey one by one, never goes back,
\* and is linked only by a run that listed it while quarantine let it through.
ChainIsAJourney == Journey!Spec

\* "rejected : a human confirmed it is unusable (kept forever, never resolved)"
\* (0005_quarantine.sql): a record is not linked while quarantine holds it.  The list
\* of a run is not checked again, so a later verdict or decision comes too late.
NeverLinkedWhileHeld == [][linked' \cap Held \subseteq linked]_vars

\* The chain catches up: again and again there comes a time when every
\* consumer has handled every message of every partition.  No stage stops for
\* good while failures are transient, and none handles a message for ever.
ChainCatchesUp ==
  []<>(\A s \in Stages, p \in Partitions : offset[s][p] = Len(log[Consumes[s]][p]))

Shown(b) == Cleared(b) \subseteq built

\* Resolution's work on the batch was finished by a run that did not live to
\* publish it, or by hand, and its messages are skipped.
Silenced(b) ==
  /\ Cleared(b) \subseteq linked
  /\ b \notin Sent("entities.resolved")
  /\ b \in Sent("records.validated")
  /\ \A p \in Partitions : \A i \in DOMAIN log["records.validated"][p] :
       log["records.validated"][p][i] = b => i <= offset["resolution"][p]

\* A batch that was announced is shown in the golden record, or resolution
\* finished it without a word and it waits for a command.  No other failure,
\* wherever it strikes, loses a batch.
AnnouncedIsShownOrSilenced ==
  \A b \in Batches :
    (b \in Sent("batch.ingested")) ~> (Shown(b) \/ Silenced(b))

\* "Reprocessing is safe" (resolution/consumer.py): a batch that was
\* announced is shown in the golden record whatever fails on the way.
AnnouncedIsShown ==
  \A b \in Batches : (b \in Sent("batch.ingested")) ~> Shown(b)

=============================================================================
