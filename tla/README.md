# Verification of the People and Company Data Foundation

Files of vendors become records, records become people and companies, and each
of those has one trusted value per field. This directory holds TLA+ models of
the parts of that pipeline where steps of several actors meet, the TLC runs
that check them on small instances, and TLAPS proofs of what holds on every
instance. `PROJECT.json` lists, for each definition of the models, the lines of
code it stands for.

## The system

| Component | State | Operations | What makes it hard |
|---|---|---|---|
| Ingestion (`services/ingestion`) | `source`, `batch`, `raw_record` | guards against loading a file twice, create batch, store chunks, finish or fail, announce | check and insert are separate transactions; chunks commit one by one; the announcement may fail after the commit |
| Record pipeline (`services/pipeline`) | the same, and `record_error` | one row at a time through all stages in one transaction; failed rows kept; `reprocess`; `abandon` | crash between any two commits; replays against a live batch and each other; counters set by one actor and incremented by another |
| Schema mapping (`services/mapping`) | `source_schema`, `column_mapping` | score columns, settle collisions, reuse a known layout, human review | two batches of one new layout; reviews beside the engine's collision rule |
| Normalization (`services/normalization`) | `attribute_observation` | label, split and upsert the cells of a batch, part by part | a mapping read once and used for many commits; runs that die half-way |
| Validation and quarantine (`services/validation`) | `validation_result`, `record_validation`, `quarantine_item`, `quarantine_event` | judge a batch, route verdicts into quarantine, review (release, reject, reopen) | routing from a snapshot read once; unlocked read-then-update of reviewers; verdict and item must move together |
| Entity resolution (`services/resolution`) | `entity`, `entity_identity_key`, `record_entity_link`, `match_candidate`, `entity_merge` | look up, score, decide, link or create, file a candidate, accept (merge), reject; `reblock --merge` | lookup and write are two steps with no lock; merges leave tombstones that others still point at; groups that overlap |
| Employers (`resolution/employer.py`) | the same, `entity_relationship` | read an employer out of a person row, link the row to it as well, relate the two | one row has two subjects; merges move links and keys but no relationship |
| Golden record (`services/golden`) | `golden_attribute` | build the trusted values of an entity under a row lock | row locks, foreign-key locks, `now()` fixed at the start of a transaction, index and CHECK as last defence, merges |
| Stage chain (five `consumer.py`, `libs/common/kafka.py`) | Kafka logs and offsets | consume, handle, publish, commit the offset; skip what is refused, exit on the rest | at-least-once delivery, crashes between work, event and offset, messages skipped on redelivery |
| Migrations (`libs/common/migrations.py`) | `schema_migrations` | check the release, apply what is pending | several migrators at once, with different releases |
| Read API, lineage, metrics, alerts | none of their own | queries | tombstone walks |
| Infrastructure and other tools | none of their own | deployment, maintenance on a quiet database | |

How they interact: a batch moves through the stages by an event per stage
(`batch.ingested`, `schema.mapped`, `records.normalized`, `records.validated`,
`entities.resolved`, `golden.updated`); all data passes through Postgres tables
read by the next stage. The record pipeline does the same work in one process
and one transaction per record. Both paths share the tables, so consumers,
CLIs, record runs, reviewers and stewards can all act on the same rows. Nothing
uses an isolation level above READ COMMITTED, and the only explicit row lock is
`lock_entity` in the golden stage.

For each component, the properties that make it correct:

- *Batches*: every row of a completed batch is there or has an open error; a
  batch claims no row it does not hold; a file is loaded once; a verdict on a
  batch stands.
- *Mapping and normalization*: the engine confirms no field of a subject twice; a
  reviewer's decision stands; no guess becomes an observation, and a review reaches
  what was normalized before it.
- *Quarantine*: an invalid record is never unquarantined; the history that is shown
  ends at the item; people's decisions stand.
- *Resolution*: only a strong key links by itself; identity never splits; every
  id ever handed out resolves; a survivor has all keys of its records.
- *Employers*: an employment is backed by the record it cites; the two halves of one
  company meet where their keys are clear; a link's role matches the entity it points at.
- *Golden record*: one current value per field; history that can be walked; the
  published value is what the records say, and its explanation agrees with it.
- *Stage chain*: no event refers to what is not committed; what is acknowledged is
  done; a batch that is announced is eventually shown.
- *Migrations*: what is recorded is what was run, once and whole, and it is what the
  runs that succeeded brought.

## The modules

| Module | Models |
|---|---|
| `Quarantine` | the quarantine lifecycle: batch re-validation, the record path, reviewers |
| `MatchScore` | what shared keys are worth, and the decision on it |
| `EntityResolution` | runs, stewards and the reblock tool over entities, links, candidates, tombstones |
| `IdentityClusters` | what resolution promises: clusters of records that only grow or join |
| `EmployerResolution` | the second subject of a person row, and the relationship between the two |
| `BatchLifecycle` | loads, failed rows, replays and abandons of the batches of one file |
| `GoldenRecord` | transactions that link records and build trusted values; merges |
| `TrustedValues` | what a golden record promises: recomputed as a whole, stale only while a build is due |
| `StageChain` | the five consumers, their topics and offsets, commands run by hand |
| `RecordJourney` | what the chain promises each record: its stages in order, never back, linked only if it was let through when it was listed |
| `ColumnMapping` | the decision for each column of a layout, as operators |
| `SchemaMapping` | the stored mapping under mappers, reviewers and normalizers |
| `Migrations` | migrators with releases of migration files on one database |
| `QuarantineProofs`, `EntityProofs`, `EmployerProofs`, `BatchProofs`, `GoldenProofs`, `ChainProofs`, `MappingProofs`, `MigrationProofs` | theorems about the component of that name |
| `MC*` | instances of these for TLC |

`StageChain` implements `RecordJourney`, `GoldenRecord` implements `TrustedValues`, and
`EntityResolution` implements `IdentityClusters`, each by an INSTANCE with a
refinement mapping. `EntityResolution` and `EmployerResolution` share `MatchScore`;
`SchemaMapping` is `ColumnMapping` with a database and several actors.

A module is written as a set of processes, each with a local state (`run`,
`desk`, `loader`, `txn`, `worker`, ...), whose actions are the transactions of the
code: what is read in one transaction and written in a later one is two actions, and
anything may happen between. A crash is an action that clears the local state of
a process and leaves the tables alone. Definitions commented "Faulty" are
bugs the code does not have; each replaces the definition after it in a mutation
run that shows that a property notices.

**Quarantine.** `verdict`, `item` and `events` are the tables `record_validation`,
`quarantine_item` and `quarantine_event`. `RouteAction` is `route`, over an item as it
was *read*. `StartRun` begins the first transaction of a run, `ReadStanding` takes the
snapshot of all items in it, `OpenStream` opens the cursor over records and
observations, `Flush` judges and routes a chunk and commits verdicts and transitions
together, `Crash` ends a run. `ReadItem` and `RecordReview` are the two halves of a
reviewer's command. The entries of a history are a set, each with the date the database
gives it: `created_at DEFAULT now()` is the time its *transaction began*, and
`quarantine_history` orders by it. So the first flush of a run dates its entries at the
start of the run, a later one at its own (`BeginFlush`), and a reviewer's entry has the
date at which the item was read; `clock` counts the transactions that begin. The rules
that judge values are represented by the set of error rules that a record fails;
`Revise` (a new normalization or ruleset) changes it.

**EntityResolution.** A record is a set of keys with types, weights and
strengths. `Lookup` is `candidates_for`, `score_candidate` and `decide` (in
`MatchScore`), with the ceiling of 0.89 for what moderate keys add up to, the
ambiguity between equal scores and, where two keys weigh the same, every order the
database may return them in. `Write` is `apply_decision`: the link that yields to an
existing one, the entity, its keys, the candidate. `ReadCandidate` and `Rule` are the
two halves of `accept_candidate` and `reject_candidate`; `MergeEntities` moves links
and keys and leaves a tombstone; `Resolve` walks at most 16 tombstones. `StartSweep`
is `duplicate_groups`, which lists all groups of one strong key and one name, and
`SweepGroup` merges one of them in a transaction: any merge in it may be refused by
the database, which rolls back those before it, and so may the rebuild of the
survivor. The name in a golden record is any name that a record of the entity gives,
or none while it is not built.

**EmployerResolution.** One record after the other (`ResolveRecord`): its own subject,
then, for a person, the employer that the row names, if there is a name that is one and
a key to find it by; then the relationship. A subject may have any keys, several strong
ones among them. `StrongSaid` are those that are decisive for it: a source that lists
premises, or a mailbox of a function, demotes keys of the record's own subject, and
never those of the employer (`keys_for` is called without `describes` there). A key
keeps at an entity the strength of whoever wrote it first (`WithKeys`), and a lookup
counts the weaker of the two (`Decisions`). A lookup that leads to several entities, or
whose heaviest key is not decisive, is noted in the history variable `doubted`, which no
action reads. Stewards decide candidates between records. `PROJECT.json` maps the tests
that make a name an employer (`employer.py`) and the role that the candidate is joined
with (`get_candidate`).

**BatchLifecycle.** One file of one source, loaded by the record path
(`StoreRow`, `RecordFailure`, `MarkPublished`, `FinishRecords`) or the chunked
path (`StoreChunk`, `FailLoad`, `FinishIngest`, `PublishIngest`), after the two
guards (`CheckCompleted`, `CheckInFlight`) and `CreateBatch`. `StartReplay`,
`ReplayRow`, `MarkReprocessed`, `ReplayFailure` are `reprocess`, whose row and
bookkeeping commit separately; `FindRunning` and `Abandon` are the two halves of
`abandon`.

**GoldenRecord.** A transaction of `process` begins (`StartRecord`), takes the
foreign-key lock of each entity that it links (`Link`), then locks and reads each
of them (`LockAndRead`) and commits links and values together (`Commit`). The
golden stage does the last two. `BuildField` is the loop body of `build_entity`:
replace, refresh the evidence, leave alone or retire. `Choose` holds the four
strategies, the tie-break chain and the confidence; `Explain` is what the API
answers when it is asked where a value comes from: the value, and every cell of the
entity's records for that field, blank ones included, which a build leaves out
(`Blank` is a cell that is empty, a null token or not parsed). `Merge` is a steward's merge.
`Refuse` is the database refusing the write, `Victim` its deadlock detector.
The record and employer roles of a person row are the two targets of record 5 in
the instance.

**StageChain.** `log` holds a sequence of batches per topic and partition, `offset`
what a consumer has committed and `position` how far it has read. A consumer starts
(`position` back at `offset`), polls, works record by record, publishes, and commits
its offset; `Fail` ends it anywhere, `DeliverUnnoticed` is an event that was written
although its acknowledgement was lost. `Refuses` holds the refusals: each of the
`*Error`s a consumer catches, logs and skips. What a stage leaves behind is a set of
records (`observed`, `judged`, `linked`, `built`) or of layouts (`schemas`). `Command`
is a stage run by hand, which publishes nothing. Quarantine can change its mind at any
time: `Reconsider` changes what validation would find of a record (`flawed`), `Validate`
then judges it anew and routes it over the items read when the run began (`seen`), and
`Decide` is a reviewer's release, rejection or reopening. `LetThrough` is the view
`resolvable_record`. A run of resolution lists what is let through once (`Resolvable`)
and links record by record without a second look (`Resolve`).

**ColumnMapping and SchemaMapping.** A column's name is what matching it yields (exact
or ambiguous alias, similarity), its values are the share each detector matches.
`AliasCandidates`, `SimilarityCandidates`, `ValueCandidates`, `CorroboratedCandidates`
and `Best` are `engine.py`, and `ResolveCollisions` is `_resolve_collisions`. `Derive` and
`Create` are the two halves of mapping a batch, between which another mapper may store
the same layout (`CreateRefused`); `Approve` and `Reject` are the reviewer's commands. A
normalization reads the mapping (`StartNormalization`), then labels and upserts the
cells of one record per commit (`WriteObservations`), and finishes or dies.

**Migrations.** `tracked` (the table exists) and `history` (its rows) are
`schema_migrations`, `executed` is what has been run, and `migrator` holds what each has
read, has pending (`todo`) and has run without having committed (`done`); `succeeded`
remembers the releases of the runs that ended well. `Start`, `Track`, `Check`, `Apply`
and `Finish` follow `migrate`, and `Fail` rolls all of it back. The whole run is one
transaction, since the SELECT that precedes the savepoints opens it; a migrator whose
file another has begun waits for it to end. Texts that hold a NUL byte, files marked to
run outside a transaction, two files of one version and edited files are members of the
releases.

## The runs

| Run | Question | Verdict |
|---|---|---|
| `quarantine_serial` | with one command at a time, crashes included: are decisions and releases respected, and does the history shown end at the item? | holds |
| `quarantine_reviewers` | one validator, two reviewers and the record path interleaved: is an invalid record ever unquarantined? | never |
| `resolution_serial` | one command at a time, `reblock` and crashes included: are links, entities and keys complete? | holds |
| `resolution_concurrent` | two runs and a steward: does identity only grow, and by strong keys alone? | holds |
| `employer` | persons, employers and companies in any order, two decisions in between: is every employment backed, and do the halves of a company meet where lookups are clear? | holds |
| `employer_crossed` | does a link's role match the entity it points at? | violated |
| `batch_serial` | one command at a time: is a file loaded once, and are counters exact? | holds |
| `batch_concurrent` | loads, replays and an abandon interleaved: is a row ever lost or overclaimed? | holds |
| `golden_concurrent` | records, a build and a merge interleaved: is the trusted value what was said, its history sound and its explanation, blank cells included, true? | holds |
| `chain_one_batch` | crashes, lost acknowledgements, commands, changed verdicts and decisions: does every record take its journey, and does the chain catch up? | holds |
| `mapping_review` | two mappers, a reviewer and two normalizations: do decisions stand, and do they reach the observations? | holds |
| `migration_races` | three migrators with any of seven releases: is the history what was run? | holds |

`SerialSpec` in a module is `Spec` with at most one command under way. It states
what the code guarantees to a team that runs one command at a time, and it still
contains every crash between two transactions. Where a property holds serially
and fails concurrently, `PROJECT.json` says so under the hazard.

### What the violated run shows

`employer_crossed`: `get_candidate` joins the link of the record in the role `self`
whatever the candidate is about. When the doubtful match is that of a person's
*employer*, accepting it merges the person's entity into the company, and the
person's own link leads to a company, against `verify.sql` ("link role always matches
the entity it points at"). Two records and one decision are enough.

### Further configurations

These are not in `PROJECT.json`: each gives TLC a property that the code does not
keep, and TLC answers with the shortest way to break it
(`tlc -config X.cfg MCModule.tla`).

| Configuration | Module | Shows |
|---|---|---|
| `QuarantineRejectionRace` | `MCQuarantine` | a rejection recorded while `validate_batch` streams is overwritten at the flush, from the snapshot |
| `QuarantineHistoryRace` | `MCQuarantine` | history entries are dated by the start of their transaction: the transition of a run that began before a reviewer's command, or of a reviewer who read before the run wrote, is written last and shown earlier, and the latest entry shown contradicts the item, against "can never diverge" (`validation/repository.py`, `_APPLY_TRANSITION`) |
| `ResolutionCycle` | `MCEntityResolution` | `accept_candidate` locks nothing: two stewards accept A into B and B into A, both commit and neither id resolves again |
| `ReblockOverlap` | `MCEntityResolution` | an entity that one group has absorbed is absorbed again by the next: its id leads to the second survivor, its records are with the first |
| `ReblockCycle` | `MCEntityResolution` | `reblock --merge` alone, on a quiet database: seven rows of a directory with domains in common make five groups that overlap; the last of them consists of entities that were all absorbed before, and merging them among themselves closes a cycle of tombstones. Their ids resolve to nothing, against "any id already handed out downstream still resolves" (`resolution/repository.py`, `merge_entities`) |
| `BatchRace` | `MCBatchLifecycle` | the guards against loading a file twice are read before the batch row exists, and no index backs them: two loads both go on |
| `BatchReplay` | `MCBatchLifecycle` | a replay that dies between its two commits leaves a row that `rows_ingested` never counts, and the next one stores it again |
| `GoldenRefused` | `MCGoldenRecord` | `now()` is the time a transaction began: one that waited for the lock closes a window before it opened, and the CHECK refuses it |
| `ChainSilenced` | `MCStageChain` | resolution dies after its last commit and before it publishes; on redelivery it finds nothing to resolve, skips the message, and the golden stage never hears of the batch |
| `ChainRevoked` | `MCStageChain` | resolution lists what quarantine lets through once and links record by record: a record that is rejected, reopened or judged anew in between is linked all the same, against "kept forever, never resolved" (`0005_quarantine.sql`) |
| `MappingOrphans` | `MCSchemaMapping` | a cell that was split into two values, and is whole under the reviewed mapping, keeps its second observation with the old label |
| `EmployerHalves` | `MCEmployerResolution` | a row with two strong keys meets two entities, is ambiguous, and founds a third with both keys: two subjects share a strong key and are two companies, against "a strong key can carry a link on its own" (`resolution/keys.py`) |
| `EmploymentHidden` | `MCEmployerResolution` | a merge moves no relationship row and `lineage.py` reads them by the survivor's id: an employment of an absorbed entity is not shown |

### Bounds, and why they are enough

Every counter is capped in a guard by a constant that the module names.

- Quarantine: two error rules (reasons can change while a record stays invalid),
  two records, flushes of one record (so that a run is many transactions), two revisions,
  two runs (the record path judges a record as well), two decisions: enough for release,
  change of reason, revocation and a new decision. The run with reviewers asks nothing of
  histories, so its VIEW (`Undated`) leaves out their entries and all dates but whether a
  transaction is open: no guard and no other variable depends on them.
- EntityResolution: three records over two sources, one of which may be of locations,
  and every assignment of keys to records. The serial run has two domains and a name
  (so that groups of reblock overlap and candidates tie), two runs, two decisions and
  one sweep, with symmetry of the domains. The concurrent run has one domain and the
  name, two runs at once and a steward, and leaves the tool out
  (`ResolutionSpec`): it is for a quiet database. Sixteen hops are not reached;
  `HopLimit` is the code's number.
- EmployerResolution: four records and two decisions; two domains and a name, so that
  one company can be two entities; a mailbox, which counts for less than a domain; a name
  worth a review and a phone worth nothing. Of the eleven rows, companies have no, one or
  two strong keys, and two rows, of a person and of a company, come from a source that
  demotes them: so a demoted key can hide a decisive one, and a row can meet two
  entities.
- BatchLifecycle: in the serial run three rows in chunks of two, so that the last
  chunk is short, and the database refuses the second row for good; three loads follow
  each other. In the concurrent run two rows in chunks of one that can all be stored,
  and two transient failures, so that a row can fail in the load and again in one of
  two replays while the other one stores it.
- GoldenRecord: two companies and a person, five records of three sources, four fields
  with one strategy each, of which some cells are absent and some blank, two tries, one
  build, one merge. Three actors on one entity are what the lock, the deadlock and the
  late link need.
- StageChain: one batch of a record that is clean and one that is held, one failure or
  lost acknowledgement anywhere, and one command, decision or change of rules anywhere.
  That is enough for a redelivery to meet its own work, an operator's, a release, or a
  revocation between list and link. More of each, several batches and
  partitions are covered by the proofs.
- SchemaMapping: 49 pairs of column names that occur in vendors' files beside a column
  whose name says nothing, three samples of values, four fields of which two have one
  name and different subjects; two mappers that may race, one review, two
  normalizations of a batch of which one may die.
- Migrations: a first release, its successor, an edited file, a NUL byte, a marked
  file, a version used twice and a branch that numbered another file alike; three
  migrators, so that one can wait for two others in turn.

Symmetry is used for reviewers, loaders, replayers, operators and the two domains, in
runs without liveness. Deadlock is not checked where the system stops for good when
the bounds are used up and there is no work. In the chain, whose consumers must not
stand still while there is, the liveness property says so.

**Fairness.** Only `StageChain` states it: weak fairness of each consumer. A
container that ends is started again (`restart: unless-stopped` in
`docker-compose.yml`), a running consumer polls for ever, and whatever step it has
next stays enabled until it takes it, which is what weak fairness asks for. It is
stated for a consumer as a whole and not for its steps: a consumer that ends is
still that consumer when it is back. Nothing is promised of ingestion, of people, or
of failures, which are bounded: an unbounded series of them would keep any batch from
being built. `ChainCatchesUp` and `AnnouncedIsShownOrSilenced` rest on it; the other
properties are safety properties and need none.

## What is proved

TLAPS checks every theorem for any values of the constants that satisfy the
assumptions declared in the module; where a theorem needs more, its statement says
so. The theorems of a component are in its `*Proofs` module; each first finds an
inductive strengthening of what is claimed.

| Module | Theorem | Statement |
|---|---|---|
| `QuarantineProofs` | `TypeCorrect` | `Spec => []TypeOK` |
| | `HistoryNeverDiverges` | `SerialSpec => []HistoryMatchesItem`: the history by date is an unbroken chain that ends at the item's status |
| | `InvalidStaysQuarantined` | with one validator, `Spec => []QuarantinedWhileInvalid` |
| | `RejectionStands` | `SerialSpec => RejectionIsTerminal` |
| | `ReleaseStands` | `SerialSpec => ReleaseSurvivesSameFailure` |
| | `ReleaseCovers` | `SerialSpec => []ReleaseCoversVerdict` |
| `EntityProofs` | `TypeCorrect` | `Spec => []TypeOK`; links, candidates and pending writes refer to entities that exist |
| | `LinksAreEarned` | `Spec => []AutoLinkNeedsStrongKey` |
| | `IdentityGrows` | `Spec => IdentityIsPermanent`: `EntityResolution` implements `IdentityClusters` |
| | `IdsResolve` | with one steward and fewer decisions than `HopLimit`, `ResolutionSpec => []EveryIdResolves` |
| | `LinksNameEntities` | `SerialSpec => []LinksAndEntitiesAgree` |
| | `RecordsAreFindable` | `SerialSpec => []SurvivorHasRecordKeys` |
| `EmployerProofs` | `TypeCorrect` | `Spec => []TypeOK`; links and employments are of the right kinds unless two kinds were merged |
| | `EmploymentsAreBacked` | `Spec => []EmploymentIsBacked` |
| | `HalvesDoMeet` | `Spec => []HalvesMeet`: subjects with a decisive key that no unclear lookup had are one entity |
| `BatchProofs` | `TypeCorrect` | `Spec => []TypeOK`; `rows_skipped` never drops below zero |
| | `RowsAreKept` | `Spec => []NoRowLost`: a completed batch holds each row or has an open error for it |
| | `ClaimsAreHeld` | `Spec => []ClaimsOnlyWhatItHolds` |
| | `FilesLoadOnce` | `SerialSpec => []FileLoadedOnce` |
| | `SkippedRowsAreOpen` | `SerialSpec => []SkippedAreOpen` |
| | `VerdictsStand` | `SerialSpec => VerdictStands` |
| `GoldenProofs` | `TypeCorrect` | `Spec => []TypeOK` |
| | `LockMakesIndexIdle` | `Spec => []IndexNeverRefuses` |
| | `HistoryIsWalked` | `Spec => []HistoryCanBeWalked`: a replaced row ends where its successor begins; a retired one names none |
| | `ExplanationsHold` | `Spec => []ExplanationHolds`: a value is shown exactly when some cell has one |
| | `BuildsAreTrusted` | `Spec => ImplementsTrustedValues`: `GoldenRecord` implements `TrustedValues` |
| `ChainProofs` | `TypeCorrect` | `Spec => []TypeOK` |
| | `RecordsTravel` | `Spec => ChainIsAJourney`: `StageChain` implements `RecordJourney` |
| | `DataComesFirst` | `Spec => []EventsFollowData` |
| | `AcknowledgedIsDone` | `Spec => []AckMeansDone` |
| `MappingProofs` | `TypeCorrect` | `Spec => []TypeOK` |
| | `FieldsStayApart` | `Spec => []EngineKeepsFieldsApart` |
| | `DecisionsStand` | `Spec => DecisionStands` |
| | `LabelsAreAnswers` | `Spec => []LabelsWereConfirmed` |
| | `ReviewsReach` | with one normalizer, `Spec => []ReviewReachesObservations` |
| `MigrationProofs` | `TypeCorrect` | `Spec => []TypeOK` |
| | `SchemaMatchesHistory` | `Spec => []HistoryIsTheSchema` |
| | `OnlyWholeReleases` | `Spec => []HistoryIsSuccesses` |

**Quarantine**, for any number of records, rules, runs, reviewers and any bounds. The
rules of a record are rules, reviewers are neither the machine nor validators, and
bounds are numbers. `TypeOK` becomes inductive with two facts about local state: a run
writes only records that are stored, and a reviewer's decision is about a record that
has an item. `QuarantinedWhileInvalid` is not inductive by
itself, since a flush routes against the snapshot: it needs `SnapshotHeld`, that an
item which the run saw as open, released or rejected still is one of these for every
record the run has yet to write. Reviewers preserve that, and with one validator so
does a flush; with two it is false, as TLC shows. The serial theorems use
`SnapshotCurrent`: with one command at a time the snapshot *is* the items, for what is
left to write. `HistoryMatchesItem` is proved for them alone, and is false otherwise
(`QuarantineHistoryRace`): that each writer sets the item and adds an entry in one step
does not put that entry last, since it is dated by the start of the transaction. `Dated`
says what one command at a time gives: nothing in the history of a record is as late as
the transaction that has yet to write about it, be it a run's or a reviewer's; and what
either has read is the item as it is, so that the entry starts where the one before it
led. What a release covers is not inductive either, since a release may
follow a reopening that followed a repair: `ItemsExplained` says of any item, of a
record that nobody rejected, that its reasons are those of its last event, and that
they are the errors of the verdict when that is invalid, in which case the item is not
resolved. A review keeps the reasons of the item and writes those it *read* to the
event, so it needs `DeskCurrent`: what a reviewer has read is still so.

**Entity resolution**, for any finite sets of records and keys, any weights from 0 to
99 hundredths, any runs and stewards beside the tool. The assumptions: a steward is
not a run and neither is called `reblock`, a record has a batch, and the name that
stands for none is not a key. First the operators. `ConfidenceNeedsStrongKey` and
`OutcomesAreSound` say that a decision to link has a strong key behind it, however
many moderate keys agree: their sum may be any number, and the ceiling is what keeps
it below the threshold, so it is about the order of the two minima in `Confidence`.
`SurvivorIsMember` says that a group has a survivor and that nobody in it has more
records (from the well-foundedness of `<`, used twice: for the most records, then for
the oldest). Then `Inv`: the types, `RowsAreSound` (an entity holds as strong only
keys it holds), `PendingIsSound` (a decision that a run has yet to write still names
an entity and still has its strong key: entities are never deleted, and what is strong
for a record depends on its own source alone), `RulingsAreSound` and `GroupsAreSound`
for what stewards and the tool have read. `IdentityGrows` maps every step to one of
the abstract module: a write founds a cluster or joins one (`LinkingIsIdentifying`,
where the point is that an already linked record is left where it is), a merge of any
set of entities joins clusters (`MergingIsJoining`), everything else leaves them alone.
The serial theorems add that links name active entities with all keys of their
records (`LinksStand`), that active entities have records (`EntitiesAreObserved`), and
that what a run or a steward has read is still so when it writes (`RunsAreFresh`,
`RulingsAreFresh`): with one command at a time nobody else has written. That reblock
keeps this, although its later groups may name entities that earlier ones absorbed,
rests on the choice of the survivor: if any record is moved, the survivor has at least
as many records as the entity it moves from, so it has one, so it is active
(`SweepGroupKeepsFresh`).
`IdsResolve` is about chains of tombstones, whatever the runs do meanwhile. Its
invariant `Terraced` gives every entity a height: 0 where it stands, and less at the
survivor than at a tombstone. A merge of one that stands into another that stands
raises the tombstones by one, and each merge costs a decision, so the walk of
`resolve_entity_id` is shorter than the number of decisions. Both hypotheses are what
the code needs: two stewards may merge two entities into each other
(`ResolutionCycle`), and sixteen merges in a row are more than the walk follows.

**Employers**, for any records, statements, keys and bounds. A key is of a person or of
a company, never of both, and a company names no employer. The proofs treat the tables
as one value, as `resolve_record` and `process` hand them on. `Inv` has `Rooted`
(tombstones form a forest, in which nobody is deeper than there are tombstones, and
`Resolve` finds the root: `ResolveIsHome`), `Standing` (links lead to roots), `Backed`
(the record that an employment cites links the roots of its two ends, and a record
with both links has its employment), `Pending` (nothing is linked before its turn) and
`KindsAgree` (a link is of the kind of its role, unless two kinds were merged, the
state that `employer_crossed` leads to). A merge moves
the root of a whole tree at once, and the links with it: that both move alike is what
keeps `Backed`, although no employment row is touched. `HalvesMeet` needs
`KeysMeet`, which has three parts: a subject is linked to who has its keys (`KeysHeld`),
what is decisive for an entity that stands is decisive for some subject linked to it
(`StrongBacked`), and subjects with a decisive key that is not doubted are one entity
(`Meeting`). The step that carries it is a lookup. If a subject's decisive key is
already claimed, by one entity, and the heaviest of the keys that lead there is decisive
for both, then no other entity competes: another that is as decisive would be backed by
a subject with one of these keys, which is an unclear lookup. So the lookup links, and to
that entity (`ClearLookupLinks`, from `StrongKeyLinks` about the score). Where the
lookup is not clear its keys are doubted, and nothing is claimed of them from then on:
that is the whole of the exemption, and `EmployerHalves` shows that it is needed.

**Batches**, for any file, chunk size and set of refused rows, any loads, replays and
operators, and any bounds. The file and a chunk have at least one row, refused rows
are rows of the file, and each command is a process of its own. `TypeOK` becomes
inductive with two facts: a load that is
loading, closing or publishing has a batch, and a replay under way has rows left.
`NoRowLost` says nothing of a batch still loading, so `Accounts` adds to it what each
process owes: a live load has seen to every row up to its position, one that closes
has read the whole file, one that has not begun has read nothing (`LoadsAccount`);
and a replay about to close an error has stored its row (`MarkedIsHeld`). The proof
separates a step's effect in two: `RowsKept` (no stored row goes away, no error of a
row that is not stored is closed) carries all of that across the steps of *other*
processes, and `NoneCompleted` says that the step finishes no batch. Only
`FinishRecords` and `FinishIngest` do, and there the load has read everything. This is
where the interleavings matter: `MarkReprocessed` of one replay closes an error that
another may reopen or have closed, and `Abandon` may fail a batch that another process
goes on to finish.
`ClaimsOnlyWhatItHolds` compares two numbers that different processes raise at
different times. `Claims` keeps room between them: the rows that a batch holds are at
least those it claims, or that its load is about to claim, *and* one for each replay
that has stored a row of it and has yet to count it (`MarkingIn`). A replay takes the
room when it stores and gives it back when it counts or dies (`RoomKept`). The number of
held rows is a sum over the file; `FoldAdds` shows that raising some rows by one raises
it by their number.
The serial theorems have `Order`: whoever acts finds everybody else at rest; a load in
progress has the one batch that runs, with its counters in step with its open errors
(`InProgress`), and one that has passed a guard is still right about what it found; a
replay has only open errors left, and an operator's batch is running. The two guards of
a load are what keeps a file from being loaded twice, and that is all they can do: they
are right as long as nobody writes in between.

**Golden record**, for any entities, records, claims, sources and strategies, any
workers, builders and bounds. Reliabilities are between 0 and 100, and a record has one
target or two; every entity has a founder, a record about that entity alone. First the
choice: `Before` is a strict order on what competes, of which exactly one observation
wins if there is any, so that a build has one verdict on a field. `IInv` says where
each transaction is (`Shapes`: it locks what it has read, and shares what it links or
has yet to share it), that a locked row is neither shared nor locked by another
(`Exclusive`), and, from these, that what a build has read of an entity is still so
when it commits (`ReadsHold`): whoever would change it needs the row. `RowsHold` is
about one history: windows do not overlap, only the last row is open, and no row is
dated after the latest transaction, which is where `now()` standing still inside a
transaction matters (a build that would end a window before it began is refused).
`Cited` (what is current is cited from a record that is still linked) is kept by merges,
which move the links of a record and leave the rows. `Fresh` (an entity
that is not stale publishes what its records say) is the refinement: a commit rebuilds
what it read as a whole (`WellBuilt`), and every other step either leaves links and
rows alone or makes stale what it touches. The unique index then has nothing to refuse:
a build that replaces the current row read that row under the row lock of the entity.
`ExplanationHolds` follows from `Cited` and `Fresh`: the cells shown are those that a
build reads and the blank ones, and a build has a verdict exactly when one of its cells
has a value.

**Stage chain**, for any batches, records, layouts, partitions and bounds; a record has a
batch, a batch a layout, a message a partition, and the operator is not a consumer.
`RecordInv` is about records: `Order` (what is shown is linked, what is linked judged,
what is judged observed), `VerdictsRight` and `ReadRight` (verdicts, and items as a
validation has read them, are of records that have them) and `WorkIsAllowed` (every record
on a work list, a consumer's or an operator's, is far enough for its step: rows are
never taken back, so that stays true after the list was read). Each step then advances
one record by one place, or none. What does *not* stay true is that quarantine lets the
record through, which is why the journey says that a record is linked only if it is due,
and becomes due only while nothing holds it: the lists of resolution are mapped to
`due`, the verdicts and items to `held`, and a list that is made anew adds nothing that
is held. `MessageInv` is
about messages: `LogsAreSound` (a message's data is committed), `JobsAreWhole` (a record
of the batch in hand is on the list or done, and all are done before the event is sent)
and `ReadIsDone` (a running consumer has seen to every message it has read but the one
in hand). The step that carries the proof is a poll: `PollsAreSafe` says that a consumer
that finds a message refuses it only if its part is done. That is what makes skipping
a refused message safe for *data*, and it is where the silence of `ChainSilenced` comes
from, which is about *events*.

**Schema mapping**, for any vocabulary, evidence, batches, records, mappers, normalizers
and bounds. Fields are numbered, every one has a name and a subject, and similarities
and shares are hundredths. First what the engine derives: the candidates of a column
have a strict order, and in a settled mapping a field of a subject is confirmed for one
column at most, whatever the names and values (`Apart`). Then the actors:
`AllApart` holds of the stored mapping and of every one that a mapper has derived and not
stored, so that it does not matter which mapper wins; `AllConfirmed` says that every
answer that a stored mapping, a run's copy or a label gives was confirmed at some time;
`AllAgree` says that a run which knows of every decision has the mapping as it is, and
that no batch is ahead of the run under way. That last part needs one normalizer, the
consumer that the deployment starts: with a second (`normalize` run by hand beside it),
TLC finds a run with the older mapping that writes last and dies, after the newer one
has written and before it is finished.

**Migrations**, for any files, releases and migrators; a version and a text determine a
file. `Inv` adds to the claims `RunsOpen` (once checked, a run has every file of its
release in the history, pending or done, all whole, and has done none whose version is
in the history) and `RunsApart` (no two open runs have applied one version: that the
second waits for the first is what keeps a file from being run twice).

Only model-checked: liveness (`ChainCatchesUp`, `AnnouncedIsShownOrSilenced`), which is
out of the prover's reach. Every other property of the runs that pass is the statement
of a theorem, under the hypotheses of the table where the table names some. What a
recursive definition yields for every input is an induction over data, which the library's
theorems do not give here: where a proof needs one (`Iteration`, `FoldUpTo`,
`Near` in `SlopesResolve`) it takes the least number at which the claim fails.

## Not modelled, and why

- The rules of validation, the normalizers, the readers, the detectors of mapping and
  the similarity of names: functions of single values, covered by unit tests; the
  models use what they yield.
- The HTTP layer, its keys, metrics and alerts: they change no state. Of the queries,
  those that a property relies on are modelled (`Explain`, `FindEntities`,
  `Resolve`, the reading of relationships).
- Of the tools, `purge_source`, `rebuild_golden`, `parity` and the checks: they run on a
  quiet database, and what they build is what the stages build.
- Locks between two *different* migration files, which depend on the tables that each
  touches. A file marked to run outside a transaction fails its run in the model, as it
  does in the code; no migration of the repository is marked.
- In lineage, the join over the layouts of several batches of one source.
- The fallback of mapping for batches loaded before migration 0015.
- Sub-statement interleavings within one SQL statement: Postgres makes them
  atomic at READ COMMITTED for what is used here.
- The context of a replay: `reprocess` rebuilds it without the source's `describes`, so
  rows of a location source are replayed with keys that their neighbours did not get.
  `EntityResolution` takes what a source describes as fixed for a batch.
- A batch that is normalized again after its entities were built. `GoldenRecord` takes
  what records say as given, so that `ExplanationHolds` and the refinement speak of the
  time until then; afterwards values are stale until the next build, as after a merge.
  `SchemaMapping` has what a second normalization does to the observations.

### Where documents and code part

Beside `employer_crossed` and the configurations above, which show what they say on an
instance, these are seen by reading:

- "Rows are only appended; nothing is ever updated in place"
  (`docs/decisions/0004-increment-4-normalization.md`, of `attribute_observation`): the
  upsert of `normalization/repository.py` has `ON CONFLICT ... DO UPDATE`, on purpose, as
  its comment says. `WriteObservations` follows the code, and
  `ReviewReachesObservations` depends on it.
- "A `-- pcdf:no-transaction` marker is supported from day one"
  (`docs/decisions/0002-*`): the SELECT that lists what was applied opens a transaction
  before the marked file is reached, so the run fails (`Refused` in `Migrations`). No
  migration of the repository is marked.
- `LOCATION_DEMOTED_WEIGHT` (`resolution/keys.py`) is declared and never used: a demoted
  key loses its strength and keeps its weight, which is why it can be the heaviest that
  leads to an entity and hide one that is decisive.
- `reblock --confirm`, "required with --merge", is never looked at.

## Plan

Built: the components that keep state, and a theorem for every safety property and
action property that a run checks. Next, in order:

1. Weaker hypotheses where the code may allow them: `QuarantinedWhileInvalid` and
   `FileLoadedOnce` hold in more interleavings than the theorems cover, of reviewers
   with a load for example; `EveryIdResolves` with several stewards whose decisions do
   not cross.
2. The refinements end to end: `IdentityClusters` of what `EmployerResolution` does with
   the role `self`, and `RecordJourney` of the record path.
3. Composition of quarantine, resolution and golden record: which values of a record
   that is quarantined after it was linked are still shown (`verify.sql`, check 4).
