---------------------------- MODULE ChainProofs ----------------------------
(***************************************************************************)
(* Proofs about StageChain, for any number of batches, records, layouts    *)
(* and partitions, and any bounds.                                         *)
(***************************************************************************)
EXTENDS StageChain, TLAPS

---------------------------------------------------------------------------
(* Types.                                                                  *)

Workers == Stages \cup {Cli}

Work(w) ==
    Map(w) \/ Normalize(w) \/ Validate(w) \/ Resolve(w) \/ Build(w) \/ StageOver(w)

\* The steps of the chain, whoever takes them.
LEMMA StepsOfNext ==
    ASSUME Next
    PROVE  \/ \E b \in Batches :
                 FinishBatch(b) \/ Announce(b) \/ MarkPublished(b) \/ LeaveUnpublished(b)
           \/ \E w \in Workers : Work(w)
           \/ \E s \in Stages :
                 \/ Restart(s) \/ Deliver(s) \/ Commit(s) \/ Fail(s) \/ DeliverUnnoticed(s)
                 \/ \E p \in Partitions : Poll(s, p)
           \/ \E r \in Records : Reconsider(r)
           \/ \E r \in Records, to \in {"open", "released", "rejected"} : Decide(r, to)
           \/ \E s \in Stages, b \in Batches : Command(s, b)
           \/ CommandDies
<1>1. CASE Ingestion
    BY <1>1 DEF Ingestion
<1>2. CASE Consumers
    BY <1>2 DEF Consumers, MappingConsumer, NormalizationConsumer, ValidationConsumer,
                ResolutionConsumer, GoldenConsumer, Loop, Work, Workers, Stages
<1>3. CASE Failures
    BY <1>3 DEF Failures
<1>4. CASE People
    BY <1>4 DEF People, CommandWorks, Work, Workers
<1> QED
    BY <1>1, <1>2, <1>3, <1>4 DEF Next

\* The parts of TypeOK: tables, log, offsets and workers.
TablesOK ==
    /\ ingest \in [Batches -> {"loading", "completed", "announced", "published", "unpublished"}]
    /\ schemas \subseteq Layouts
    /\ observed \subseteq Records /\ judged \subseteq Records
    /\ linked \subseteq Records /\ built \subseteq Records
    /\ flawed \subseteq Doubtful /\ invalid \subseteq judged
    /\ item \in [Records -> Statuses]
    /\ failures \in 0..MaxFailures
    /\ commands \in 0..MaxCommands

LogOK ==
    /\ log \in [Topics -> [Partitions -> Seq(Batches)]]
    /\ \A t \in Topics, p \in Partitions : \A i \in DOMAIN log[t][p] :
         PartitionOf[t][log[t][p][i]] = p

OffsetsOK ==
    /\ offset \in [Stages -> [Partitions -> Nat]]
    /\ position \in [Stages -> [Partitions -> Nat]]
    /\ \A s \in Stages, p \in Partitions :
         offset[s][p] <= position[s][p] /\ position[s][p] <= Len(log[Consumes[s]][p])

WorkersOK ==
    /\ DOMAIN worker = Workers
    /\ \A w \in Workers : worker[w] \in {Idle, Polling} \cup JobOf(w)
    /\ worker[Cli] # Polling

Types == TablesOK /\ LogOK /\ OffsetsOK /\ WorkersOK

LEMMA TypesInParts == Types => TypeOK
BY DEF Types, TypeOK, TablesOK, LogOK, OffsetsOK, WorkersOK, Workers

\* Every stage reads a topic and writes a topic.
LEMMA StageTopics ==
    ASSUME NEW s \in Stages
    PROVE  Consumes[s] \in Topics /\ Produces[s] \in Topics
BY DEF Stages, Consumes, Produces, Topics

LEMMA RowsAreRecords ==
    ASSUME Types, NEW s \in Stages, NEW b \in Batches
    PROVE  WorkList(s, b) \subseteq Records
BY DEF Types, TablesOK, WorkList, RowsOf, Resolvable, Stages

LEMMA Appending ==
    ASSUME NEW messages \in Seq(Batches), NEW b \in Batches
    PROVE  LET longer == Append(messages, b)
           IN /\ Len(messages) <= Len(longer)
              /\ Len(messages) + 1 \in DOMAIN longer /\ longer[Len(messages) + 1] = b
              /\ \A i \in DOMAIN messages : i \in DOMAIN longer /\ longer[i] = messages[i]
              /\ \A i \in DOMAIN longer :
                   (i \in DOMAIN messages /\ longer[i] = messages[i]) \/ longer[i] = b
OBVIOUS

\* A message is appended to its partition, and the rest of the log stands.
LEMMA Sending ==
    ASSUME LogOK, NEW t \in Topics, NEW b \in Batches,
           log' = [log EXCEPT ![t][PartitionOf[t][b]] = Append(@, b)]
    PROVE  /\ LogOK'
           /\ \A u \in Topics, p \in Partitions : Len(log[u][p]) <= Len(log'[u][p])
           /\ \A u \in Topics, p \in Partitions : \A i \in DOMAIN log[u][p] :
                i \in DOMAIN log'[u][p] /\ log'[u][p][i] = log[u][p][i]
           /\ Sent(t)' = Sent(t) \cup {b}
           /\ \A u \in Topics \ {t} : Sent(u)' = Sent(u)
<1> DEFINE q == PartitionOf[t][b]
<1>1. q \in Partitions
    BY PartitionAssumption
<1>2. log' \in [Topics -> [Partitions -> Seq(Batches)]]
    BY <1>1 DEF LogOK
<1>3. \A u \in Topics, p \in Partitions :
         log'[u][p] = IF u = t /\ p = q THEN Append(log[u][p], b) ELSE log[u][p]
    BY <1>1 DEF LogOK
<1>4. \A u \in Topics, p \in Partitions : log[u][p] \in Seq(Batches)
    BY DEF LogOK
<1> HIDE DEF q
<1>5. \A u \in Topics, p \in Partitions :
        /\ Len(log[u][p]) <= Len(log'[u][p])
        /\ \A i \in DOMAIN log[u][p] : i \in DOMAIN log'[u][p] /\ log'[u][p][i] = log[u][p][i]
        /\ \A i \in DOMAIN log'[u][p] :
             \/ i \in DOMAIN log[u][p] /\ log'[u][p][i] = log[u][p][i]
             \/ u = t /\ p = q /\ log'[u][p][i] = b
    <2> TAKE u \in Topics, p \in Partitions
    <2>1. log[u][p] \in Seq(Batches)
        BY <1>4
    <2>2. CASE u = t /\ p = q
        <3>1. log'[u][p] = Append(log[u][p], b)
            BY <2>2, <1>3
        <3> QED
            BY <3>1, <2>1, <2>2, Appending
    <2>3. CASE ~(u = t /\ p = q)
        <3>1. log'[u][p] = log[u][p]
            BY <2>3, <1>3
        <3>2. Len(log[u][p]) <= Len(log[u][p])
            BY <2>1
        <3> QED
            BY <3>1, <3>2, Zenon
    <2> QED
        BY <2>2, <2>3
<1>6. LogOK'
    BY <1>2, <1>5 DEF LogOK, q
<1>7. b \in Sent(t)'
    <2>1. Len(log[t][q]) + 1 \in DOMAIN log'[t][q] /\ log'[t][q][Len(log[t][q]) + 1] = b
        <3>1. log'[t][q] = Append(log[t][q], b) /\ log[t][q] \in Seq(Batches)
            BY <1>1, <1>3, <1>4
        <3> QED
            BY <3>1, Appending
    <2> QED
        BY <2>1, <1>1 DEF Sent
<1>8. \A u \in Topics : Sent(u) \subseteq Sent(u)' /\ Sent(u)' \subseteq Sent(u) \cup (IF u = t THEN {b} ELSE {})
    BY <1>5 DEF Sent
<1>9. Sent(t)' = Sent(t) \cup {b} /\ \A u \in Topics \ {t} : Sent(u)' = Sent(u)
    BY <1>7, <1>8
<1> QED
    BY <1>5, <1>6, <1>9

LEMMA TypesHoldAtFirst == Init => Types
<1> SUFFICES ASSUME Init PROVE Types
    OBVIOUS
<1>1. TablesOK
    BY ChainAssumption DEF Init, TablesOK, NoItems, Statuses
<1>2. LogOK
    BY DEF Init, LogOK
<1>3. OffsetsOK
    BY StageTopics DEF Init, OffsetsOK
<1>4. WorkersOK
    BY DEF Init, WorkersOK, Workers, Idle, Polling
<1> QED
    BY <1>1, <1>2, <1>3, <1>4 DEF Types


\* A worker is given a new job, or loses its job, and the others keep theirs.
LEMMA SetWorker ==
    ASSUME WorkersOK, NEW w \in Workers, NEW job \in {Idle, Polling} \cup JobOf(w),
           w = Cli => job # Polling,
           worker' = [worker EXCEPT ![w] = job]
    PROVE  /\ WorkersOK'
           /\ worker'[w] = job
           /\ \A v \in Workers \ {w} : worker'[v] = worker[v]
<1>1. worker'[w] = job /\ \A v \in Workers \ {w} : worker'[v] = worker[v]
    BY DEF WorkersOK
<1>2. DOMAIN worker' = Workers
    BY DEF WorkersOK
<1>3. \A v \in Workers : worker'[v] \in {Idle, Polling} \cup JobOf(v)
    BY <1>1 DEF WorkersOK
<1>4. worker'[Cli] # Polling
    BY <1>1 DEF WorkersOK, Workers
<1> QED
    BY <1>1, <1>2, <1>3, <1>4 DEF WorkersOK

\* Whoever works, publishes or commits has a job.
LEMMA BusyHasJob ==
    ASSUME WorkersOK, NEW w \in Workers,
           worker[w].pc \in {"working", "publishing", "committing"}
    PROVE  worker[w] \in JobOf(w)
BY DEF WorkersOK, Idle, Polling

\* The fields of a job.
LEMMA JobFields ==
    ASSUME NEW w \in Workers, NEW job \in JobOf(w)
    PROVE  /\ job.stage \in Stages /\ job.batch \in Batches /\ job.todo \in SUBSET Records
           /\ job.pc \in {"working", "publishing", "committing"}
           /\ w = Cli => job.pc = "working"
           /\ w # Cli => job.stage = w
           /\ job # Idle /\ job # Polling
BY DEF JobOf, Workers, Idle, Polling

\* What a job has read of the items of its records.
LEMMA JobHasSeen ==
    ASSUME NEW w \in Workers, NEW job \in JobOf(w), NEW r \in Records
    PROVE  job.seen[r] \in Statuses
<1>1. job.seen \in [Records -> Statuses]
    BY DEF JobOf
<1> QED
    BY <1>1

\* A job with some of its work done, and one that is further on.
LEMMA JobDwindles ==
    ASSUME NEW w \in Workers, NEW job \in JobOf(w), NEW left \in SUBSET Records
    PROVE  /\ [job EXCEPT !.todo = left] \in JobOf(w)
           /\ [job EXCEPT !.todo = left].todo = left
           /\ [job EXCEPT !.todo = left].pc = job.pc
           /\ [job EXCEPT !.todo = left].batch = job.batch
           /\ [job EXCEPT !.todo = left].stage = job.stage
           /\ [job EXCEPT !.todo = left].seen = job.seen
BY DEF JobOf

LEMMA JobGoesOn ==
    ASSUME NEW w \in Workers, NEW job \in JobOf(w), w # Cli,
           NEW pc \in {"working", "publishing", "committing"}
    PROVE  /\ [job EXCEPT !.pc = pc] \in JobOf(w)
           /\ [job EXCEPT !.pc = pc].pc = pc
           /\ [job EXCEPT !.pc = pc].batch = job.batch
           /\ [job EXCEPT !.pc = pc].stage = job.stage
BY DEF JobOf

\* A job whose work is over.
LEMMA JobEnds ==
    ASSUME NEW w \in Workers, NEW job \in JobOf(w), w # Cli
    PROVE  LET over == [job EXCEPT !.pc = "publishing", !.seen = NoItems]
           IN /\ over \in JobOf(w) /\ over.pc = "publishing"
              /\ over.batch = job.batch /\ over.stage = job.stage
<1>1. NoItems \in [Records -> Statuses]
    BY DEF NoItems, Statuses
<1> QED
    BY <1>1 DEF JobOf

\* A new job.
LEMMA NewJob ==
    ASSUME item \in [Records -> Statuses], NEW w \in Workers, NEW s \in Stages, w # Cli => s = w,
           NEW b \in Batches, NEW todo \in SUBSET Records
    PROVE  /\ Working(s, b, todo) \in JobOf(w)
           /\ Working(s, b, todo).pc = "working"
           /\ Working(s, b, todo).stage = s
           /\ Working(s, b, todo).batch = b
           /\ Working(s, b, todo).todo = todo
           /\ Working(s, b, todo).seen \in {item, NoItems}
<1> DEFINE seen == IF s = "validation" THEN item ELSE NoItems
<1>1. seen \in [Records -> Statuses] /\ seen \in {item, NoItems}
    BY DEF NoItems, Statuses
<1>2. Working(s, b, todo) = [pc |-> "working", stage |-> s, batch |-> b, todo |-> todo, seen |-> seen]
    BY DEF Working
<1> HIDE DEF seen
<1>3. Working(s, b, todo) \in JobOf(w)
    <2>1. CASE w = Cli
        BY <1>1, <1>2, <2>1 DEF JobOf
    <2>2. CASE w # Cli
        BY <1>1, <1>2, <2>2 DEF JobOf
    <2> QED
        BY <2>1, <2>2
<1> QED
    BY <1>1, <1>2, <1>3

LEMMA LogStands ==
    ASSUME LogOK, OffsetsOK, UNCHANGED <<log, offset, position>>
    PROVE  LogOK' /\ OffsetsOK'
BY DEF LogOK, OffsetsOK

LEMMA LogGrows ==
    ASSUME LogOK, OffsetsOK, NEW t \in Topics, NEW b \in Batches,
           log' = [log EXCEPT ![t][PartitionOf[t][b]] = Append(@, b)],
           UNCHANGED <<offset, position>>
    PROVE  LogOK' /\ OffsetsOK'
<1>1. LogOK'
    BY Sending
<1>2. \A u \in Topics, p \in Partitions : Len(log[u][p]) <= Len(log'[u][p])
    BY Sending
<1>3. \A u \in Topics, p \in Partitions : Len(log[u][p]) \in Nat /\ Len(log'[u][p]) \in Nat
    BY <1>1 DEF LogOK
<1>4. OffsetsOK'
    <2> SUFFICES ASSUME NEW s \in Stages, NEW p \in Partitions
                 PROVE  position[s][p] <= Len(log'[Consumes[s]][p])
        BY DEF OffsetsOK
    <2>1. position[s][p] \in Nat /\ position[s][p] <= Len(log[Consumes[s]][p])
        BY DEF OffsetsOK
    <2> QED
        BY <2>1, <1>2, <1>3, StageTopics
<1> QED
    BY <1>1, <1>4

\* The two ways in which a worker goes on: it commits a record, or its work is over.
LEMMA TakingOff ==
    ASSUME WorkersOK, NEW w \in Workers, At(w, "working"),
           NEW r \in worker[w].todo, TakeOff(w, r)
    PROVE  /\ WorkersOK' /\ r \in Records
           /\ worker'[w].pc = "working"
           /\ worker'[w].stage = worker[w].stage
           /\ worker'[w].batch = worker[w].batch
           /\ worker'[w].todo = worker[w].todo \ {r}
           /\ worker'[w].seen = worker[w].seen
           /\ \A v \in Workers \ {w} : worker'[v] = worker[v]
<1> DEFINE job == [worker[w] EXCEPT !.todo = worker[w].todo \ {r}]
<1>1. worker[w] \in JobOf(w)
    BY BusyHasJob DEF At
<1>2. r \in Records /\ worker[w].todo \ {r} \in SUBSET Records
    BY <1>1, JobFields
<1>3. job \in JobOf(w) /\ job.todo = worker[w].todo \ {r} /\ job.pc = worker[w].pc
        /\ job.batch = worker[w].batch /\ job.stage = worker[w].stage
        /\ job.seen = worker[w].seen
    BY <1>1, <1>2, JobDwindles
<1>4. worker' = [worker EXCEPT ![w] = job]
    BY DEF TakeOff
<1>5. job # Polling
    BY <1>3, JobFields
<1> HIDE DEF job
<1>6. WorkersOK' /\ worker'[w] = job /\ \A v \in Workers \ {w} : worker'[v] = worker[v]
    BY <1>3, <1>4, <1>5, SetWorker
<1> QED
    BY <1>2, <1>3, <1>6 DEF At

LEMMA WorkFinished ==
    ASSUME WorkersOK, NEW w \in Workers, At(w, "working"), FinishWork(w)
    PROVE  /\ WorkersOK'
           /\ w = Cli => worker'[w] = Idle
           /\ w # Cli => /\ worker'[w].pc = "publishing"
                         /\ worker'[w].stage = worker[w].stage
                         /\ worker'[w].batch = worker[w].batch
           /\ \A v \in Workers \ {w} : worker'[v] = worker[v]
<1> DEFINE job == IF w = Cli THEN Idle
                  ELSE [worker[w] EXCEPT !.pc = "publishing", !.seen = NoItems]
<1>1. worker[w] \in JobOf(w)
    BY BusyHasJob DEF At
<1>2. w # Cli => job \in JobOf(w) /\ job.pc = "publishing" /\ job.stage = worker[w].stage
                   /\ job.batch = worker[w].batch
    BY <1>1, JobEnds
<1>3. w = Cli => job = Idle
    OBVIOUS
<1>4. w = Cli => job # Polling
    BY <1>3 DEF Idle, Polling
<1>5. worker' = [worker EXCEPT ![w] = job]
    BY DEF FinishWork
<1> HIDE DEF job
<1>6. job \in {Idle, Polling} \cup JobOf(w)
    BY <1>2, <1>3
<1>7. WorkersOK' /\ worker'[w] = job /\ \A v \in Workers \ {w} : worker'[v] = worker[v]
    BY <1>4, <1>5, <1>6, SetWorker
<1> QED
    BY <1>2, <1>3, <1>7

\* What a consumer has in hand after a poll.
LEMMA Polled ==
    ASSUME Types, NEW s \in Stages, NEW p \in Partitions, Poll(s, p)
    PROVE  \E b \in Batches :
             /\ b = log[Consumes[s]][p][position[s][p] + 1]
             /\ position[s][p] + 1 \in DOMAIN log[Consumes[s]][p]
             /\ b \in Sent(Consumes[s])
             /\ worker[s] = Polling
             /\ WorkersOK'
             /\ worker'[s].stage = s /\ worker'[s].batch = b
             /\ \/ Refuses(s, b) /\ worker'[s].pc = "committing"
                \/ /\ ~Refuses(s, b) /\ worker'[s].pc = "working"
                   /\ worker'[s].todo = WorkList(s, b)
                   /\ worker'[s].seen \in {item, NoItems}
             /\ \A v \in Workers \ {s} : worker'[v] = worker[v]
<1> DEFINE b == log[Consumes[s]][p][position[s][p] + 1]
           job == IF Refuses(s, b) THEN [Working(s, b, {}) EXCEPT !.pc = "committing"]
                  ELSE Working(s, b, WorkList(s, b))
<1>1. Consumes[s] \in Topics /\ s \in Workers /\ s # Cli
    BY StageTopics, CliIsNoConsumer DEF Workers
<1>2. LogOK /\ OffsetsOK /\ WorkersOK /\ item \in [Records -> Statuses]
    BY DEF Types, TablesOK
<1>3. log[Consumes[s]][p] \in Seq(Batches) /\ position[s][p] \in Nat
    BY <1>1, <1>2 DEF LogOK, OffsetsOK
<1>4. position[s][p] + 1 \in DOMAIN log[Consumes[s]][p]
    BY <1>3 DEF Poll
<1>5. b \in Batches
    BY <1>3, <1>4
<1>6. b \in Sent(Consumes[s])
    BY <1>4, <1>5 DEF Sent
<1>7. worker[s] = Polling
    BY <1>1, <1>2 DEF Poll, At, WorkersOK, JobOf, Idle
<1>8. worker' = [worker EXCEPT ![s] = job]
    BY DEF Poll
<1> HIDE DEF b
<1>9. Working(s, b, {}) \in JobOf(s) /\ Working(s, b, {}).stage = s /\ Working(s, b, {}).batch = b
    BY <1>1, <1>2, <1>5, NewJob
<1>10. /\ [Working(s, b, {}) EXCEPT !.pc = "committing"] \in JobOf(s)
       /\ [Working(s, b, {}) EXCEPT !.pc = "committing"].pc = "committing"
       /\ [Working(s, b, {}) EXCEPT !.pc = "committing"].batch = b
       /\ [Working(s, b, {}) EXCEPT !.pc = "committing"].stage = s
    BY <1>1, <1>9, JobGoesOn
<1>11. WorkList(s, b) \in SUBSET Records
    BY <1>5, RowsAreRecords
<1>12. /\ Working(s, b, WorkList(s, b)) \in JobOf(s)
       /\ Working(s, b, WorkList(s, b)).pc = "working"
       /\ Working(s, b, WorkList(s, b)).stage = s
       /\ Working(s, b, WorkList(s, b)).batch = b
       /\ Working(s, b, WorkList(s, b)).todo = WorkList(s, b)
       /\ Working(s, b, WorkList(s, b)).seen \in {item, NoItems}
    BY <1>1, <1>2, <1>5, <1>11, NewJob
<1>13. /\ job \in JobOf(s) /\ job.stage = s /\ job.batch = b
       /\ \/ Refuses(s, b) /\ job.pc = "committing"
          \/ /\ ~Refuses(s, b) /\ job.pc = "working" /\ job.todo = WorkList(s, b)
             /\ job.seen \in {item, NoItems}
    BY <1>10, <1>12
<1> HIDE DEF job
<1>15. job \in {Idle, Polling} \cup JobOf(s) /\ s \in Workers
    BY <1>1, <1>13
<1>14. WorkersOK' /\ worker'[s] = job /\ \A v \in Workers \ {s} : worker'[v] = worker[v]
    BY <1>1, <1>2, <1>8, <1>15, SetWorker
<1> QED
    BY <1>4, <1>5, <1>6, <1>7, <1>13, <1>14 DEF b

\* A consumer sets out again, goes down, or has sent its event.
LEMMA ConsumerTurns ==
    ASSUME WorkersOK, NEW s \in Stages, NEW job \in {Idle, Polling},
           worker' = [worker EXCEPT ![s] = job]
    PROVE  WorkersOK' /\ worker'[s] = job /\ \A v \in Workers \ {s} : worker'[v] = worker[v]
<1>1. s \in Workers /\ s # Cli
    BY CliIsNoConsumer DEF Workers
<1> QED
    BY <1>1, SetWorker

LEMMA Delivered ==
    ASSUME WorkersOK, NEW s \in Stages, Deliver(s)
    PROVE  /\ WorkersOK'
           /\ worker'[s].pc = "committing"
           /\ worker'[s].stage = s /\ worker[s].stage = s
           /\ worker'[s].batch = worker[s].batch
           /\ worker[s].batch \in Batches
           /\ \A v \in Workers \ {s} : worker'[v] = worker[v]
<1> DEFINE job == [worker[s] EXCEPT !.pc = "committing"]
<1>1. s \in Workers /\ s # Cli
    BY CliIsNoConsumer DEF Workers
<1>2. worker[s] \in JobOf(s)
    BY <1>1, BusyHasJob DEF Deliver, At
<1>3. job \in JobOf(s) /\ job.pc = "committing" /\ job.batch = worker[s].batch
        /\ job.stage = worker[s].stage
    BY <1>1, <1>2, JobGoesOn
<1>4. worker' = [worker EXCEPT ![s] = job]
    BY DEF Deliver
<1> HIDE DEF job
<1>5. WorkersOK' /\ worker'[s] = job /\ \A v \in Workers \ {s} : worker'[v] = worker[v]
    BY <1>1, <1>3, <1>4, SetWorker
<1> QED
    BY <1>1, <1>2, <1>3, <1>5, JobFields

\* An event of a stage is appended to the topic of the stage.
LEMMA Publishing ==
    ASSUME WorkersOK, NEW s \in Stages, At(s, "publishing"),
           log' = Send(StageEvent(s, worker[s].batch))
    PROVE  /\ worker[s].batch \in Batches
           /\ log' = [log EXCEPT ![Produces[s]][PartitionOf[Produces[s]][worker[s].batch]] =
                                   Append(@, worker[s].batch)]
<1>1. worker[s] \in JobOf(s)
    BY BusyHasJob DEF At, Workers
<1>2. worker[s].batch \in Batches
    BY <1>1, JobFields DEF Workers
<1> QED
    BY <1>2 DEF Send, StageEvent

\* The operator begins a command.
LEMMA Commanded ==
    ASSUME Types, NEW s \in Stages, NEW b \in Batches, Command(s, b)
    PROVE  /\ WorkersOK'
           /\ worker'[Cli].pc = "working" /\ worker'[Cli].stage = s
           /\ worker'[Cli].batch = b /\ worker'[Cli].todo = WorkList(s, b)
           /\ worker'[Cli].seen \in {item, NoItems}
           /\ \A v \in Workers \ {Cli} : worker'[v] = worker[v]
<1> DEFINE job == Working(s, b, WorkList(s, b))
<1>1. WorkersOK /\ Cli \in Workers /\ item \in [Records -> Statuses]
    BY DEF Types, TablesOK, Workers
<1>2. WorkList(s, b) \in SUBSET Records
    BY RowsAreRecords
<1>3. job \in JobOf(Cli) /\ job.pc = "working" /\ job.stage = s /\ job.batch = b
        /\ job.todo = WorkList(s, b) /\ job.seen \in {item, NoItems}
    BY <1>1, <1>2, NewJob
<1>4. worker' = [worker EXCEPT ![Cli] = job]
    BY DEF Command
<1>5. job # Polling
    BY <1>1, <1>3, JobFields
<1> HIDE DEF job
<1>6. WorkersOK' /\ worker'[Cli] = job /\ \A v \in Workers \ {Cli} : worker'[v] = worker[v]
    BY <1>1, <1>3, <1>4, <1>5, SetWorker
<1> QED
    BY <1>3, <1>6

\* What validation writes of one record.
LEMMA Judging ==
    ASSUME Types, NEW w \in Workers, Validate(w)
    PROVE  \E r \in worker[w].todo : \E to \in Statuses \cup {"kept"} :
             /\ to \in Route(worker[w].seen[r], r \in flawed)
             /\ Judge(r, to) /\ TakeOff(w, r)
<1>1. PICK r \in worker[w].todo :
         (\E to \in Route(worker[w].seen[r], r \in flawed) : Judge(r, to)) /\ TakeOff(w, r)
    BY DEF Validate
<1>2. PICK to \in Route(worker[w].seen[r], r \in flawed) : Judge(r, to)
    BY <1>1
<1>3. to \in Statuses \cup {"kept"}
    BY DEF Route, Statuses
<1> QED
    BY <1>1, <1>2, <1>3

LEMMA JudgedTables ==
    ASSUME TablesOK, NEW r \in Records, NEW to \in Statuses \cup {"kept"}, Judge(r, to)
    PROVE  /\ judged' \subseteq Records /\ invalid' \subseteq judged'
           /\ item' \in [Records -> Statuses]
           /\ \A q \in Records \ {r} : item'[q] = item[q] /\ (q \in invalid' <=> q \in invalid)
<1>1. judged' \subseteq Records /\ invalid' \subseteq judged'
    BY DEF TablesOK, Judge
<1>2. item' \in [Records -> Statuses] /\ \A q \in Records \ {r} : item'[q] = item[q]
    <2>1. CASE to = "kept"
        BY <2>1 DEF TablesOK, Judge
    <2>2. CASE to # "kept"
        BY <2>2 DEF TablesOK, Judge
    <2> QED
        BY <2>1, <2>2
<1>3. \A q \in Records \ {r} : q \in invalid' <=> q \in invalid
    BY DEF Judge
<1> QED
    BY <1>1, <1>2, <1>3

\* Work changes the tables, and the worker.
LEMMA WorkTypes ==
    ASSUME Types, NEW w \in Workers, Work(w)
    PROVE  Types'
<1>1. TablesOK /\ LogOK /\ OffsetsOK /\ WorkersOK
    BY DEF Types
<1>2. LogOK' /\ OffsetsOK'
    BY <1>1, LogStands DEF Work, Map, Normalize, Validate, Resolve, Build, StageOver, Unmoved, broker
<1>3. CASE Map(w)
    <2>1. LayoutOf[worker[w].batch] \in Layouts
        BY <1>1, <1>3, BusyHasJob, JobFields, ChainAssumption DEF Map, Does, At
    <2>2. TablesOK'
        BY <1>1, <1>3, <2>1 DEF TablesOK, Map, Unmoved, verdicts
    <2>3. WorkersOK'
        BY <1>1, <1>3, WorkFinished DEF Map, Does
    <2> QED
        BY <1>2, <2>2, <2>3 DEF Types
<1>4. CASE Normalize(w)
    <2>1. PICK r \in worker[w].todo : observed' = observed \cup {r} /\ TakeOff(w, r)
        BY <1>4 DEF Normalize
    <2>2. WorkersOK' /\ r \in Records
        BY <1>1, <1>4, <2>1, TakingOff DEF Normalize, Does
    <2>3. TablesOK'
        BY <1>1, <1>4, <2>1, <2>2 DEF TablesOK, Normalize, Unmoved, verdicts
    <2> QED
        BY <1>2, <2>2, <2>3 DEF Types
<1>5. CASE Validate(w)
    <2>1. PICK r \in worker[w].todo : \E to \in Statuses \cup {"kept"} : Judge(r, to) /\ TakeOff(w, r)
        BY <1>5, Judging
    <2>2. WorkersOK' /\ r \in Records
        BY <1>1, <1>5, <2>1, TakingOff DEF Validate, Does
    <2>3. judged' \subseteq Records /\ invalid' \subseteq judged' /\ item' \in [Records -> Statuses]
        BY <1>1, <2>1, <2>2, JudgedTables
    <2>4. UNCHANGED <<ingest, schemas, observed, linked, built, flawed, failures, commands>>
        BY <1>5 DEF Validate, Unmoved
    <2>5. TablesOK'
        BY <1>1, <2>3, <2>4 DEF TablesOK
    <2> QED
        BY <1>2, <2>2, <2>5 DEF Types
<1>6. CASE Resolve(w)
    <2>1. PICK r \in worker[w].todo : linked' = linked \cup {r} /\ TakeOff(w, r)
        BY <1>6 DEF Resolve
    <2>2. WorkersOK' /\ r \in Records
        BY <1>1, <1>6, <2>1, TakingOff DEF Resolve, Does
    <2>3. TablesOK'
        BY <1>1, <1>6, <2>1, <2>2 DEF TablesOK, Resolve, Unmoved, verdicts
    <2> QED
        BY <1>2, <2>2, <2>3 DEF Types
<1>7. CASE Build(w)
    <2>1. PICK r \in worker[w].todo : built' = built \cup {r} /\ TakeOff(w, r)
        BY <1>7 DEF Build
    <2>2. WorkersOK' /\ r \in Records
        BY <1>1, <1>7, <2>1, TakingOff DEF Build, Does
    <2>3. TablesOK'
        BY <1>1, <1>7, <2>1, <2>2 DEF TablesOK, Build, Unmoved, verdicts
    <2> QED
        BY <1>2, <2>2, <2>3 DEF Types
<1>8. CASE StageOver(w)
    <2>1. TablesOK'
        BY <1>1, <1>8 DEF TablesOK, StageOver, Unmoved, tables, verdicts
    <2>2. WorkersOK'
        BY <1>1, <1>8, WorkFinished DEF StageOver
    <2> QED
        BY <1>2, <2>1, <2>2 DEF Types
<1> QED
    BY <1>3, <1>4, <1>5, <1>6, <1>7, <1>8 DEF Work

\* So does whatever else happens.
LEMMA TypesStep ==
    ASSUME Types, [Next]_vars
    PROVE  Types'
<1>1. TablesOK /\ LogOK /\ OffsetsOK /\ WorkersOK
    BY DEF Types
<1>2. CASE UNCHANGED vars
    <2>1. TablesOK' /\ LogOK' /\ OffsetsOK' /\ WorkersOK'
        BY <1>1, <1>2, LogStands DEF TablesOK, WorkersOK, JobOf, vars
    <2> QED
        BY <2>1 DEF Types
<1>3. ASSUME NEW b \in Batches,
             FinishBatch(b) \/ Announce(b) \/ MarkPublished(b) \/ LeaveUnpublished(b)
      PROVE  Types'
    <2>1. TablesOK'
        BY <1>1, <1>3, ChainAssumption
           DEF TablesOK, FinishBatch, Announce, MarkPublished, LeaveUnpublished, tables, verdicts
    <2>2. WorkersOK'
        BY <1>1, <1>3 DEF WorkersOK, FinishBatch, Announce, MarkPublished, LeaveUnpublished
    <2>3. CASE Announce(b)
        <3>1. log' = [log EXCEPT !["batch.ingested"][PartitionOf["batch.ingested"][b]] = Append(@, b)]
            BY <2>3 DEF Announce, Send, BatchEvent
        <3>2. LogOK' /\ OffsetsOK'
            BY <1>1, <2>3, <3>1, LogGrows DEF Announce, Topics
        <3> QED
            BY <2>1, <2>2, <3>2 DEF Types
    <2>4. CASE ~Announce(b)
        <3>1. LogOK' /\ OffsetsOK'
            BY <1>1, <1>3, <2>4, LogStands DEF FinishBatch, MarkPublished, LeaveUnpublished, broker
        <3> QED
            BY <2>1, <2>2, <3>1 DEF Types
    <2> QED
        BY <2>3, <2>4
<1>4. ASSUME NEW w \in Workers, Work(w) PROVE Types'
    BY <1>4, WorkTypes
<1>5. ASSUME NEW s \in Stages, Restart(s) PROVE Types'
    <2>1. WorkersOK'
        BY <1>1, <1>5, ConsumerTurns DEF Restart
    <2>2. TablesOK' /\ LogOK'
        BY <1>1, <1>5 DEF TablesOK, LogOK, Restart, tables, verdicts, broker
    <2>3. OffsetsOK'
        BY <1>1, <1>5 DEF OffsetsOK, Restart, broker
    <2> QED
        BY <2>1, <2>2, <2>3 DEF Types
<1>6. ASSUME NEW s \in Stages, NEW p \in Partitions, Poll(s, p) PROVE Types'
    <2>1. WorkersOK'
        BY <1>6, Polled
    <2>2. TablesOK' /\ LogOK'
        BY <1>1, <1>6 DEF TablesOK, LogOK, Poll, tables, verdicts, broker
    <2>3. Len(log[Consumes[s]][p]) \in Nat
        BY <1>1, StageTopics DEF LogOK
    <2>4. OffsetsOK'
        <3>1. position' \in [Stages -> [Partitions -> Nat]]
            BY <1>1, <1>6 DEF OffsetsOK, Poll
        <3>2. \A t \in Stages, q \in Partitions :
                 position'[t][q] = IF t = s /\ q = p THEN position[t][q] + 1 ELSE position[t][q]
            BY <1>1, <1>6 DEF OffsetsOK, Poll
        <3>3. position[s][p] + 1 <= Len(log[Consumes[s]][p])
            BY <1>1, <1>6, <2>3 DEF OffsetsOK, Poll
        <3>4. \A t \in Stages, q \in Partitions :
                 offset[t][q] <= position'[t][q] /\ position'[t][q] <= Len(log[Consumes[t]][q])
            <4> TAKE t \in Stages, q \in Partitions
            <4>1. /\ offset[t][q] \in Nat /\ position[t][q] \in Nat
                  /\ offset[t][q] <= position[t][q]
                  /\ position[t][q] <= Len(log[Consumes[t]][q])
                BY <1>1 DEF OffsetsOK
            <4>2. CASE t = s /\ q = p
                BY <4>1, <4>2, <3>2, <3>3
            <4>3. CASE ~(t = s /\ q = p)
                BY <4>1, <4>3, <3>2
            <4> QED
                BY <4>2, <4>3
        <3> QED
            BY <1>1, <1>6, <3>1, <3>4 DEF OffsetsOK, Poll, broker
    <2> QED
        BY <2>1, <2>2, <2>4 DEF Types
<1>7. ASSUME NEW s \in Stages, Deliver(s) PROVE Types'
    <2>1. WorkersOK'
        BY <1>1, <1>7, Delivered
    <2>2. LogOK' /\ OffsetsOK'
        BY <1>1, <1>7, Publishing, StageTopics, LogGrows DEF Deliver
    <2>3. TablesOK'
        BY <1>1, <1>7 DEF TablesOK, Deliver, tables, verdicts
    <2> QED
        BY <2>1, <2>2, <2>3 DEF Types
<1>8. ASSUME NEW s \in Stages, Commit(s) PROVE Types'
    <2>1. WorkersOK'
        BY <1>1, <1>8, ConsumerTurns DEF Commit
    <2>2. TablesOK' /\ LogOK'
        BY <1>1, <1>8 DEF TablesOK, LogOK, Commit, tables, verdicts
    <2>3. OffsetsOK'
        <3>1. \A p \in Partitions : position[s][p] \in Nat
            BY <1>1 DEF OffsetsOK
        <3>2. offset' \in [Stages -> [Partitions -> Nat]]
            BY <1>1, <1>8, <3>1 DEF OffsetsOK, Commit
        <3>3. \A t \in Stages, q \in Partitions :
                 offset'[t][q] = offset[t][q] \/ offset'[t][q] = position[t][q]
            <4>1. PICK p : offset' = [offset EXCEPT ![s][p] = position[s][p]]
                BY <1>8 DEF Commit
            <4>2. offset \in [Stages -> [Partitions -> Nat]]
                BY <1>1 DEF OffsetsOK
            <4> QED
                BY <4>1, <4>2
        <3>4. position' = position /\ log' = log
            BY <1>8 DEF Commit
        <3>5. ASSUME NEW t \in Stages, NEW q \in Partitions
              PROVE  /\ offset'[t][q] <= position[t][q]
                     /\ position[t][q] <= Len(log[Consumes[t]][q])
            <4>1. /\ position[t][q] \in Nat /\ offset[t][q] <= position[t][q]
                  /\ position[t][q] <= Len(log[Consumes[t]][q])
                BY <1>1 DEF OffsetsOK
            <4>2. position[t][q] <= position[t][q]
                BY <4>1
            <4> QED
                BY <3>3, <4>1, <4>2
        <3>6. position \in [Stages -> [Partitions -> Nat]]
            BY <1>1 DEF OffsetsOK
        <3> QED
            BY <3>2, <3>4, <3>5, <3>6 DEF OffsetsOK
    <2> QED
        BY <2>1, <2>2, <2>3 DEF Types
<1>9. ASSUME NEW s \in Stages, Fail(s) PROVE Types'
    <2>1. WorkersOK'
        BY <1>1, <1>9, ConsumerTurns DEF Fail
    <2>2. TablesOK' /\ LogOK' /\ OffsetsOK'
        BY <1>1, <1>9, LogStands, ChainAssumption DEF TablesOK, Fail, tables, verdicts, broker
    <2> QED
        BY <2>1, <2>2 DEF Types
<1>10. ASSUME NEW s \in Stages, DeliverUnnoticed(s) PROVE Types'
    <2>1. WorkersOK'
        BY <1>1, <1>10, ConsumerTurns DEF DeliverUnnoticed
    <2>2. LogOK' /\ OffsetsOK'
        BY <1>1, <1>10, Publishing, StageTopics, LogGrows DEF DeliverUnnoticed
    <2>3. TablesOK'
        BY <1>1, <1>10, ChainAssumption DEF TablesOK, DeliverUnnoticed, tables, verdicts
    <2> QED
        BY <2>1, <2>2, <2>3 DEF Types
<1>11. ASSUME NEW r \in Records, Reconsider(r) PROVE Types'
    <2>1. LogOK' /\ OffsetsOK' /\ WorkersOK'
        BY <1>1, <1>11, LogStands DEF WorkersOK, Reconsider, broker
    <2>2. TablesOK'
        BY <1>1, <1>11, ChainAssumption DEF TablesOK, Reconsider, tables
    <2> QED
        BY <2>1, <2>2 DEF Types
<1>12. ASSUME NEW r \in Records, NEW to \in {"open", "released", "rejected"}, Decide(r, to)
       PROVE  Types'
    <2>1. LogOK' /\ OffsetsOK' /\ WorkersOK'
        BY <1>1, <1>12, LogStands DEF WorkersOK, Decide, broker
    <2>2. item' \in [Records -> Statuses]
        BY <1>1, <1>12 DEF TablesOK, Decide, Statuses
    <2>3. TablesOK'
        BY <1>1, <1>12, <2>2, ChainAssumption DEF TablesOK, Decide, tables
    <2> QED
        BY <2>1, <2>3 DEF Types
<1>13. ASSUME NEW s \in Stages, NEW b \in Batches, Command(s, b) PROVE Types'
    <2>1. WorkersOK'
        BY <1>13, Commanded
    <2>2. TablesOK' /\ LogOK' /\ OffsetsOK'
        BY <1>1, <1>13, LogStands, ChainAssumption DEF TablesOK, Command, tables, verdicts, broker
    <2> QED
        BY <2>1, <2>2 DEF Types
<1>14. CASE CommandDies
    <2>1. WorkersOK'
        BY <1>1, <1>14, SetWorker DEF CommandDies, Workers, Idle, Polling
    <2>2. TablesOK' /\ LogOK' /\ OffsetsOK'
        BY <1>1, <1>14, LogStands, ChainAssumption DEF TablesOK, CommandDies, tables, verdicts, broker
    <2> QED
        BY <2>1, <2>2 DEF Types
<1> QED
    BY <1>2, <1>3, <1>4, <1>5, <1>6, <1>7, <1>8, <1>9, <1>10, <1>11, <1>12, <1>13, <1>14, StepsOfNext

\* The tables, logs, offsets and workers keep their types; no consumer is past the
\* end of its topic or behind what it has committed.
THEOREM TypeCorrect == Spec => []TypeOK
<1>1. Init => Types
    BY TypesHoldAtFirst
<1>2. Types /\ [Next]_vars => Types'
    BY TypesStep
<1> QED
    BY <1>1, <1>2, TypesInParts, PTL DEF Spec

---------------------------------------------------------------------------
(* What a step does to the tables and to a worker, in terms that the       *)
(* invariants share.                                                       *)

\* Stage s has done its part for record r.
DoneIn(s, r) ==
    /\ s = "normalization" => r \in observed
    /\ s = "validation" => r \in judged
    /\ s = "resolution" => r \in linked
    /\ s = "golden" => r \in built

\* The records of b that stage s must do its part for.
Concerns(s, b) ==
    {r \in RowsOf(b) : s # "mapping" /\ (s \in {"resolution", "golden"} => r \notin Doubtful)}

LEMMA CompleteMeans ==
    ASSUME NEW s \in Stages, NEW b \in Batches
    PROVE  Complete(s, b) <=> /\ s = "mapping" => LayoutOf[b] \in schemas
                              /\ \A r \in Concerns(s, b) : DoneIn(s, r)
<1>1. CASE s = "mapping"
    BY <1>1 DEF Complete, Concerns
<1>2. CASE s = "normalization"
    BY <1>2 DEF Complete, Concerns, DoneIn
<1>3. CASE s = "validation"
    BY <1>3 DEF Complete, Concerns, DoneIn
<1>4. CASE s = "resolution"
    BY <1>4 DEF Complete, Concerns, DoneIn, Cleared
<1>5. CASE s = "golden"
    BY <1>5 DEF Complete, Concerns, DoneIn, Cleared
<1> QED
    BY <1>1, <1>2, <1>3, <1>4, <1>5 DEF Stages

\* A worker commits a record of its list, or its work is over.
LEMMA WorkEffect ==
    ASSUME Types, NEW w \in Workers, Work(w)
    PROVE  /\ WorkersOK'
           /\ worker[w] \in JobOf(w) /\ worker[w].pc = "working"
           /\ \A v \in Workers \ {w} : worker'[v] = worker[v]
           /\ \/ \E r \in worker[w].todo :
                   /\ worker'[w].pc = "working"
                   /\ worker'[w].stage = worker[w].stage
                   /\ worker'[w].batch = worker[w].batch
                   /\ worker'[w].todo = worker[w].todo \ {r}
                   /\ worker'[w].seen = worker[w].seen
                   /\ \A s \in Stages : worker[w].stage = s => DoneIn(s, r)'
              \/ w = Cli /\ worker'[w] = Idle
              \/ /\ w # Cli
                 /\ worker'[w].pc = "publishing"
                 /\ worker'[w].batch = worker[w].batch
                 /\ w = "mapping" => LayoutOf[worker[w].batch] \in schemas'
                 /\ w # "mapping" => worker[w].todo = {}
           /\ UNCHANGED <<ingest, log, offset, position>>
<1>1. WorkersOK
    BY DEF Types
<1>2. worker[w].pc = "working"
    BY DEF Work, Map, Normalize, Validate, Resolve, Build, StageOver, Does, At
<1>3. worker[w] \in JobOf(w) /\ At(w, "working")
    BY <1>1, <1>2, BusyHasJob DEF At
<1>4. w # Cli => worker[w].stage = w
    BY <1>3, JobFields
<1>5. UNCHANGED <<ingest, log, offset, position>>
    BY DEF Work, Map, Normalize, Validate, Resolve, Build, StageOver, Unmoved, broker
<1>6. ASSUME NEW r \in worker[w].todo, TakeOff(w, r),
             \A s \in Stages : worker[w].stage = s => DoneIn(s, r)'
      PROVE  /\ WorkersOK'
             /\ \A v \in Workers \ {w} : worker'[v] = worker[v]
             /\ \E x \in worker[w].todo :
                  /\ worker'[w].pc = "working"
                  /\ worker'[w].stage = worker[w].stage
                  /\ worker'[w].batch = worker[w].batch
                  /\ worker'[w].todo = worker[w].todo \ {x}
                  /\ worker'[w].seen = worker[w].seen
                  /\ \A s \in Stages : worker[w].stage = s => DoneIn(s, x)'
    BY <1>1, <1>3, <1>6, TakingOff
<1>7. ASSUME FinishWork(w),
             w = "mapping" => LayoutOf[worker[w].batch] \in schemas',
             w # Cli /\ w # "mapping" => worker[w].todo = {}
      PROVE  /\ WorkersOK'
             /\ \A v \in Workers \ {w} : worker'[v] = worker[v]
             /\ \/ w = Cli /\ worker'[w] = Idle
                \/ /\ w # Cli
                   /\ worker'[w].pc = "publishing"
                   /\ worker'[w].batch = worker[w].batch
                   /\ w = "mapping" => LayoutOf[worker[w].batch] \in schemas'
                   /\ w # "mapping" => worker[w].todo = {}
    BY <1>1, <1>3, <1>7, WorkFinished
<1>8. CASE Map(w)
    <2>1. FinishWork(w) /\ LayoutOf[worker[w].batch] \in schemas' /\ worker[w].stage = "mapping"
        BY <1>8 DEF Map, Does
    <2>2. w # Cli => w = "mapping"
        BY <2>1, <1>4
    <2> QED
        BY <2>1, <2>2, <1>2, <1>3, <1>5, <1>7
<1>9. CASE Normalize(w)
    <2>1. PICK r \in worker[w].todo : observed' = observed \cup {r} /\ TakeOff(w, r)
        BY <1>9 DEF Normalize
    <2>2. \A s \in Stages : worker[w].stage = s => DoneIn(s, r)'
        BY <1>9, <2>1 DEF DoneIn, Normalize, Does
    <2> QED
        BY <2>1, <2>2, <1>2, <1>3, <1>5, <1>6
<1>10. CASE Validate(w)
    <2>1. PICK r \in worker[w].todo : r \in judged' /\ TakeOff(w, r)
        BY <1>10, Judging DEF Judge
    <2>2. \A s \in Stages : worker[w].stage = s => DoneIn(s, r)'
        BY <1>10, <2>1 DEF DoneIn, Validate, Does
    <2> QED
        BY <2>1, <2>2, <1>2, <1>3, <1>5, <1>6
<1>11. CASE Resolve(w)
    <2>1. PICK r \in worker[w].todo : linked' = linked \cup {r} /\ TakeOff(w, r)
        BY <1>11 DEF Resolve
    <2>2. \A s \in Stages : worker[w].stage = s => DoneIn(s, r)'
        BY <1>11, <2>1 DEF DoneIn, Resolve, Does
    <2> QED
        BY <2>1, <2>2, <1>2, <1>3, <1>5, <1>6
<1>12. CASE Build(w)
    <2>1. PICK r \in worker[w].todo : built' = built \cup {r} /\ TakeOff(w, r)
        BY <1>12 DEF Build
    <2>2. \A s \in Stages : worker[w].stage = s => DoneIn(s, r)'
        BY <1>12, <2>1 DEF DoneIn, Build, Does
    <2> QED
        BY <2>1, <2>2, <1>2, <1>3, <1>5, <1>6
<1>13. CASE StageOver(w)
    <2>1. FinishWork(w) /\ worker[w].todo = {} /\ worker[w].stage # "mapping"
        BY <1>13 DEF StageOver
    <2>2. w = "mapping" => w # Cli
        BY CliIsNoConsumer DEF Stages
    <2>3. w # "mapping"
        BY <2>1, <2>2, <1>4
    <2> QED
        BY <2>1, <2>3, <1>2, <1>3, <1>5, <1>7
<1> QED
    BY <1>8, <1>9, <1>10, <1>11, <1>12, <1>13 DEF Work

\* The tables only grow.
Grows ==
    /\ schemas \subseteq schemas'
    /\ observed \subseteq observed' /\ judged \subseteq judged'
    /\ linked \subseteq linked' /\ built \subseteq built'
    /\ \A b \in Batches : Completed(b) => Completed(b)'

\* What changes the tables and the items: work, and people.
LEMMA TableSteps ==
    ASSUME [Next]_vars
    PROVE  \/ UNCHANGED <<tables, verdicts>>
           \/ \E w \in Workers : Work(w)
           \/ \E r \in Records : Reconsider(r)
           \/ \E r \in Records, to \in {"open", "released", "rejected"} : Decide(r, to)
<1>1. CASE UNCHANGED vars
    BY <1>1 DEF vars, tables, verdicts
<1>2. CASE Next
    BY <1>2, StepsOfNext
       DEF FinishBatch, Announce, MarkPublished, LeaveUnpublished, Restart, Deliver, Commit,
           Fail, DeliverUnnoticed, Poll, Command, CommandDies
<1> QED
    BY <1>1, <1>2

LEMMA IngestSteps ==
    ASSUME [Next]_vars
    PROVE  \/ UNCHANGED ingest
           \/ \E b \in Batches :
                FinishBatch(b) \/ Announce(b) \/ MarkPublished(b) \/ LeaveUnpublished(b)
<1>1. CASE UNCHANGED vars
    BY <1>1 DEF vars
<1>2. CASE Next
    BY <1>2, StepsOfNext
       DEF Work, Map, Normalize, Validate, Resolve, Build, StageOver, Unmoved, Restart, Deliver,
           Commit, Fail, DeliverUnnoticed, Poll, Reconsider, Decide, Command, CommandDies
<1> QED
    BY <1>1, <1>2

LEMMA Growing ==
    ASSUME Types, [Next]_vars
    PROVE  Grows
<1>1. ASSUME NEW w \in Workers, Validate(w)
      PROVE  judged \subseteq judged' /\ UNCHANGED <<schemas, observed, linked, built>>
    BY <1>1, Judging DEF Judge, Validate
<1>2. /\ schemas \subseteq schemas'
      /\ observed \subseteq observed' /\ judged \subseteq judged'
      /\ linked \subseteq linked' /\ built \subseteq built'
    BY <1>1, TableSteps
       DEF tables, Work, Map, Normalize, Resolve, Build, StageOver, Unmoved, Reconsider, Decide
<1>3. \A b \in Batches : Completed(b) => Completed(b)'
    BY IngestSteps
       DEF Types, TablesOK, Completed, FinishBatch, Announce, MarkPublished, LeaveUnpublished
<1> QED
    BY <1>2, <1>3 DEF Grows

\* What is done stays done.
LEMMA DoneStays ==
    ASSUME Grows, NEW s \in Stages
    PROVE  /\ \A r \in Records : DoneIn(s, r) => DoneIn(s, r)'
           /\ \A b \in Batches : Complete(s, b) => Complete(s, b)'
<1>1. \A r \in Records : DoneIn(s, r) => DoneIn(s, r)'
    BY DEF Grows, DoneIn
<1>2. \A b \in Batches : Complete(s, b) => Complete(s, b)'
    <2>1. CASE s = "mapping"
        BY <2>1 DEF Grows, Complete
    <2>2. CASE s = "normalization"
        BY <2>2 DEF Grows, Complete, RowsOf
    <2>3. CASE s = "validation"
        BY <2>3 DEF Grows, Complete, RowsOf
    <2>4. CASE s = "resolution"
        BY <2>4 DEF Grows, Complete, Cleared, RowsOf
    <2>5. CASE s = "golden"
        BY <2>5 DEF Grows, Complete, Cleared, RowsOf
    <2> QED
        BY <2>1, <2>2, <2>3, <2>4, <2>5 DEF Stages
<1> QED
    BY <1>1, <1>2

\* What a worker that is at work was doing before: the same work, or it has just
\* found its work list.
LEMMA JobSteps ==
    ASSUME Types, [Next]_vars, NEW v \in Workers, worker'[v].pc = "working"
    PROVE  \/ /\ worker[v].pc = "working" /\ worker[v] \in JobOf(v)
              /\ worker'[v].stage = worker[v].stage
              /\ worker'[v].batch = worker[v].batch
              /\ worker'[v].todo \subseteq worker[v].todo
              /\ worker'[v].seen = worker[v].seen
              /\ \A r \in worker[v].todo \ worker'[v].todo : \A s \in Stages :
                   worker[v].stage = s => DoneIn(s, r)'
           \/ \E s \in Stages, b \in Batches :
                /\ worker'[v].stage = s /\ worker'[v].batch = b
                /\ ~Refuses(s, b) /\ worker'[v].todo = WorkList(s, b)
                /\ worker'[v].seen \in {item, NoItems}
                /\ v # Cli => s = v /\ b \in Sent(Consumes[v])
<1>1. WorkersOK
    BY DEF Types
<1>2. CASE worker'[v] = worker[v]
    BY <1>1, <1>2, BusyHasJob
<1>3. ASSUME NEW w \in Workers, Work(w), worker'[v] # worker[v]
      PROVE  /\ worker[v].pc = "working" /\ worker[v] \in JobOf(v)
             /\ worker'[v].stage = worker[v].stage
             /\ worker'[v].batch = worker[v].batch
             /\ worker'[v].todo \subseteq worker[v].todo
             /\ worker'[v].seen = worker[v].seen
             /\ \A r \in worker[v].todo \ worker'[v].todo : \A s \in Stages :
                  worker[v].stage = s => DoneIn(s, r)'
    <2>1. v = w
        BY <1>3, WorkEffect
    <2>2. worker'[w] # Idle
        BY <2>1 DEF Idle
    <2>3. PICK r \in worker[w].todo :
                   /\ worker'[w].pc = "working"
                   /\ worker'[w].stage = worker[w].stage
                   /\ worker'[w].batch = worker[w].batch
                   /\ worker'[w].todo = worker[w].todo \ {r}
                   /\ worker'[w].seen = worker[w].seen
                   /\ \A s \in Stages : worker[w].stage = s => DoneIn(s, r)'
        BY <1>3, <2>1, <2>2, WorkEffect
    <2>4. worker[w] \in JobOf(w) /\ worker[w].pc = "working"
        BY <1>3, WorkEffect
    <2> QED
        BY <2>1, <2>3, <2>4
<1>4. ASSUME NEW s \in Stages, NEW p \in Partitions, Poll(s, p), worker'[v] # worker[v]
      PROVE  \E t \in Stages, b \in Batches :
                /\ worker'[v].stage = t /\ worker'[v].batch = b
                /\ ~Refuses(t, b) /\ worker'[v].todo = WorkList(t, b)
                /\ worker'[v].seen \in {item, NoItems}
                /\ v # Cli => t = v /\ b \in Sent(Consumes[v])
    <2>1. v = s
        BY <1>4, Polled
    <2> QED
        BY <1>4, <2>1, Polled
<1>5. ASSUME NEW s \in Stages, NEW b \in Batches, Command(s, b), worker'[v] # worker[v]
      PROVE  /\ worker'[v].stage = s /\ worker'[v].batch = b
             /\ ~Refuses(s, b) /\ worker'[v].todo = WorkList(s, b)
             /\ worker'[v].seen \in {item, NoItems}
             /\ v = Cli
    BY <1>5, Commanded DEF Command
<1>6. ASSUME NEW s \in Stages,
             Restart(s) \/ Deliver(s) \/ Commit(s) \/ Fail(s) \/ DeliverUnnoticed(s)
      PROVE  worker'[v] = worker[v]
    <2>1. CASE Deliver(s)
        BY <1>1, <2>1, Delivered
    <2>2. CASE ~Deliver(s)
        <3>1. worker' = [worker EXCEPT ![s] = Polling] \/ worker' = [worker EXCEPT ![s] = Idle]
            BY <1>6, <2>2 DEF Restart, Commit, Fail, DeliverUnnoticed
        <3>2. worker'[s] \in {Idle, Polling} /\ \A u \in Workers \ {s} : worker'[u] = worker[u]
            BY <1>1, <3>1, ConsumerTurns
        <3> QED
            BY <3>2 DEF Idle, Polling
    <2> QED
        BY <2>1, <2>2
<1>7. CASE CommandDies
    <2>1. worker'[v] = worker[v]
        BY <1>1, <1>7 DEF CommandDies, WorkersOK, Idle
    <2> QED
        BY <2>1, <1>2
<1>8. CASE UNCHANGED worker
    BY <1>2, <1>8
<1>9. CASE Next /\ worker'[v] # worker[v]
    BY <1>3, <1>4, <1>5, <1>6, <1>7, <1>8, <1>9, StepsOfNext
       DEF FinishBatch, Announce, MarkPublished, LeaveUnpublished, Reconsider, Decide
<1> QED
    BY <1>2, <1>8, <1>9 DEF vars

---------------------------------------------------------------------------
(* Records.  A stage works on records that the stage before it has left,   *)
(* and quarantine never has an item for a record that validation can only  *)
(* find valid.                                                             *)

Order ==
    /\ built \subseteq linked /\ linked \subseteq judged /\ judged \subseteq observed
    /\ \A r \in Records : item[r] # "none" => r \in judged /\ r \in Doubtful

\* Whatever a run of validation read, it read of records that have items still.
ReadRight ==
    \A w \in Workers : worker[w].pc = "working" =>
        \A r \in Records : worker[w].seen[r] # "none" => item[r] # "none"

VerdictsRight == \A r \in invalid : r \in Doubtful

\* Stage s may do its part for record r.
MayDo(s, r) ==
    /\ s = "validation" => r \in observed
    /\ s = "resolution" => r \in judged
    /\ s = "golden" => r \in linked

WorkIsAllowed ==
    \A w \in Workers, s \in Stages : worker[w].pc = "working" /\ worker[w].stage = s =>
        \A r \in worker[w].todo : MayDo(s, r)

LEMMA WorkListAllowed ==
    ASSUME NEW s \in Stages, NEW b \in Batches
    PROVE  \A r \in WorkList(s, b) : MayDo(s, r)
<1>1. CASE s = "mapping"
    BY <1>1 DEF WorkList
<1>2. CASE s = "normalization"
    BY <1>2 DEF MayDo
<1>3. CASE s = "validation"
    BY <1>3 DEF WorkList, MayDo
<1>4. CASE s = "resolution"
    BY <1>4 DEF WorkList, Resolvable, MayDo
<1>5. CASE s = "golden"
    BY <1>5 DEF WorkList, MayDo
<1> QED
    BY <1>1, <1>2, <1>3, <1>4, <1>5 DEF Stages

\* A verdict gives an item only to a record that validation can find invalid.
LEMMA RouteGives ==
    ASSUME NEW status \in Statuses, NEW bad \in BOOLEAN, NEW to \in Route(status, bad)
    PROVE  /\ to = "kept" => status # "none" \/ ~bad
           /\ to # "kept" => bad \/ status # "none"
BY DEF Route, Statuses

\* Items are kept.
LEMMA ItemsStay ==
    ASSUME Types, [Next]_vars
    PROVE  \A r \in Records : item[r] # "none" => item'[r] # "none"
<1>1. TablesOK
    BY DEF Types
<1>2. CASE UNCHANGED item
    BY <1>2
<1>3. ASSUME NEW w \in Workers, Validate(w)
      PROVE  \A r \in Records : item[r] # "none" => item'[r] # "none"
    <2>1. PICK r \in worker[w].todo : \E to \in Statuses \cup {"kept"} :
               to \in Route(worker[w].seen[r], r \in flawed) /\ Judge(r, to) /\ TakeOff(w, r)
        BY <1>3, Judging
    <2>2. PICK to \in Statuses \cup {"kept"} :
               to \in Route(worker[w].seen[r], r \in flawed) /\ Judge(r, to)
        BY <2>1
    <2>3. to # "none"
        BY <2>2 DEF Route
    <2>4. CASE to = "kept"
        BY <2>2, <2>4 DEF Judge
    <2>5. CASE to # "kept"
        BY <1>1, <2>2, <2>3, <2>5 DEF Judge, TablesOK
    <2> QED
        BY <2>4, <2>5
<1>4. ASSUME NEW q \in Records, NEW to \in {"open", "released", "rejected"}, Decide(q, to)
      PROVE  \A r \in Records : item[r] # "none" => item'[r] # "none"
    BY <1>1, <1>4 DEF Decide, TablesOK
<1>5. ASSUME NEW w \in Workers, Work(w), ~Validate(w)
      PROVE  UNCHANGED item
    BY <1>5 DEF Work, Map, Normalize, Resolve, Build, StageOver, verdicts
<1> QED
    BY <1>2, <1>3, <1>4, <1>5, TableSteps DEF verdicts, Reconsider

LEMMA OrderStep ==
    ASSUME Types, Order, ReadRight, WorkIsAllowed, [Next]_vars
    PROVE  Order'
<1>1. CASE UNCHANGED <<tables, verdicts>>
    BY <1>1 DEF Order, tables, verdicts
<1>2. ASSUME NEW w \in Workers, Work(w)
      PROVE  Order'
    <2>1. worker[w].pc = "working" /\ worker[w].stage \in Stages /\ worker[w].todo \in SUBSET Records
        BY <1>2, WorkEffect, JobFields
    <2>2. \A r \in worker[w].todo : MayDo(worker[w].stage, r)
        BY <2>1 DEF WorkIsAllowed
    <2>3. CASE Map(w) \/ Normalize(w) \/ StageOver(w)
        BY <2>1, <2>3 DEF Order, Map, Normalize, StageOver, tables, verdicts
    <2>4. CASE Validate(w)
        <3>1. PICK r \in worker[w].todo : \E to \in Statuses \cup {"kept"} :
                   to \in Route(worker[w].seen[r], r \in flawed) /\ Judge(r, to) /\ TakeOff(w, r)
            BY <2>4, Judging
        <3>2. PICK to \in Statuses \cup {"kept"} :
                   to \in Route(worker[w].seen[r], r \in flawed) /\ Judge(r, to)
            BY <3>1
        <3>3. r \in Records /\ r \in observed
            BY <2>1, <2>2, <2>4 DEF MayDo, Validate, Does
        <3>4. \A q \in Records \ {r} : item'[q] = item[q]
            BY <3>2, <3>3, JudgedTables DEF Types
        <3>5. item'[r] # "none" => r \in Doubtful
            <4>1. worker[w].seen[r] \in Statuses
                BY <2>1, <3>3, BusyHasJob, JobHasSeen DEF Types
            <4>2. to = "kept" => item'[r] = item[r]
                BY <3>2 DEF Judge
            <4>3. to # "kept" => r \in flawed \/ worker[w].seen[r] # "none"
                BY <3>2, <4>1 DEF Route, Statuses
            <4>4. worker[w].seen[r] # "none" => item[r] # "none"
                BY <2>1, <3>3 DEF ReadRight
            <4>5. r \in flawed => r \in Doubtful
                BY DEF Types, TablesOK
            <4> QED
                BY <3>3, <4>2, <4>3, <4>4, <4>5 DEF Order
        <3>6. judged' = judged \cup {r} /\ UNCHANGED <<observed, linked, built>>
            BY <2>4, <3>2 DEF Judge, Validate
        <3> QED
            BY <3>3, <3>4, <3>5, <3>6 DEF Order
    <2>5. CASE Resolve(w)
        BY <2>1, <2>2, <2>5 DEF Order, MayDo, Resolve, Does, verdicts
    <2>6. CASE Build(w)
        BY <2>1, <2>2, <2>6 DEF Order, MayDo, Build, Does, verdicts
    <2> QED
        BY <1>2, <2>3, <2>4, <2>5, <2>6 DEF Work
<1>3. ASSUME NEW r \in Records, Reconsider(r)
      PROVE  Order'
    BY <1>3 DEF Order, Reconsider, tables
<1>4. ASSUME NEW r \in Records, NEW to \in {"open", "released", "rejected"}, Decide(r, to)
      PROVE  Order'
    <2>1. \A q \in Records : item'[q] # "none" => item[q] # "none"
        BY <1>4 DEF Types, TablesOK, Decide
    <2> QED
        BY <1>4, <2>1 DEF Order, Decide, tables
<1> QED
    BY <1>1, <1>2, <1>3, <1>4, TableSteps

LEMMA VerdictsRightStep ==
    ASSUME Types, VerdictsRight, [Next]_vars
    PROVE  VerdictsRight'
<1>1. ASSUME NEW w \in Workers, Validate(w) PROVE VerdictsRight'
    BY <1>1, Judging DEF VerdictsRight, Judge, Types, TablesOK
<1>2. ASSUME NEW w \in Workers, Work(w), ~Validate(w) PROVE VerdictsRight'
    BY <1>2 DEF VerdictsRight, Work, Map, Normalize, Resolve, Build, StageOver, verdicts
<1> QED
    BY <1>1, <1>2, TableSteps DEF VerdictsRight, Reconsider, Decide, verdicts

LEMMA ReadRightStep ==
    ASSUME Types, ReadRight, [Next]_vars
    PROVE  ReadRight'
<1> SUFFICES ASSUME NEW w \in Workers, worker'[w].pc = "working", NEW r \in Records,
                    worker'[w].seen[r] # "none"
             PROVE  item'[r] # "none"
    BY DEF ReadRight
<1>1. CASE worker[w].pc = "working" /\ worker'[w].seen = worker[w].seen
    BY <1>1, ItemsStay DEF ReadRight
<1>2. CASE worker'[w].seen \in {item, NoItems}
    BY <1>2, ItemsStay DEF NoItems
<1> QED
    BY <1>1, <1>2, JobSteps

LEMMA WorkIsAllowedStep ==
    ASSUME Types, WorkIsAllowed, [Next]_vars
    PROVE  WorkIsAllowed'
<1>1. Grows
    BY Growing
<1>2. \A s \in Stages, r \in Records : MayDo(s, r) => MayDo(s, r)'
    BY <1>1 DEF Grows, MayDo
<1> SUFFICES ASSUME NEW w \in Workers, NEW s \in Stages,
                    worker'[w].pc = "working", worker'[w].stage = s, NEW r \in worker'[w].todo
             PROVE  MayDo(s, r)'
    BY DEF WorkIsAllowed
<1>3. CASE /\ worker[w].pc = "working" /\ worker[w] \in JobOf(w)
           /\ worker'[w].stage = worker[w].stage
           /\ worker'[w].todo \subseteq worker[w].todo
    <2>1. r \in Records /\ MayDo(s, r)
        BY <1>3, JobFields DEF WorkIsAllowed
    <2> QED
        BY <1>2, <2>1
<1>4. ASSUME NEW b \in Batches, worker'[w].todo = WorkList(s, b)
      PROVE  MayDo(s, r)'
    <2>1. r \in Records /\ MayDo(s, r)
        BY <1>4, WorkListAllowed, RowsAreRecords
    <2> QED
        BY <1>2, <2>1
<1> QED
    BY <1>3, <1>4, JobSteps

\* Each record is at one place.
PlacesFit ==
    \A r \in Records :
        /\ r \in built => Place(r) = 4
        /\ r \in linked \ built => Place(r) = 3
        /\ r \in judged \ linked => Place(r) = 2
        /\ r \in observed \ judged => Place(r) = 1
        /\ r \notin observed => Place(r) = 0

LEMMA Places ==
    ASSUME Order
    PROVE  PlacesFit
<1> SUFFICES ASSUME NEW r \in Records
             PROVE  /\ r \in built => Place(r) = 4
                    /\ r \in linked \ built => Place(r) = 3
                    /\ r \in judged \ linked => Place(r) = 2
                    /\ r \in observed \ judged => Place(r) = 1
                    /\ r \notin observed => Place(r) = 0
    BY DEF PlacesFit
<1>1. CASE r \in built
    BY <1>1 DEF Order, Place
<1>2. CASE r \in linked \ built
    BY <1>2 DEF Order, Place
<1>3. CASE r \in judged \ linked
    BY <1>3 DEF Order, Place
<1>4. CASE r \in observed \ judged
    BY <1>4 DEF Order, Place
<1>5. CASE r \notin observed
    BY <1>5 DEF Order, Place
<1> QED
    BY <1>1, <1>2, <1>3, <1>4, <1>5 DEF Order

LEMMA PlacesAfter ==
    ASSUME Order'
    PROVE  PlacesFit'
<1> SUFFICES ASSUME NEW r \in Records
             PROVE  /\ r \in built' => Place(r)' = 4
                    /\ r \in linked' \ built' => Place(r)' = 3
                    /\ r \in judged' \ linked' => Place(r)' = 2
                    /\ r \in observed' \ judged' => Place(r)' = 1
                    /\ r \notin observed' => Place(r)' = 0
    BY DEF PlacesFit
<1>1. CASE r \in built'
    BY <1>1 DEF Order, Place
<1>2. CASE r \in linked' \ built'
    BY <1>2 DEF Order, Place
<1>3. CASE r \in judged' \ linked'
    BY <1>3 DEF Order, Place
<1>4. CASE r \in observed' \ judged'
    BY <1>4 DEF Order, Place
<1>5. CASE r \notin observed'
    BY <1>5 DEF Order, Place
<1> QED
    BY <1>1, <1>2, <1>3, <1>4, <1>5 DEF Order

PlaceMap == [r \in Records |-> Place(r)]

\* Where the tables of one stage gain one record, the record moves.
LEMMA OneMoves ==
    ASSUME NEW r \in Records, NEW n \in 0..3, Place(r) = n, Place(r)' = n + 1,
           \A q \in Records \ {r} : Place(q)' = Place(q)
    PROVE  Journey!Moves(r, n)
<1>1. PlaceMap' = [PlaceMap EXCEPT ![r] = n + 1]
    BY DEF PlaceMap
<1> QED
    BY <1>1 DEF Journey!Moves, PlaceMap

\* What is on the lists of resolution was there, or is free to be linked.
LEMMA ListsGrow ==
    ASSUME Types, [Next]_vars
    PROVE  \A r \in Due' : r \in Due \/ \E b \in Batches : r \in Resolvable(b)
<1> SUFFICES ASSUME NEW r \in Records, NEW w \in Workers,
                    worker'[w].pc = "working", worker'[w].stage = "resolution", r \in worker'[w].todo
             PROVE  r \in Due \/ \E b \in Batches : r \in Resolvable(b)
    BY DEF Due, Does, At, Workers
<1>1. CASE worker[w].pc = "working" /\ worker'[w].stage = worker[w].stage
             /\ worker'[w].todo \subseteq worker[w].todo
    BY <1>1 DEF Due, Does, At, Workers
<1>2. CASE \E b \in Batches : worker'[w].todo = WorkList("resolution", b)
    BY <1>2 DEF WorkList
<1> QED
    BY <1>1, <1>2, JobSteps

\* Where places and quarantine stay as they are, lists may change.
LEMMA Listing ==
    ASSUME Types, Order, PlacesFit, [Next]_vars, UNCHANGED PlaceMap, UNCHANGED Held
    PROVE  Journey!List
<1>1. ASSUME NEW r \in Due', r \notin Due PROVE r \in Records /\ Place(r) = 2 /\ r \notin Held
    <2>1. r \in Records /\ r \in judged \ linked /\ LetThrough(r)
        BY <1>1, ListsGrow DEF Resolvable, RowsOf
    <2> QED
        BY <2>1 DEF PlacesFit, Held
<1>2. Due' \subseteq Due \cup ({r \in Records : PlaceMap[r] = 2} \ Held)
    BY <1>1 DEF PlaceMap
<1> QED
    BY <1>2 DEF Journey!List, Journey!Judged, PlaceMap

\* A worker of another stage leaves the lists alone, and one of resolution takes a
\* record off its own.
LEMMA ListsStay ==
    ASSUME Types, NEW w \in Workers, Work(w), worker[w].stage # "resolution"
    PROVE  UNCHANGED Due
<1>1. \A v \in Workers \ {w} : worker'[v] = worker[v]
    BY WorkEffect
<1>2. ~(worker'[w].pc = "working" /\ worker'[w].stage = "resolution")
    <2>1. CASE worker'[w] = Idle
        BY <2>1 DEF Idle
    <2>2. CASE worker'[w] # Idle
        BY <2>2, WorkEffect
    <2> QED
        BY <2>1, <2>2
<1>3. ~(worker[w].pc = "working" /\ worker[w].stage = "resolution")
    OBVIOUS
<1>4. \A v \in Workers : Does(v, "resolution")' <=> Does(v, "resolution")
    BY <1>1, <1>2, <1>3 DEF Does, At
<1>5. \A v \in Workers : Does(v, "resolution") => worker'[v].todo = worker[v].todo
    BY <1>1, <1>3 DEF Does, At
<1> QED
    BY <1>4, <1>5 DEF Due, Workers

LEMMA OneIsOff ==
    ASSUME Types, NEW w \in Workers, Resolve(w), NEW r \in worker[w].todo, TakeOff(w, r)
    PROVE  r \in Records /\ r \in Due /\ Due' \in {Due, Due \ {r}}
<1>1. WorkersOK /\ At(w, "working") /\ worker[w].stage = "resolution"
    BY DEF Types, Resolve, Does
<1>2. /\ r \in Records
      /\ worker'[w].pc = "working" /\ worker'[w].stage = worker[w].stage
      /\ worker'[w].todo = worker[w].todo \ {r}
      /\ \A v \in Workers \ {w} : worker'[v] = worker[v]
    BY <1>1, TakingOff
<1>3. r \in Due
    BY <1>1, <1>2 DEF Due, Does, Workers
<1>4. \A v \in Workers : Does(v, "resolution")' <=> Does(v, "resolution")
    BY <1>1, <1>2 DEF Does, At
<1>5. \A q \in Records \ {r} : \A v \in Workers : q \in worker'[v].todo <=> q \in worker[v].todo
    BY <1>2
<1>6. \A q \in Records \ {r} : q \in Due' <=> q \in Due
    BY <1>4, <1>5 DEF Due, Workers
<1>7. Due \subseteq Records /\ Due' \subseteq Records
    BY DEF Due
<1> QED
    BY <1>2, <1>3, <1>6, <1>7

\* A verdict or a decision on one record.
LEMMA OneIsJudged ==
    ASSUME NEW r \in Records,
           \A q \in Records \ {r} : /\ q \in judged' <=> q \in judged
                                    /\ LetThrough(q)' <=> LetThrough(q),
           judged \subseteq Records, judged' \subseteq Records
    PROVE  Held' \in {Held \cup {r}, Held \ {r}}
<1>1. \A q \in Records \ {r} : q \in Held' <=> q \in Held
    BY DEF Held
<1>2. Held \subseteq Records /\ Held' \subseteq Records
    BY DEF Held
<1> QED
    BY <1>1, <1>2

LEMMA QuarantineStays ==
    ASSUME UNCHANGED <<judged, invalid, item>>
    PROVE  UNCHANGED Held
BY DEF Held, LetThrough

LEMMA JourneyStep ==
    ASSUME Types, Order, Order', WorkIsAllowed, [Next]_vars
    PROVE  [Journey!Next]_(Journey!vars)
<1>1. PlacesFit /\ PlacesFit'
    BY Places, PlacesAfter
<1>2. ASSUME UNCHANGED PlaceMap, UNCHANGED Held PROVE Journey!Next
    BY <1>1, <1>2, Listing DEF Journey!Next
<1>3. CASE UNCHANGED <<tables, verdicts>>
    <2>1. UNCHANGED PlaceMap
        BY <1>3 DEF tables, PlaceMap, Place
    <2>2. UNCHANGED Held
        BY <1>3, QuarantineStays DEF tables, verdicts
    <2> QED
        BY <1>2, <2>1, <2>2
<1>4. ASSUME NEW w \in Workers, Work(w)
      PROVE  Journey!Next
    <2>1. /\ worker[w].pc = "working" /\ worker[w].stage \in Stages
          /\ worker[w].todo \in SUBSET Records
        BY <1>4, WorkEffect, JobFields
    <2>2. \A r \in worker[w].todo : MayDo(worker[w].stage, r)
        BY <2>1 DEF WorkIsAllowed
    <2>3. CASE Map(w) \/ StageOver(w)
        <3>1. UNCHANGED <<observed, judged, linked, built, verdicts>>
            BY <2>3 DEF Map, StageOver, tables
        <3>2. UNCHANGED PlaceMap
            BY <3>1 DEF PlaceMap, Place
        <3>3. UNCHANGED Held
            BY <3>1, QuarantineStays DEF verdicts
        <3> QED
            BY <1>2, <3>2, <3>3
    <2>4. CASE Normalize(w)
        <3>1. PICK r \in worker[w].todo : observed' = observed \cup {r}
            BY <2>4 DEF Normalize
        <3>2. UNCHANGED <<judged, linked, built, verdicts>> /\ worker[w].stage = "normalization"
            BY <2>4 DEF Normalize, Does
        <3>3. UNCHANGED Held
            BY <3>2, QuarantineStays DEF verdicts
        <3>4. CASE r \in observed
            <4>1. UNCHANGED PlaceMap
                BY <3>1, <3>2, <3>4 DEF PlaceMap, Place
            <4> QED
                BY <1>2, <3>3, <4>1
        <3>5. CASE r \notin observed
            <4>1. r \in Records /\ Place(r) = 0 /\ Place(r)' = 0 + 1
                  /\ \A q \in Records \ {r} : Place(q)' = Place(q)
                BY <1>1, <2>1, <3>1, <3>2, <3>5 DEF PlacesFit, Order
            <4>2. Journey!Moves(r, 0)
                BY <4>1, OneMoves
            <4>3. UNCHANGED Due
                BY <1>4, <3>2, ListsStay
            <4> QED
                BY <3>3, <4>1, <4>2, <4>3 DEF Journey!Next, Journey!Observe, Journey!Loaded
        <3> QED
            BY <3>4, <3>5
    <2>5. CASE Validate(w)
        <3>1. PICK r \in worker[w].todo : \E to \in Statuses \cup {"kept"} : Judge(r, to)
            BY <2>5, Judging
        <3>2. PICK to \in Statuses \cup {"kept"} : Judge(r, to)
            BY <3>1
        <3>3. r \in Records /\ r \in observed
            BY <2>1, <2>2, <2>5 DEF MayDo, Validate, Does
        <3>4. judged' = judged \cup {r} /\ UNCHANGED <<observed, linked, built>>
            BY <2>5, <3>2 DEF Judge, Validate
        <3>5. Held' \in {Held \cup {r}, Held \ {r}}
            <4>1. \A q \in Records \ {r} : item'[q] = item[q] /\ (q \in invalid' <=> q \in invalid)
                BY <3>2, <3>3, JudgedTables DEF Types
            <4>2. \A q \in Records \ {r} : LetThrough(q)' <=> LetThrough(q)
                BY <4>1 DEF LetThrough
            <4>3. judged \subseteq Records
                BY DEF Types, TablesOK
            <4> QED
                BY <3>3, <3>4, <4>2, <4>3, OneIsJudged
        <3>6. UNCHANGED Due
            BY <1>4, <2>5, ListsStay DEF Validate, Does
        <3>7. CASE r \in judged
            <4>1. UNCHANGED PlaceMap
                BY <3>4, <3>7 DEF PlaceMap, Place
            <4>2. Place(r) = 2 \/ Place(r) = 3 \/ Place(r) = 4
                BY <1>1, <3>3, <3>7 DEF PlacesFit
            <4>5. PlaceMap[r] = Place(r)
                BY <3>3 DEF PlaceMap
            <4>3. PlaceMap[r] >= 2
                BY <4>2, <4>5
            <4> QED
                BY <3>3, <3>5, <3>6, <4>1, <4>3
                   DEF Journey!Next, Journey!Judge, Journey!Judged, PlaceMap
        <3>8. CASE r \notin judged
            <4>1. Place(r) = 1
                BY <1>1, <3>3, <3>8 DEF PlacesFit
            <4>2. Place(r)' = 2
                <5>1. r \in judged' /\ r \notin linked'
                    BY <3>4, <3>8 DEF Order
                <5> QED
                    BY <1>1, <3>3, <5>1 DEF PlacesFit
            <4>3. \A q \in Records \ {r} : Place(q)' = Place(q)
                BY <3>4 DEF Place
            <4>4. Place(r)' = 1 + 1
                BY <4>2
            <4>5. Journey!Moves(r, 1)
                BY <3>3, <4>1, <4>3, <4>4, OneMoves
            <4> QED
                BY <3>3, <3>5, <3>6, <4>5 DEF Journey!Next, Journey!Judge, Journey!Observed
        <3> QED
            BY <3>7, <3>8
    <2>6. CASE Resolve(w)
        <3>1. PICK r \in worker[w].todo : linked' = linked \cup {r} /\ r \in judged /\ TakeOff(w, r)
            BY <2>2, <2>6 DEF Resolve, Does, MayDo
        <3>2. UNCHANGED <<observed, judged, built, verdicts>>
            BY <2>6 DEF Resolve
        <3>3. UNCHANGED Held
            BY <3>2, QuarantineStays DEF verdicts
        <3>4. CASE r \in linked
            <4>1. UNCHANGED PlaceMap
                BY <3>1, <3>2, <3>4 DEF PlaceMap, Place
            <4> QED
                BY <1>2, <3>3, <4>1
        <3>5. CASE r \notin linked
            <4>1. r \in Records /\ Place(r) = 2 /\ Place(r)' = 2 + 1
                  /\ \A q \in Records \ {r} : Place(q)' = Place(q)
                BY <1>1, <2>1, <3>1, <3>2, <3>5 DEF PlacesFit, Order
            <4>2. Journey!Moves(r, 2)
                BY <4>1, OneMoves
            <4>3. r \in Due /\ Due' \in {Due, Due \ {r}}
                BY <2>6, <3>1, OneIsOff
            <4> QED
                BY <3>3, <4>1, <4>2, <4>3 DEF Journey!Next, Journey!Link, Journey!Judged
        <3> QED
            BY <3>4, <3>5
    <2>7. CASE Build(w)
        <3>1. PICK r \in worker[w].todo : built' = built \cup {r} /\ r \in linked
            BY <2>2, <2>7 DEF Build, Does, MayDo
        <3>2. UNCHANGED <<observed, judged, linked, verdicts>> /\ worker[w].stage = "golden"
            BY <2>7 DEF Build, Does
        <3>3. UNCHANGED Held
            BY <3>2, QuarantineStays DEF verdicts
        <3>4. CASE r \in built
            <4>1. UNCHANGED PlaceMap
                BY <3>1, <3>2, <3>4 DEF PlaceMap, Place
            <4> QED
                BY <1>2, <3>3, <4>1
        <3>5. CASE r \notin built
            <4>1. r \in Records /\ Place(r) = 3 /\ Place(r)' = 3 + 1
                  /\ \A q \in Records \ {r} : Place(q)' = Place(q)
                BY <1>1, <2>1, <3>1, <3>2, <3>5 DEF PlacesFit, Order
            <4>2. Journey!Moves(r, 3)
                BY <4>1, OneMoves
            <4>3. UNCHANGED Due
                BY <1>4, <3>2, ListsStay
            <4> QED
                BY <3>3, <4>1, <4>2, <4>3 DEF Journey!Next, Journey!Show, Journey!Linked
        <3> QED
            BY <3>4, <3>5
    <2> QED
        BY <1>4, <2>3, <2>4, <2>5, <2>6, <2>7 DEF Work
<1>5. ASSUME NEW r \in Records, Reconsider(r)
      PROVE  Journey!Next
    <2>1. UNCHANGED PlaceMap
        BY <1>5 DEF Reconsider, tables, PlaceMap, Place
    <2>2. UNCHANGED Held
        BY <1>5, QuarantineStays DEF Reconsider, tables
    <2> QED
        BY <1>2, <2>1, <2>2
<1>6. ASSUME NEW r \in Records, NEW to \in {"open", "released", "rejected"}, Decide(r, to)
      PROVE  Journey!Next
    <2>1. UNCHANGED PlaceMap /\ UNCHANGED Due
        BY <1>6 DEF Decide, tables, PlaceMap, Place, Due, Does, At
    <2>2. \A q \in Records \ {r} : item'[q] = item[q]
        BY <1>6 DEF Decide, Types, TablesOK
    <2>3. \A q \in Records \ {r} : LetThrough(q)' <=> LetThrough(q)
        BY <1>6, <2>2 DEF LetThrough, Decide
    <2>4. Held' \in {Held \cup {r}, Held \ {r}}
        BY <1>6, <2>3, OneIsJudged DEF Decide, tables, Types, TablesOK
    <2>5. r \in judged
        BY <1>6 DEF Decide, Order
    <2>6. Place(r) \in {2, 3, 4}
        BY <1>1, <2>5 DEF PlacesFit
    <2>7. PlaceMap[r] >= 2
        BY <2>6 DEF PlaceMap
    <2> QED
        BY <2>1, <2>4, <2>7 DEF Journey!Next, Journey!Judge, Journey!Judged, PlaceMap
<1> QED
    BY <1>3, <1>4, <1>5, <1>6, TableSteps

RecordInv == Types /\ Order /\ ReadRight /\ VerdictsRight /\ WorkIsAllowed

LEMMA RecordInvHolds == Spec => []RecordInv
<1>1. Init => RecordInv
    <2> SUFFICES ASSUME Init PROVE Order /\ ReadRight /\ VerdictsRight /\ WorkIsAllowed
        BY TypesHoldAtFirst DEF RecordInv
    <2>1. Order /\ VerdictsRight
        BY DEF Init, Order, VerdictsRight, NoItems
    <2>2. WorkIsAllowed /\ ReadRight
        BY DEF Init, WorkIsAllowed, ReadRight, Workers, Idle, Polling
    <2> QED
        BY <2>1, <2>2
<1>2. RecordInv /\ [Next]_vars => RecordInv'
    BY TypesStep, OrderStep, ReadRightStep, VerdictsRightStep, WorkIsAllowedStep DEF RecordInv
<1> QED
    BY <1>1, <1>2, PTL DEF Spec

\* The chain implements the journey of its records: over crashes, redeliveries,
\* commands, changed verdicts and decisions taken back, no record skips a stage or goes
\* back, and none is linked but by a run that listed it while quarantine let it through.
THEOREM RecordsTravel == Spec => ChainIsAJourney
<1>1. Init => Journey!Init
    <2> SUFFICES ASSUME Init PROVE Journey!Init
        OBVIOUS
    <2>1. \A r \in Records : Place(r) = 0
        BY DEF Init, Place
    <2>2. Held = {} /\ Due = {}
        BY DEF Init, Held, Due, Does, At, Idle, Polling
    <2> QED
        BY <2>1, <2>2 DEF Journey!Init, Journey!Loaded
<1>2. RecordInv /\ RecordInv' /\ [Next]_vars => [Journey!Next]_(Journey!vars)
    BY JourneyStep DEF RecordInv
<1> QED
    BY <1>1, <1>2, RecordInvHolds, PTL DEF Spec, ChainIsAJourney, Journey!Spec

---------------------------------------------------------------------------
(* Messages.  What is announced is complete, and what is read is complete  *)
(* or in hand.                                                             *)

\* Whatever is in a log is about a batch that is loaded, and an announced
\* batch is in the first log.
LogsAreSound ==
    /\ \A t \in Topics : \A b \in Sent(t) : Completed(b)
    /\ \A s \in Stages : \A b \in Sent(Produces[s]) : Complete(s, b)
    /\ \A b \in Batches : ingest[b] \in {"announced", "published"} => b \in Sent("batch.ingested")

Busy == {"working", "publishing", "committing"}

\* A consumer has in hand a message of its topic; what is not on its work list
\* is done, and all of it before it publishes or commits.
JobsAreWhole ==
    \A s \in Stages : worker[s].pc \in Busy =>
        /\ worker[s].batch \in Sent(Consumes[s])
        /\ worker[s].pc = "working" =>
             \A r \in Concerns(s, worker[s].batch) : r \in worker[s].todo \/ DoneIn(s, r)
        /\ worker[s].pc # "working" => Complete(s, worker[s].batch)

\* A running consumer has seen to every message it has read but the one in hand.
ReadIsDone ==
    \A s \in Stages, p \in Partitions : \A i \in 1..position[s][p] :
        \/ worker[s].pc = "down"
        \/ Complete(s, log[Consumes[s]][p][i])
        \/ worker[s].pc \in Busy /\ worker[s].batch = log[Consumes[s]][p][i]

\* How the logs change: by an announcement or by the event of a stage.
LEMMA LogSteps ==
    ASSUME Types, [Next]_vars
    PROVE  \/ UNCHANGED log
           \/ \E b \in Batches :
                /\ Announce(b)
                /\ log' = [log EXCEPT !["batch.ingested"][PartitionOf["batch.ingested"][b]] = Append(@, b)]
           \/ \E s \in Stages :
                /\ worker[s].pc = "publishing" /\ worker[s].batch \in Batches
                /\ log' = [log EXCEPT ![Produces[s]][PartitionOf[Produces[s]][worker[s].batch]] =
                                        Append(@, worker[s].batch)]
                /\ UNCHANGED ingest
<1>1. CASE UNCHANGED vars
    BY <1>1 DEF vars
<1>2. ASSUME NEW b \in Batches, Announce(b)
      PROVE  log' = [log EXCEPT !["batch.ingested"][PartitionOf["batch.ingested"][b]] = Append(@, b)]
    BY <1>2 DEF Announce, Send, BatchEvent
<1>3. ASSUME NEW s \in Stages, Deliver(s) \/ DeliverUnnoticed(s)
      PROVE  /\ worker[s].pc = "publishing" /\ worker[s].batch \in Batches
             /\ log' = [log EXCEPT ![Produces[s]][PartitionOf[Produces[s]][worker[s].batch]] =
                                        Append(@, worker[s].batch)]
             /\ UNCHANGED ingest
    BY <1>3, Publishing DEF Deliver, DeliverUnnoticed, At, Types
<1>4. ASSUME NEW w \in Workers, Work(w) PROVE UNCHANGED log
    BY <1>4, WorkEffect
<1>5. CASE Next
    BY <1>2, <1>3, <1>4, <1>5, StepsOfNext
       DEF FinishBatch, MarkPublished, LeaveUnpublished, Restart, Commit, Fail, Poll, Reconsider, Decide,
           Command, CommandDies, broker
<1> QED
    BY <1>1, <1>5

\* Messages stay where they are.
LEMMA LogsStand ==
    ASSUME Types, [Next]_vars
    PROVE  /\ \A t \in Topics : Sent(t) \subseteq Sent(t)'
           /\ \A t \in Topics, p \in Partitions : \A i \in DOMAIN log[t][p] :
                i \in DOMAIN log'[t][p] /\ log'[t][p][i] = log[t][p][i]
<1>1. LogOK
    BY DEF Types
<1>2. CASE UNCHANGED log
    BY <1>2 DEF Sent
<1>3. ASSUME NEW t \in Topics, NEW b \in Batches,
             log' = [log EXCEPT ![t][PartitionOf[t][b]] = Append(@, b)]
      PROVE  /\ \A u \in Topics : Sent(u) \subseteq Sent(u)'
             /\ \A u \in Topics, p \in Partitions : \A i \in DOMAIN log[u][p] :
                  i \in DOMAIN log'[u][p] /\ log'[u][p][i] = log[u][p][i]
    <2>1. Sent(t)' = Sent(t) \cup {b} /\ \A u \in Topics \ {t} : Sent(u)' = Sent(u)
        BY <1>1, <1>3, Sending
    <2>2. \A u \in Topics : Sent(u) \subseteq Sent(u)'
        BY <2>1
    <2>3. \A u \in Topics, p \in Partitions : \A i \in DOMAIN log[u][p] :
             i \in DOMAIN log'[u][p] /\ log'[u][p][i] = log[u][p][i]
        BY <1>1, <1>3, Sending
    <2> QED
        BY <2>2, <2>3
<1>4. "batch.ingested" \in Topics
    BY DEF Topics
<1> QED
    BY <1>2, <1>3, <1>4, LogSteps, StageTopics

LEMMA LogsAreSoundStep ==
    ASSUME Types, LogsAreSound, JobsAreWhole, [Next]_vars
    PROVE  LogsAreSound'
<1>1. Grows /\ LogOK
    BY Growing DEF Types
<1>2. \A b \in Batches : Completed(b) => Completed(b)'
    BY <1>1 DEF Grows
<1>3. \A s \in Stages, b \in Batches : Complete(s, b) => Complete(s, b)'
    BY <1>1, DoneStays
<1>4. \A t \in Topics : Sent(t) \subseteq Batches
    BY DEF Sent
<1>5. \A t \in Topics : Sent(t) \subseteq Sent(t)'
    BY LogsStand
<1>6. (\A t \in Topics : \A b \in Sent(t)' : Completed(b)')
        /\ (\A s \in Stages : \A b \in Sent(Produces[s])' : Complete(s, b)')
    <2>1. CASE UNCHANGED log
        <3>1. \A t \in Topics : Sent(t)' = Sent(t)
            BY <2>1 DEF Sent
        <3> QED
            BY <3>1, <1>2, <1>3, <1>4, StageTopics DEF LogsAreSound
    <2>2. ASSUME NEW b \in Batches, Announce(b),
                 log' = [log EXCEPT !["batch.ingested"][PartitionOf["batch.ingested"][b]] = Append(@, b)]
          PROVE  (\A t \in Topics : \A c \in Sent(t)' : Completed(c)')
                   /\ (\A s \in Stages : \A c \in Sent(Produces[s])' : Complete(s, c)')
        <3>1. "batch.ingested" \in Topics /\ \A s \in Stages : Produces[s] # "batch.ingested"
            BY DEF Topics, Produces, Stages
        <3>2. Sent("batch.ingested")' = Sent("batch.ingested") \cup {b}
                /\ \A u \in Topics \ {"batch.ingested"} : Sent(u)' = Sent(u)
            BY <1>1, <2>2, <3>1, Sending
        <3>3. Completed(b)
            BY <2>2 DEF Announce, Completed
        <3> QED
            BY <3>1, <3>2, <3>3, <1>2, <1>3, <1>4, StageTopics DEF LogsAreSound
    <2>3. ASSUME NEW s \in Stages, worker[s].pc = "publishing", worker[s].batch \in Batches,
                 log' = [log EXCEPT ![Produces[s]][PartitionOf[Produces[s]][worker[s].batch]] =
                                        Append(@, worker[s].batch)]
          PROVE  (\A t \in Topics : \A c \in Sent(t)' : Completed(c)')
                   /\ (\A u \in Stages : \A c \in Sent(Produces[u])' : Complete(u, c)')
        <3>1. PICK b \in Batches : b = worker[s].batch
            BY <2>3
        <3>2. Sent(Produces[s])' = Sent(Produces[s]) \cup {b}
                /\ \A u \in Topics \ {Produces[s]} : Sent(u)' = Sent(u)
            BY <1>1, <2>3, <3>1, StageTopics, Sending
        <3>3. b \in Sent(Consumes[s]) /\ Complete(s, b)
            BY <2>3, <3>1 DEF JobsAreWhole, Busy
        <3>4. Completed(b)
            BY <3>3, StageTopics DEF LogsAreSound
        <3>5. \A u \in Stages : Produces[u] = Produces[s] => u = s
            BY DEF Stages, Produces
        <3>6. \A t \in Topics : \A c \in Sent(t)' : Completed(c)'
            BY <3>1, <3>2, <3>4, <1>2, <1>4 DEF LogsAreSound
        <3>7. \A u \in Stages : \A c \in Sent(Produces[u])' : Complete(u, c)'
            BY <3>1, <3>2, <3>3, <3>5, <1>3, <1>4, StageTopics DEF LogsAreSound
        <3> QED
            BY <3>6, <3>7
    <2> QED
        BY <2>1, <2>2, <2>3, LogSteps
<1>7. \A b \in Batches : ingest'[b] \in {"announced", "published"} => b \in Sent("batch.ingested")'
    <2>1. "batch.ingested" \in Topics
        BY DEF Topics
    <2>2. CASE UNCHANGED ingest
        BY <2>1, <2>2, <1>5 DEF LogsAreSound
    <2>3. ASSUME NEW b \in Batches, FinishBatch(b) \/ MarkPublished(b) \/ LeaveUnpublished(b)
          PROVE  \A c \in Batches : ingest'[c] \in {"announced", "published"}
                                      => c \in Sent("batch.ingested")'
        BY <2>1, <2>3, <1>5
           DEF LogsAreSound, Types, TablesOK, FinishBatch, MarkPublished, LeaveUnpublished
    <2>4. ASSUME NEW b \in Batches, Announce(b)
          PROVE  \A c \in Batches : ingest'[c] \in {"announced", "published"}
                                      => c \in Sent("batch.ingested")'
        <3>1. log' = [log EXCEPT !["batch.ingested"][PartitionOf["batch.ingested"][b]] = Append(@, b)]
            BY <2>4 DEF Announce, Send, BatchEvent
        <3>2. b \in Sent("batch.ingested")'
            BY <1>1, <2>1, <3>1, Sending
        <3> QED
            BY <2>1, <2>4, <3>2, <1>5 DEF LogsAreSound, Types, TablesOK, Announce
    <2> QED
        BY <2>2, <2>3, <2>4, IngestSteps
<1> QED
    BY <1>6, <1>7 DEF LogsAreSound

\* A consumer that finds a message of its topic finds every record it is about, and
\* refuses the message only when its part is done.
LEMMA PollsAreSafe ==
    ASSUME Order, VerdictsRight, LogsAreSound, NEW s \in Stages, NEW b \in Batches, b \in Sent(Consumes[s])
    PROVE  /\ Refuses(s, b) => Complete(s, b)
           /\ \A r \in Concerns(s, b) : r \in WorkList(s, b) \/ DoneIn(s, r)
<1>1. Completed(b)
    BY StageTopics DEF LogsAreSound
<1>2. CASE s = "mapping"
    BY <1>1, <1>2 DEF Refuses, MappingRefuses, Concerns
<1>3. CASE s = "normalization"
    <2>1. Complete("mapping", b)
        BY <1>3 DEF LogsAreSound, Consumes, Produces, Stages
    <2>2. LayoutOf[b] \in schemas
        BY <2>1 DEF Complete
    <2>3. ~Refuses(s, b)
        BY <1>1, <1>3, <2>2 DEF Refuses, NormalizationRefuses
    <2>4. WorkList(s, b) = RowsOf(b)
        BY <1>3 DEF WorkList
    <2> QED
        BY <2>3, <2>4 DEF Concerns
<1>4. CASE s = "validation"
    <2>1. Complete("normalization", b)
        BY <1>4 DEF LogsAreSound, Consumes, Produces, Stages
    <2>2. RowsOf(b) \subseteq observed
        BY <2>1 DEF Complete
    <2>3. Refuses(s, b) => RowsOf(b) = {}
        BY <1>1, <1>4, <2>2 DEF Refuses, ValidationRefuses
    <2>4. Refuses(s, b) => Complete(s, b)
        BY <1>4, <2>3, CompleteMeans DEF Concerns
    <2>5. WorkList(s, b) = RowsOf(b) \cap observed
        BY <1>4 DEF WorkList
    <2> QED
        BY <2>2, <2>4, <2>5 DEF Concerns
<1>5. CASE s = "resolution"
    <2>1. Complete("validation", b)
        BY <1>5 DEF LogsAreSound, Consumes, Produces, Stages
    <2>2. RowsOf(b) \subseteq judged
        BY <2>1 DEF Complete
    <2>3. \A r \in Concerns(s, b) : r \in Resolvable(b) \/ r \in linked
        BY <1>5, <2>2 DEF Concerns, Resolvable, RowsOf, LetThrough, Order, VerdictsRight
    <2>4. \A r \in Concerns(s, b) : r \in Resolvable(b) \/ DoneIn(s, r)
        BY <1>5, <2>3 DEF DoneIn
    <2>5. Refuses(s, b) => Resolvable(b) = {}
        BY <1>1, <1>5 DEF Refuses, ResolutionRefuses
    <2>6. Refuses(s, b) => Complete(s, b)
        BY <1>5, <2>4, <2>5, CompleteMeans
    <2>7. WorkList(s, b) = Resolvable(b)
        BY <1>5 DEF WorkList
    <2> QED
        BY <2>4, <2>6, <2>7
<1>6. CASE s = "golden"
    <2>1. Complete("resolution", b)
        BY <1>6 DEF LogsAreSound, Consumes, Produces, Stages
    <2>2. Cleared(b) \subseteq linked
        BY <2>1 DEF Complete
    <2>3. \A r \in Concerns(s, b) : r \in RowsOf(b) \cap linked
        BY <1>6, <2>2 DEF Concerns, Cleared
    <2>4. Refuses(s, b) => RowsOf(b) \cap linked = {}
        BY <1>6 DEF Refuses, NothingToBuild
    <2>5. Refuses(s, b) => Complete(s, b)
        BY <1>6, <2>3, <2>4, CompleteMeans
    <2>6. WorkList(s, b) = RowsOf(b) \cap linked
        BY <1>6 DEF WorkList
    <2> QED
        BY <2>3, <2>5, <2>6
<1> QED
    BY <1>2, <1>3, <1>4, <1>5, <1>6 DEF Stages

\* The turns of a consumer.
LEMMA TurnSteps ==
    ASSUME Types, [Next]_vars, NEW s \in Stages
    PROVE  \/ worker'[s] = worker[s] /\ UNCHANGED <<position[s], offset[s]>>
           \/ worker'[s] = Idle /\ UNCHANGED <<position[s], offset[s]>>
           \/ worker'[s] = Polling /\ Restart(s)
           \/ worker'[s] = Polling /\ Commit(s)
           \/ \E p \in Partitions : Poll(s, p)
           \/ worker[s].pc = "publishing" /\ worker'[s].pc = "committing"
                /\ worker'[s].batch = worker[s].batch /\ UNCHANGED <<position[s], offset[s]>>
           \/ Work(s) /\ UNCHANGED <<position[s], offset[s]>>
<1>1. WorkersOK /\ s \in Workers /\ s # Cli
    BY CliIsNoConsumer DEF Types, Workers
<1>2. CASE UNCHANGED <<worker, position, offset>>
    BY <1>2
<1>3. ASSUME NEW w \in Workers, Work(w)
      PROVE  \/ worker'[s] = worker[s] /\ UNCHANGED <<position[s], offset[s]>>
             \/ Work(s) /\ UNCHANGED <<position[s], offset[s]>>
    BY <1>1, <1>3, WorkEffect
<1>4. ASSUME NEW t \in Stages, t # s,
             \/ Restart(t) \/ Deliver(t) \/ Commit(t) \/ Fail(t) \/ DeliverUnnoticed(t)
             \/ \E p \in Partitions : Poll(t, p)
      PROVE  worker'[s] = worker[s] /\ UNCHANGED <<position[s], offset[s]>>
    <2>1. UNCHANGED <<position[s], offset[s]>>
        BY <1>4 DEF Types, OffsetsOK, Restart, Deliver, Commit, Fail, DeliverUnnoticed, Poll, broker
    <2>2. CASE Deliver(t)
        BY <1>1, <1>4, <2>1, <2>2, Delivered
    <2>3. CASE \E p \in Partitions : Poll(t, p)
        BY <1>1, <1>4, <2>1, <2>3, Polled
    <2>4. CASE Restart(t) \/ Commit(t) \/ Fail(t) \/ DeliverUnnoticed(t)
        BY <1>1, <1>4, <2>1, <2>4, ConsumerTurns DEF Restart, Commit, Fail, DeliverUnnoticed
    <2> QED
        BY <1>4, <2>2, <2>3, <2>4
<1>5. CASE Restart(s) \/ Commit(s)
    BY <1>1, <1>5, ConsumerTurns DEF Restart, Commit
<1>6. CASE Fail(s) \/ DeliverUnnoticed(s)
    BY <1>1, <1>6, ConsumerTurns DEF Fail, DeliverUnnoticed, broker
<1>7. CASE Deliver(s)
    BY <1>1, <1>7, Delivered DEF Deliver, At
<1>8. ASSUME NEW t \in Stages, NEW b \in Batches, Command(t, b)
      PROVE  worker'[s] = worker[s] /\ UNCHANGED <<position[s], offset[s]>>
    BY <1>1, <1>8, Commanded DEF Command, broker
<1>9. CASE CommandDies
    BY <1>1, <1>9 DEF CommandDies, WorkersOK, broker
<1>10. CASE Next
    BY <1>2, <1>3, <1>4, <1>5, <1>6, <1>7, <1>8, <1>9, <1>10, StepsOfNext
       DEF FinishBatch, Announce, MarkPublished, LeaveUnpublished, Reconsider, Decide, broker
<1> QED
    BY <1>2, <1>10 DEF vars

LEMMA JobsAreWholeStep ==
    ASSUME Types, Order, VerdictsRight, LogsAreSound, JobsAreWhole, [Next]_vars
    PROVE  JobsAreWhole'
<1>1. Grows /\ WorkersOK
    BY Growing DEF Types
<1>2. \A t \in Topics : Sent(t) \subseteq Sent(t)'
    BY LogsStand
<1>3. \A s \in Stages : /\ \A r \in Records : DoneIn(s, r) => DoneIn(s, r)'
                        /\ \A b \in Batches : Complete(s, b) => Complete(s, b)'
    BY <1>1, DoneStays
<1> SUFFICES ASSUME NEW s \in Stages, worker'[s].pc \in Busy
             PROVE  /\ worker'[s].batch \in Sent(Consumes[s])'
                    /\ worker'[s].pc = "working" =>
                         \A r \in Concerns(s, worker'[s].batch) :
                            r \in worker'[s].todo \/ DoneIn(s, r)'
                    /\ worker'[s].pc # "working" => Complete(s, worker[s].batch)'
    BY DEF JobsAreWhole, Concerns, RowsOf
<1>4. s \in Workers /\ s # Cli /\ Consumes[s] \in Topics
    BY CliIsNoConsumer, StageTopics DEF Workers
<1>5. Sent(Consumes[s]) \subseteq Sent(Consumes[s])'
    BY <1>2, <1>4
<1>6. \A b \in Batches : Concerns(s, b) \subseteq Records
    BY DEF Concerns, RowsOf
<1>7. worker[s].pc \in Busy => worker[s] \in JobOf(s) /\ worker[s].batch \in Batches
                                /\ worker[s].stage = s
    BY <1>1, <1>4, BusyHasJob, JobFields DEF Busy
<1>8. ASSUME NEW b \in Batches, worker'[s].batch = b, worker'[s].pc # "working", Complete(s, b)'
      PROVE  Complete(s, worker[s].batch)'
    BY <1>8
<1>9. CASE worker'[s] = worker[s]
    <2>1. worker[s].batch \in Sent(Consumes[s])'
        BY <1>5, <1>9 DEF JobsAreWhole
    <2>2. worker[s].pc = "working" =>
             \A r \in Concerns(s, worker[s].batch) : r \in worker[s].todo \/ DoneIn(s, r)'
        BY <1>3, <1>6, <1>7, <1>9 DEF JobsAreWhole
    <2>3. worker[s].pc # "working" => Complete(s, worker[s].batch)
        BY <1>9 DEF JobsAreWhole
    <2> QED
        BY <1>3, <1>7, <1>8, <1>9, <2>1, <2>2, <2>3
<1>10. ASSUME NEW p \in Partitions, Poll(s, p)
       PROVE  /\ worker'[s].batch \in Sent(Consumes[s])'
              /\ worker'[s].pc = "working" =>
                   \A r \in Concerns(s, worker'[s].batch) :
                      r \in worker'[s].todo \/ DoneIn(s, r)'
              /\ worker'[s].pc # "working" => Complete(s, worker[s].batch)'
    <2>1. PICK b \in Batches :
             /\ b \in Sent(Consumes[s]) /\ worker'[s].batch = b
             /\ \/ Refuses(s, b) /\ worker'[s].pc = "committing"
                \/ /\ ~Refuses(s, b) /\ worker'[s].pc = "working"
                   /\ worker'[s].todo = WorkList(s, b)
        BY <1>10, Polled
    <2>2. /\ Refuses(s, b) => Complete(s, b)
          /\ \A r \in Concerns(s, b) : r \in WorkList(s, b) \/ DoneIn(s, r)
        BY <2>1, PollsAreSafe
    <2>3. worker'[s].pc # "working" => Complete(s, b)'
        BY <1>3, <2>1, <2>2
    <2>4. worker'[s].pc = "working" =>
             \A r \in Concerns(s, b) : r \in worker'[s].todo \/ DoneIn(s, r)'
        BY <1>3, <1>6, <2>1, <2>2
    <2> QED
        BY <1>5, <1>8, <2>1, <2>3, <2>4
<1>11. CASE worker[s].pc = "publishing" /\ worker'[s].pc = "committing"
             /\ worker'[s].batch = worker[s].batch
    <2>1. worker[s].pc \in Busy
        BY <1>11 DEF Busy
    <2>2. worker[s].batch \in Sent(Consumes[s]) /\ Complete(s, worker[s].batch)
        BY <1>11, <2>1 DEF JobsAreWhole
    <2> QED
        BY <1>3, <1>5, <1>7, <1>8, <1>11, <2>1, <2>2
<1>12. CASE Work(s)
    <2>1. worker[s].pc = "working" /\ worker[s].pc \in Busy
        BY <1>4, <1>12, WorkEffect DEF Busy
    <2>2. /\ worker[s].batch \in Sent(Consumes[s])
          /\ \A r \in Concerns(s, worker[s].batch) : r \in worker[s].todo \/ DoneIn(s, r)
        BY <2>1 DEF JobsAreWhole
    <2>3. CASE worker'[s].pc = "working"
        <3>1. PICK r \in worker[s].todo :
                 /\ worker'[s].batch = worker[s].batch
                 /\ worker'[s].todo = worker[s].todo \ {r}
                 /\ DoneIn(s, r)'
            BY <1>4, <1>7, <1>12, <2>1, <2>3, WorkEffect DEF Idle
        <3>2. \A x \in Concerns(s, worker[s].batch) : x \in worker'[s].todo \/ DoneIn(s, x)'
            BY <1>3, <1>6, <1>7, <2>1, <2>2, <3>1
        <3> QED
            BY <1>5, <2>2, <2>3, <3>1, <3>2
    <2>4. CASE worker'[s].pc # "working"
        <3>1. PICK b \in Batches : b = worker[s].batch
            BY <1>7, <2>1
        <3>2. /\ worker'[s].batch = b
              /\ s = "mapping" => LayoutOf[b] \in schemas'
              /\ s # "mapping" => worker[s].todo = {}
            BY <1>4, <1>12, <2>4, <3>1, WorkEffect
        <3>3. s # "mapping" => Complete(s, b)
            BY <2>2, <3>1, <3>2, CompleteMeans
        <3>4. s = "mapping" => Complete(s, b)'
            BY <3>2 DEF Complete
        <3>5. Complete(s, b)'
            BY <1>3, <3>3, <3>4
        <3> QED
            BY <1>5, <1>8, <2>2, <2>4, <3>1, <3>2, <3>5
    <2> QED
        BY <2>3, <2>4
<1>13. worker'[s] # Idle /\ worker'[s] # Polling
    BY DEF Idle, Polling, Busy
<1> QED
    BY <1>9, <1>10, <1>11, <1>12, <1>13, TurnSteps

\* What is read or acknowledged stays the same message.
LEMMA ReadMessages ==
    ASSUME Types, [Next]_vars, NEW s \in Stages, NEW p \in Partitions, NEW i \in 1..position[s][p]
    PROVE  /\ log'[Consumes[s]][p][i] = log[Consumes[s]][p][i]
           /\ log[Consumes[s]][p][i] \in Batches
           /\ PartitionOf[Consumes[s]][log[Consumes[s]][p][i]] = p
           /\ Complete(s, log[Consumes[s]][p][i]) => Complete(s, log[Consumes[s]][p][i])'
<1>1. LogOK /\ OffsetsOK /\ Consumes[s] \in Topics
    BY StageTopics DEF Types
<1>2. log[Consumes[s]][p] \in Seq(Batches) /\ position[s][p] \in Nat
        /\ position[s][p] <= Len(log[Consumes[s]][p])
    BY <1>1 DEF LogOK, OffsetsOK
<1>3. i \in DOMAIN log[Consumes[s]][p]
    BY <1>2
<1>4. log[Consumes[s]][p][i] \in Batches
    BY <1>2, <1>3
<1>5. log'[Consumes[s]][p][i] = log[Consumes[s]][p][i]
    BY <1>1, <1>3, LogsStand
<1>6. PartitionOf[Consumes[s]][log[Consumes[s]][p][i]] = p
    BY <1>1, <1>3 DEF LogOK
<1>7. PICK b \in Batches : b = log[Consumes[s]][p][i]
    BY <1>4
<1>8. Complete(s, b) => Complete(s, b)'
    BY Growing, DoneStays
<1>9. Complete(s, log[Consumes[s]][p][i]) => Complete(s, log[Consumes[s]][p][i])'
    BY <1>5, <1>7, <1>8
<1> QED
    BY <1>4, <1>5, <1>6, <1>9

LEMMA ReadIsDoneStep ==
    ASSUME Types, JobsAreWhole, JobsAreWhole', ReadIsDone, AckMeansDone, [Next]_vars
    PROVE  ReadIsDone'
<1> SUFFICES ASSUME NEW s \in Stages, NEW p \in Partitions, NEW i \in 1..position'[s][p],
                    worker'[s].pc # "down"
             PROVE  \/ Complete(s, log[Consumes[s]][p][i])'
                    \/ worker'[s].pc \in Busy /\ worker'[s].batch = log'[Consumes[s]][p][i]
    BY DEF ReadIsDone
<1>1. OffsetsOK /\ WorkersOK /\ s \in Workers /\ s # Cli
    BY CliIsNoConsumer DEF Types, Workers
<1>2. /\ worker[s].pc = "down" \/ worker[s].pc = "polling" \/ worker[s].pc \in Busy
      /\ worker[s].pc \in Busy => worker[s] \in JobOf(s)
    BY <1>1, JobFields DEF WorkersOK, Idle, Polling, Busy
<1>3. CASE position'[s] = position[s] /\ worker'[s] = worker[s]
    <2>1. \/ Complete(s, log[Consumes[s]][p][i])
          \/ worker[s].pc \in Busy /\ worker[s].batch = log[Consumes[s]][p][i]
        BY <1>3 DEF ReadIsDone
    <2> QED
        BY <1>3, <2>1, ReadMessages
<1>4. CASE Restart(s)
    <2>1. position'[s] = offset[s]
        BY <1>1, <1>4 DEF Restart, OffsetsOK
    <2>2. offset[s][p] <= position[s][p] /\ offset[s][p] \in Nat /\ position[s][p] \in Nat
        BY <1>1 DEF OffsetsOK
    <2>3. i \in 1..offset[s][p] /\ i \in 1..position[s][p]
        BY <2>1, <2>2
    <2>4. Complete(s, log[Consumes[s]][p][i])
        BY <2>3 DEF AckMeansDone
    <2> QED
        BY <2>3, <2>4, ReadMessages
<1>5. CASE Commit(s)
    <2>1. worker[s].pc = "committing" /\ position' = position
        BY <1>5 DEF Commit, At
    <2>2. Complete(s, worker[s].batch)
        BY <2>1 DEF JobsAreWhole, Busy
    <2>3. Complete(s, log[Consumes[s]][p][i])
        BY <2>1, <2>2 DEF ReadIsDone
    <2> QED
        BY <2>1, <2>3, ReadMessages
<1>6. ASSUME NEW q \in Partitions, Poll(s, q)
      PROVE  \/ Complete(s, log[Consumes[s]][p][i])'
             \/ worker'[s].pc \in Busy /\ worker'[s].batch = log'[Consumes[s]][p][i]
    <2>1. /\ worker'[s].batch = log[Consumes[s]][q][position[s][q] + 1]
          /\ worker'[s].pc \in Busy
          /\ worker[s] = Polling
        BY <1>6, Polled DEF Busy
    <2>2. log' = log /\ position[s][p] \in Nat
          /\ position'[s][p] = IF p = q THEN position[s][p] + 1 ELSE position[s][p]
        BY <1>1, <1>6 DEF Poll, broker, OffsetsOK
    <2>3. CASE i \in 1..position[s][p]
        <3>1. Complete(s, log[Consumes[s]][p][i])
            BY <2>1, <2>3 DEF ReadIsDone, Polling, Busy
        <3> QED
            BY <2>3, <3>1, ReadMessages
    <2>4. CASE i \notin 1..position[s][p]
        <3>1. p = q /\ i = position[s][q] + 1
            BY <2>2, <2>4
        <3> QED
            BY <2>1, <2>2, <3>1
    <2> QED
        BY <2>3, <2>4
<1>7. ASSUME position'[s] = position[s], worker[s].pc \in Busy, worker'[s].pc \in Busy,
             worker'[s].batch = worker[s].batch
      PROVE  \/ Complete(s, log[Consumes[s]][p][i])'
             \/ worker'[s].pc \in Busy /\ worker'[s].batch = log'[Consumes[s]][p][i]
    <2>1. \/ Complete(s, log[Consumes[s]][p][i])
          \/ worker[s].batch = log[Consumes[s]][p][i]
        BY <1>7 DEF ReadIsDone, Busy
    <2> QED
        BY <1>7, <2>1, ReadMessages
<1>8. CASE worker[s].pc = "publishing" /\ worker'[s].pc = "committing"
             /\ worker'[s].batch = worker[s].batch /\ position'[s] = position[s]
    BY <1>7, <1>8 DEF Busy
<1>9. CASE Work(s) /\ position'[s] = position[s]
    <2>1. worker[s].pc \in Busy /\ worker'[s].pc \in Busy /\ worker'[s].batch = worker[s].batch
        BY <1>1, <1>9, WorkEffect DEF Busy
    <2> QED
        BY <1>7, <1>9, <2>1
<1>10. worker'[s] # Idle
    BY DEF Idle
<1> QED
    BY <1>3, <1>4, <1>5, <1>6, <1>8, <1>9, <1>10, TurnSteps

LEMMA AckMeansDoneStep ==
    ASSUME Types, JobsAreWhole, ReadIsDone, AckMeansDone, [Next]_vars
    PROVE  AckMeansDone'
<1> SUFFICES ASSUME NEW s \in Stages, NEW p \in Partitions, NEW i \in 1..offset'[s][p]
             PROVE  Complete(s, log[Consumes[s]][p][i])'
    BY DEF AckMeansDone
<1>1. OffsetsOK
    BY DEF Types
<1>2. offset[s][p] <= position[s][p] /\ offset[s][p] \in Nat /\ position[s][p] \in Nat
    BY <1>1 DEF OffsetsOK
<1>3. CASE offset'[s][p] = offset[s][p]
    <2>1. i \in 1..offset[s][p] /\ i \in 1..position[s][p]
        BY <1>2, <1>3
    <2>2. Complete(s, log[Consumes[s]][p][i])
        BY <2>1 DEF AckMeansDone
    <2> QED
        BY <2>1, <2>2, ReadMessages
<1>4. CASE Commit(s) /\ offset'[s][p] = position[s][p]
    <2>1. worker[s].pc = "committing" /\ i \in 1..position[s][p]
        BY <1>4 DEF Commit, At
    <2>2. Complete(s, worker[s].batch)
        BY <2>1 DEF JobsAreWhole, Busy
    <2>3. Complete(s, log[Consumes[s]][p][i])
        BY <2>1, <2>2 DEF ReadIsDone
    <2> QED
        BY <2>1, <2>3, ReadMessages
<1>5. Commit(s) => offset'[s][p] = position[s][p] \/ offset'[s][p] = offset[s][p]
    BY <1>1 DEF Commit, OffsetsOK
<1>6. Restart(s) => offset' = offset
    BY DEF Restart, broker
<1>7. \A q \in Partitions : Poll(s, q) => offset' = offset
    BY DEF Poll, broker
<1> QED
    BY <1>3, <1>4, <1>5, <1>6, <1>7, TurnSteps

---------------------------------------------------------------------------
MessageInv ==
    Types /\ Order /\ LogsAreSound /\ JobsAreWhole /\ ReadIsDone /\ AckMeansDone

LEMMA MessageInvHolds == Spec => []MessageInv
<1>1. Init => MessageInv
    <2> SUFFICES ASSUME Init
                 PROVE  Order /\ LogsAreSound /\ JobsAreWhole /\ ReadIsDone /\ AckMeansDone
        BY TypesHoldAtFirst DEF MessageInv
    <2>1. Order
        BY DEF Init, Order, NoItems
    <2>2. \A t \in Topics : Sent(t) = {}
        BY DEF Init, Sent
    <2>3. LogsAreSound
        BY <2>2, StageTopics DEF Init, LogsAreSound, Topics
    <2>4. \A s \in Stages : worker[s].pc = "polling"
        BY CliIsNoConsumer DEF Init, Polling
    <2>5. JobsAreWhole
        BY <2>4 DEF JobsAreWhole, Busy
    <2>6. \A s \in Stages, p \in Partitions : 1..position[s][p] = {} /\ 1..offset[s][p] = {}
        BY DEF Init
    <2>7. ReadIsDone /\ AckMeansDone
        BY <2>6 DEF ReadIsDone, AckMeansDone
    <2> QED
        BY <2>1, <2>3, <2>5, <2>7
<1>2. RecordInv /\ MessageInv /\ [Next]_vars => MessageInv'
    BY TypesStep, OrderStep, LogsAreSoundStep, JobsAreWholeStep, ReadIsDoneStep, AckMeansDoneStep
       DEF RecordInv, MessageInv
<1> QED
    BY <1>1, <1>2, RecordInvHolds, PTL DEF Spec

\* An event never runs ahead of its data, nor the receipt of an announcement ahead
\* of the event, wherever processes die and whatever is delivered twice.
THEOREM DataComesFirst == Spec => []EventsFollowData
<1>1. MessageInv => EventsFollowData
    BY DEF MessageInv, LogsAreSound, EventsFollowData, Topics
<1> QED
    BY <1>1, MessageInvHolds, PTL

\* A committed offset is a promise kept: the work of the stage on every message
\* before it is complete.
THEOREM AcknowledgedIsDone == Spec => []AckMeansDone
<1>1. MessageInv => AckMeansDone
    BY DEF MessageInv
<1> QED
    BY <1>1, MessageInvHolds, PTL
============================================================================
