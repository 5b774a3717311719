------------------------- MODULE EntityResolution -------------------------
(***************************************************************************)
(* Entity resolution of completed batches: runs of resolve_batch that look *)
(* up, decide and commit record by record, the match candidates they file, *)
(* the stewards who accept (merge) or reject them, and the reblock tool,   *)
(* which merges groups of entities that share a strong key and a name.     *)
(* Every transaction reads committed state and takes no lock, so a         *)
(* decision and its write are two steps.                                   *)
(*                                                                         *)
(* Records are numbered in file order and entities in order of creation.   *)
(* A key is a model value with a type; what it is worth is KEY_WEIGHTS in  *)
(* hundredths, and it is strong or moderate for the record that builds it. *)
(* A record is resolved in the role self; employers are not in this model. *)
(***************************************************************************)
EXTENDS MatchScore, Sequences

CONSTANTS
    Records,        \* records, numbered in file order
    Batches,        \* completed batches
    BatchOf,        \* BatchOf[r]: the batch r belongs to
    StrongKeys,     \* keys whose type is strong
    DemotedKeys,    \* keys whose type a location source demotes
    NameKeys,       \* keys that are a name
    NoName,         \* the name of an entity whose golden record has none yet
    Runs,           \* processes that run resolve_batch
    Stewards,       \* people deciding candidates
    MaxRuns,        \* bound: runs started
    MaxDecisions,   \* bound: candidates read by stewards
    MaxSweeps       \* bound: reblock commands started

ASSUME RecordAssumption ==
    /\ Records \subseteq Nat /\ IsFiniteSet(Records)
    /\ BatchOf \in [Records -> Batches]
ASSUME KeyAssumption ==
    /\ StrongKeys \subseteq Keys
    /\ DemotedKeys \subseteq Keys
    /\ NameKeys \subseteq Keys
    /\ NoName \notin NameKeys
ASSUME ProcessAssumption ==
    Runs \cap Stewards = {} /\ "reblock" \notin Runs \cup Stewards
ASSUME BoundAssumption == MaxRuns \in Nat /\ MaxDecisions \in Nat /\ MaxSweeps \in Nat

VARIABLES
    keysOf,     \* keysOf[r]: the keys keys_for builds from r's confirmed values
    premises,   \* batches of a source that describes locations
    ready,      \* records in resolvable_record
    entity,     \* entity rows and their identity keys, in order of creation
    link,       \* link[r]: r's record_entity_link row in the role self
    cand,       \* match_candidate rows, keyed by record and entity
    merges,     \* entity_merge rows
    run,        \* run[p]: the records a run has yet to write, and its next decision
    desk,       \* desk[s]: what a steward's command is about to write
    sweep,      \* the groups that reblock has yet to merge
    budget      \* what the bounds leave

vars == <<keysOf, premises, ready, entity, link, cand, merges, run, desk, sweep, budget>>
rows == <<entity, link, cand, merges>>

---------------------------------------------------------------------------
HopLimit == 16

Ids == 1..Len(entity)
Active(e) == e \in Ids /\ entity[e].status = "active"

Unlinked == [entity |-> NoEntity, status |-> "none", evidence |-> {}]
Linked(r) == link[r].entity # NoEntity

EntityRow == [status : {"active", "merged"}, into : Nat, keys : SUBSET Keys,
              strong : SUBSET Keys]
LinkRow == [entity : Nat, status : {"none", "auto_linked", "new_entity"},
            evidence : SUBSET Keys]
Candidate == [record : Records, entity : Nat, status : {"open", "accepted", "rejected"}]
Decision == [record : Records, kind : {"link", "review", "new_entity"}, match : Nat,
             evidence : SUBSET Keys]
Ruling == [record : Records, entity : Nat, verdict : {"accepted", "rejected"},
           merged : Nat, surviving : Nat]
Budget == [run : Nat, decide : Nat, sweep : Nat]

\* The keys that are strong for the record that holds them.
StrongFor(r) == (keysOf[r] \cap StrongKeys) \ (IF BatchOf[r] \in premises THEN DemotedKeys ELSE {})

---------------------------------------------------------------------------
\* The active entities that share a key with r, and the keys they share; a key
\* is strong when both the record and the entity hold it as strong.
Overlap(r, e) == keysOf[r] \cap entity[e].keys
StrongOverlap(r, e) == StrongFor(r) \cap entity[e].strong
Candidates(r) == {e \in Ids : Active(e) /\ Overlap(r, e) # {}}

Decisions(r) ==
    LET outcomes == Outcomes([e \in Candidates(r) |-> Overlap(r, e)],
                             [e \in Candidates(r) |-> StrongOverlap(r, e)])
    IN {[record |-> r, kind |-> o.kind, match |-> o.match,
         evidence |-> IF o.match = NoEntity THEN {} ELSE Overlap(r, o.match)] : o \in outcomes}

\* add_keys: a key the entity already has keeps the strength it was stored with.
WithKeys(row, keys, strong) ==
    [row EXCEPT !.keys = @ \cup keys, !.strong = @ \cup (strong \ row.keys)]

\* resolve_entity_id: follow tombstones for at most HopLimit rows.
Resolve(e) ==
    LET at[n \in 0..HopLimit] ==
            IF n = 0 THEN e
            ELSE LET previous == at[n - 1]
                 IN IF Active(previous) THEN previous ELSE entity[previous].into
        last == at[HopLimit - 1]
    IN IF Active(last) THEN last ELSE NoEntity

---------------------------------------------------------------------------
Idle == [pc |-> "idle", todo |-> {}, found |-> {}]

Init ==
    /\ keysOf \in [Records -> SUBSET Keys]
    /\ premises \in SUBSET Batches
    /\ ready \in SUBSET Records
    /\ entity = <<>>
    /\ link = [r \in Records |-> Unlinked]
    /\ cand = {}
    /\ merges = {}
    /\ run = [p \in Runs |-> Idle]
    /\ desk = [s \in Stewards |-> {}]
    /\ sweep = {}
    /\ budget = [run |-> MaxRuns, decide |-> MaxDecisions, sweep |-> MaxSweeps]

\* Validation clears a record, or a person releases it from quarantine.
Release(r) ==
    /\ r \notin ready
    /\ ready' = ready \cup {r}
    /\ UNCHANGED <<keysOf, premises, rows, run, desk, sweep, budget>>

\* resolve_batch lists its unresolved records once, and refuses an empty list.
Unresolved(b) == {r \in ready : BatchOf[r] = b /\ ~Linked(r)}

StartRun(p, b) ==
    /\ run[p].pc = "idle"
    /\ budget.run > 0
    /\ Unresolved(b) # {}
    /\ run' = [run EXCEPT ![p] = [pc |-> "deciding", todo |-> Unresolved(b), found |-> {}]]
    /\ budget' = [budget EXCEPT !.run = @ - 1]
    /\ UNCHANGED <<keysOf, premises, ready, rows, desk, sweep>>

\* The next record in row order is looked up and decided on ...
Lookup(p) ==
    /\ run[p].pc = "deciding"
    /\ \E r \in run[p].todo :
        /\ \A other \in run[p].todo : r <= other
        /\ \E d \in Decisions(r) :
             run' = [run EXCEPT ![p] = [@ EXCEPT !.pc = "writing", !.found = {d}]]
    /\ UNCHANGED <<keysOf, premises, ready, rows, desk, sweep, budget>>

\* ... and apply_decision writes the consequences in one transaction.  A record
\* that has a link by now keeps it; everything else is written all the same.
LinkUnlessLinked(r, e, status, evidence) ==
    link' = IF Linked(r) THEN link
            ELSE [link EXCEPT ![r] = [entity |-> e, status |-> status, evidence |-> evidence]]

\* Faulty: the record's own keys do not join the entity.
JoinWithoutKeys(d) ==
    /\ d.kind = "link"
    /\ LinkUnlessLinked(d.record, d.match, "auto_linked", d.evidence)
    /\ UNCHANGED <<entity, cand>>

JoinEntity(d) ==
    /\ d.kind = "link"
    /\ LinkUnlessLinked(d.record, d.match, "auto_linked", d.evidence)
    /\ entity' = [entity EXCEPT ![d.match] =
                    WithKeys(@, keysOf[d.record], StrongFor(d.record))]
    /\ UNCHANGED cand

FoundEntity(d) ==
    LET new == Len(entity) + 1
    IN /\ d.kind # "link"
       /\ LinkUnlessLinked(d.record, new, "new_entity", {})
       /\ entity' = Append(entity, [status |-> "active", into |-> NoEntity,
                                    keys |-> keysOf[d.record],
                                    strong |-> StrongFor(d.record)])
       /\ cand' = IF \/ d.kind # "review"
                     \/ \E c \in cand : c.record = d.record /\ c.entity = d.match
                  THEN cand
                  ELSE cand \cup {[record |-> d.record, entity |-> d.match,
                                   status |-> "open"]}

Write(p) ==
    /\ run[p].pc = "writing"
    /\ \E d \in run[p].found :
        /\ JoinEntity(d) \/ FoundEntity(d)
        /\ run' = [run EXCEPT ![p] =
                     IF run[p].todo = {d.record} THEN Idle
                     ELSE [pc |-> "deciding", todo |-> @.todo \ {d.record}, found |-> {}]]
    /\ UNCHANGED <<keysOf, premises, ready, merges, desk, sweep, budget>>

\* The process dies; its records are listed again by the next run.
Crash(p) ==
    /\ run[p].pc # "idle"
    /\ run' = [run EXCEPT ![p] = Idle]
    /\ UNCHANGED <<keysOf, premises, ready, rows, desk, sweep, budget>>

\* Faulty: the ids on the rows are merged as they stand, tombstones or not.
ReadUnresolved(s, c, verdict) ==
    /\ desk[s] = {}
    /\ budget.decide > 0
    /\ c.status = "open"
    /\ desk' = [desk EXCEPT ![s] =
                  {[record |-> c.record, entity |-> c.entity, verdict |-> verdict,
                    merged |-> link[c.record].entity, surviving |-> c.entity]}]
    /\ budget' = [budget EXCEPT !.decide = @ - 1]
    /\ UNCHANGED <<keysOf, premises, ready, rows, run, sweep>>

\* A steward's command reads an open candidate and the survivors of both sides.
ReadCandidate(s, c, verdict) ==
    LET ResolvedIf(e) == IF verdict = "accepted" THEN Resolve(e) ELSE NoEntity
        merged == ResolvedIf(link[c.record].entity)
        surviving == ResolvedIf(c.entity)
    IN /\ desk[s] = {}
       /\ budget.decide > 0
       /\ c.status = "open"
       /\ verdict = "accepted" => merged # NoEntity /\ surviving # NoEntity
       /\ desk' = [desk EXCEPT ![s] =
                     {[record |-> c.record, entity |-> c.entity, verdict |-> verdict,
                       merged |-> merged, surviving |-> surviving]}]
       /\ budget' = [budget EXCEPT !.decide = @ - 1]
       /\ UNCHANGED <<keysOf, premises, ready, rows, run, sweep>>

CloseCandidate(d) ==
    cand' = {IF c.record = d.record /\ c.entity = d.entity
             THEN [c EXCEPT !.status = d.verdict] ELSE c : c \in cand}

\* The records whose link names e.
RecordsOf(e) == {r \in Records : link[r].entity = e}

\* Faulty merges: one that points the tombstones nowhere, one that moves no link and
\* one that moves some of them.
Absorb(absorbed, surviving, into, moved) ==
    /\ entity' = [e \in Ids |->
         IF e = surviving
         THEN WithKeys(entity[e], UNION {entity[m].keys : m \in absorbed}, {})
         ELSE IF e \in absorbed
         THEN [entity[e] EXCEPT !.status = "merged", !.into = into]
         ELSE entity[e]]
    /\ link' = [r \in Records |->
         IF r \in moved THEN [link[r] EXCEPT !.entity = surviving] ELSE link[r]]
    /\ merges' = merges \cup [merged : absorbed, surviving : {surviving}]

MergePointingNowhere(absorbed, surviving) ==
    Absorb(absorbed, surviving, NoEntity, UNION {RecordsOf(e) : e \in absorbed})

MergeMovingNothing(absorbed, surviving) == Absorb(absorbed, surviving, surviving, {})

MergeMovingFounders(absorbed, surviving) ==
    Absorb(absorbed, surviving, surviving,
           {r \in Records : link[r].entity \in absorbed /\ link[r].status = "new_entity"})

\* merge_entities, for one entity or one after the other in order of their ids: the
\* survivor takes over links and keys, a key it lacks with the strength of the first
\* that brings it, and the others become tombstones that keep their own keys.  The
\* status of neither side is looked at.
MergeEntities(absorbed, surviving) ==
    LET brought == UNION {entity[e].keys : e \in absorbed}
        Bringing(k) == {e \in absorbed : k \in entity[e].keys}
        strong == {k \in brought : \E e \in Bringing(k) :
                      k \in entity[e].strong /\ \A f \in Bringing(k) : e <= f}
    IN /\ entity' = [e \in Ids |->
            IF e = surviving THEN WithKeys(entity[e], brought, strong)
            ELSE IF e \in absorbed
            THEN [entity[e] EXCEPT !.status = "merged", !.into = surviving]
            ELSE entity[e]]
       /\ link' = [r \in Records |->
            IF link[r].entity \in absorbed THEN [link[r] EXCEPT !.entity = surviving]
            ELSE link[r]]
       /\ merges' = merges \cup [merged : absorbed, surviving : {surviving}]

Rule(s) ==
    \E d \in desk[s] :
        /\ CloseCandidate(d)
        /\ IF d.verdict = "accepted" /\ d.merged # d.surviving
           THEN MergeEntities({d.merged}, d.surviving)
           ELSE UNCHANGED <<entity, link, merges>>
        /\ desk' = [desk EXCEPT ![s] = {}]
        /\ UNCHANGED <<keysOf, premises, ready, run, sweep, budget>>

---------------------------------------------------------------------------
\* The names that the golden record of e may show: what its records call it.
Names(e) == {k \in NameKeys : \E r \in RecordsOf(e) : k \in keysOf[r]}

\* duplicate_groups: for each strong key and each name, the active entities that have
\* both.  The type of the key counts here, not the strength it was stored with.
Groups(named) ==
    {g \in {{e \in Ids : Active(e) /\ k \in entity[e].keys /\ named[e] = n} :
                k \in StrongKeys, n \in NameKeys} : Cardinality(g) > 1}

\* reblock --merge lists all groups once, under the names of the golden records as
\* far as they are built ...
StartSweep ==
    /\ sweep = {}
    /\ budget.sweep > 0
    /\ \E named \in [Ids -> NameKeys \cup {NoName}] :
        /\ \A e \in Ids : named[e] \in Names(e) \cup {NoName}
        /\ sweep' = Groups(named)
    /\ sweep' # {}
    /\ budget' = [budget EXCEPT !.sweep = @ - 1]
    /\ UNCHANGED <<keysOf, premises, ready, rows, run, desk>>

\* The entity with the most records, the oldest of several.
Observed(e) == Cardinality(RecordsOf(e))
Survivor(g) ==
    CHOOSE e \in g : \A other \in g \ {e} :
        \/ Observed(other) < Observed(e)
        \/ Observed(other) = Observed(e) /\ e < other

\* ... and merges one group per transaction.  A merge that the database refuses takes
\* those before it back with it, a rebuild of the survivor that fails all of them, and
\* the next group follows.
SweepGroup(g) ==
    /\ g \in sweep
    /\ LET others == g \ {Survivor(g)}
       IN \E refused \in others \cup {NoEntity} :
            MergeEntities({e \in others : e > refused}, Survivor(g))
    /\ sweep' = sweep \ {g}
    /\ UNCHANGED <<keysOf, premises, ready, cand, run, desk, budget>>

\* The tool dies, or --limit ends it.
StopSweep ==
    /\ sweep # {}
    /\ sweep' = {}
    /\ UNCHANGED <<keysOf, premises, ready, rows, run, desk, budget>>

Resolution ==
    \/ \E r \in Records : Release(r)
    \/ \E p \in Runs, b \in Batches : StartRun(p, b)
    \/ \E p \in Runs : Lookup(p) \/ Write(p) \/ Crash(p)
    \/ \E s \in Stewards, c \in cand, verdict \in {"accepted", "rejected"} :
          ReadCandidate(s, c, verdict)
    \/ \E s \in Stewards : Rule(s)

Reblock == StartSweep \/ StopSweep \/ \E g \in sweep : SweepGroup(g)

Next == Resolution \/ Reblock

\* Every interleaving of runs and decisions, with the tool and without it.
Spec == Init /\ [][Next]_vars
ResolutionSpec == Init /\ [][Resolution]_vars

\* One command at a time.
Busy == {p \in Runs : run[p].pc # "idle"} \cup {s \in Stewards : desk[s] # {}}
            \cup {t \in {"reblock"} : sweep # {}}
OneAtATime == \A a, b \in Busy : a = b

SerialSpec == Init /\ [][Next /\ OneAtATime']_vars

---------------------------------------------------------------------------
\* Every variable holds a value of its kind, and every row refers to rows that
\* exist: links, candidates and pending writes name entities already created.
TypeOK ==
    /\ keysOf \in [Records -> SUBSET Keys]
    /\ premises \in SUBSET Batches
    /\ ready \in SUBSET Records
    /\ entity \in Seq(EntityRow)
    /\ link \in [Records -> LinkRow]
    /\ cand \in SUBSET Candidate
    /\ merges \in SUBSET [merged : Ids, surviving : Ids]
    /\ run \in [Runs -> [pc : {"idle", "deciding", "writing"}, todo : SUBSET Records,
                         found : SUBSET Decision]]
    /\ desk \in [Stewards -> SUBSET Ruling]
    /\ sweep \subseteq SUBSET Ids
    /\ budget \in Budget
    /\ \A r \in Records : link[r].entity \in Ids \cup {NoEntity}
    /\ \A c \in cand : c.entity \in Ids /\ Linked(c.record)
    /\ \A e \in Ids : entity[e].status = "merged" => entity[e].into \in Ids

\* "Three people at one company share a name pattern, a city and a switchboard
\* number; none of that makes them one person" (scoring.py): an automatic link
\* rests on a key that is strong for the record's own source, under every
\* interleaving of runs and merges.
AutoLinkNeedsStrongKey ==
    \A r \in Records : link[r].status = "auto_linked" =>
        link[r].evidence \cap StrongFor(r) # {}

\* "No entity without a record observing it" (verify.sql, check 6), and no link that
\* names a tombstone: what a record says always reaches the golden record of the
\* entity that stands for it, and every entity that can be published has someone's word.
LinksAndEntitiesAgree ==
    /\ \A e \in Ids : Active(e) => RecordsOf(e) # {}
    /\ \A r \in Records : Linked(r) => Active(link[r].entity)

\* find_entities: what a search by a key yields.
FindEntities(k) == {e \in Ids : Active(e) /\ k \in entity[e].keys}

\* "Losing either would mean a later record fails to match" (add_keys), and "an entity
\* is findable by every identifier any vendor ever gave it" (find_entities): the
\* survivor that a record's link leads to is found by every key the record built.
SurvivorHasRecordKeys ==
    \A r \in Records : Linked(r) =>
        \A k \in keysOf[r] : Resolve(link[r].entity) \in FindEntities(k)

\* "Any id already handed out downstream still resolves" (merge_entities): every
\* entity ever created leads to an active one.
EveryIdResolves == \A e \in Ids : Resolve(e) # NoEntity

\* An entity is absorbed by one survivor, so that its id leads to the entity that its records
\* went to ("the absorbed id keeps resolving via entity.merged_into", migration 0006).
\* Groups that reblock lists may overlap: what the first has absorbed, the second
\* absorbs again, with no records, and its id then leads to the second survivor.
AbsorbedOnce ==
    \A m, n \in merges : m.merged = n.merged => m = n

\* Runs, stewards and the tool only ever grow clusters: a record is identified once, and
\* two records on one entity stay on one entity, in every interleaving.
Clusters == {RecordsOf(e) : e \in Ids} \ {{}}
Identity == INSTANCE IdentityClusters WITH clusters <- Clusters
IdentityIsPermanent == Identity!Spec

===========================================================================
