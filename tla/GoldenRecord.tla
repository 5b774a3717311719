--------------------------- MODULE GoldenRecord ---------------------------
(***************************************************************************)
(* The trusted values of entities, built by several transactions at once:  *)
(* records that are linked and built in one transaction (process), builds  *)
(* of the golden stage (build_one, build_batch), and merges.               *)
(*                                                                         *)
(* Postgres is modelled by what this code uses of it: READ COMMITTED       *)
(* reads, now() fixed when a transaction begins, the row locks on entity   *)
(* (FOR UPDATE of lock_entity, and the share lock that a foreign key takes *)
(* on the entity it points at), the partial unique index and the CHECK of  *)
(* golden_attribute, and the victim chosen when transactions wait on each  *)
(* other.  An entity is here from the start, with the record it was        *)
(* created for and no value built yet, as the batch stages leave it.       *)
(***************************************************************************)
EXTENDS Integers, Sequences, FiniteSets

CONSTANTS
    Entities,
    Kind,           \* Kind[e]: person or company
    Records,        \* records by number, the ones entities were created for included
    Founder,        \* Founder[e]: the record entity e was created for
    Targets,        \* Targets[r]: the entities whose keys r carries, its own first
    Claims,         \* Claims[r][i][f]: what r says of its i-th target, Blank or None
    SourceOf,       \* SourceOf[r]: the source of r, in the order of their names
    Reliability,    \* Reliability[s], in hundredths
    Fields,
    Strategy,       \* Strategy[f]
    Workers,        \* processes that handle records
    Builders,       \* processes of the golden stage
    GoldenFlags,    \* whether records are built: {TRUE}, {FALSE} with --no-golden
    MaxTries,       \* bound: records started, the replays of failed ones included
    MaxBuilds,      \* bound: builds started by the golden stage
    MaxMerges       \* bound: merges

None == 0           \* no cell; values are positive integers
Blank == -1         \* a cell without a value: empty, a null token or not parsed
Open == 0           \* valid_to of a current value; times are positive integers

ASSUME RecordAssumption ==
    /\ Records \subseteq Nat \ {None} /\ IsFiniteSet(Records)
    /\ SourceOf \in [Records -> Nat]
    /\ \A r \in Records : Reliability[SourceOf[r]] \in 0..100
\* A record names itself and, when it is about a person, the employer.
ASSUME ClaimAssumption ==
    /\ Targets \in [Records -> Seq(Entities)]
    /\ \A r \in Records : /\ Claims[r] \in [1..Len(Targets[r]) -> [Fields -> Nat \cup {Blank}]]
                          /\ Len(Targets[r]) \in 1..2
    /\ \A e \in Entities : Founder[e] \in Records /\ Targets[Founder[e]] = <<e>>
ASSUME StrategyAssumption ==
    Strategy \in [Fields -> {"most_reliable_source", "most_recent", "most_frequent", "earliest"}]
ASSUME BoundAssumption == MaxTries \in Nat /\ MaxBuilds \in Nat /\ MaxMerges \in Nat
    /\ GoldenFlags \subseteq BOOLEAN

VARIABLES
    link,       \* link[r]: the entities that r is linked to, one for each role, or <<>>
    observedAt, \* observedAt[r]: when the observations of r were made
    home,       \* home[e]: the active entity that has the keys of e, e itself until a merge
    golden,     \* golden[e][f]: the rows of golden_attribute, in order of insertion
    txn,        \* txn[p]: the open transaction of p
    clock,      \* the time of the latest transaction to begin
    stale,      \* history: entities whose links changed since they were built
    budget      \* what the bounds leave

vars == <<link, observedAt, home, golden, txn, clock, stale, budget>>

---------------------------------------------------------------------------
Procs == Workers \cup Builders
Founders == {Founder[e] : e \in Entities}

\* The transaction of p: pc is what it does next; todo, the entities still to be
\* linked or built; shared and locked, the rows it has locks on; read, what it read
\* of each entity it builds.
Txn == [pc : {"idle", "linking", "building", "refused"}, why : {"", "index", "check"},
        record : Records \cup {None}, began : Nat, targets : Seq(Entities),
        todo : Seq(Entities), build : BOOLEAN, shared : SUBSET Entities, locked : SUBSET Entities]
Idle == [pc |-> "idle", why |-> "", record |-> None, began |-> 0,
         targets |-> <<>>, todo |-> <<>>, build |-> FALSE, shared |-> {}, locked |-> {}, read |-> {}]

\* Faulty: no row is locked.
BlockedByNobody(p) == {q \in Procs : FALSE}

\* The transactions that p waits for to take its next lock: FOR UPDATE excludes every
\* other lock on the row, the share lock of a foreign key only FOR UPDATE.
BlockedBy(p) ==
    {q \in Procs \ {p} :
        /\ txn[p].todo # <<>>
        /\ \/ Head(txn[p].todo) \in txn[q].locked
           \/ txn[p].pc = "building" /\ Head(txn[p].todo) \in txn[q].shared}

Deadlocked(p) == \E S \in SUBSET Procs : p \in S /\ \A q \in S : BlockedBy(q) \cap S # {}

---------------------------------------------------------------------------
\* The links to e, each with the role that its record is linked in.
LinksTo(links, e) ==
    {x \in Records \X (1..2) : x[2] \in DOMAIN links[x[1]] /\ links[x[1]][x[2]] = e}

\* What the records of these links say of field f: a blank cell says nothing.
Observations(those, f) ==
    {[value |-> Claims[x[1]][x[2]][f], source |-> SourceOf[x[1]], record |-> x[1],
      at |-> observedAt[x[1]]] : x \in {y \in those : Claims[y[1]][y[2]][f] > None}}

\* Lexicographic order of tuples of one length.
Before(a, b) == \E i \in DOMAIN a : a[i] < b[i] /\ \A j \in 1..(i - 1) : a[j] = b[j]

\* _tiebreak_key, and the keys that the strategies put before it.  The record makes
\* the order total: two records of a source may say the same thing at the same time.
Tiebreak(o) == <<-Reliability[o.source], -o.at, o.source, o.value, o.record>>
Sources(obs) == {o.source : o \in obs}
Saying(obs, v) == {o \in obs : o.value = v}
Leading(f, obs, o) ==
    CASE Strategy[f] = "most_recent"   -> -o.at
      [] Strategy[f] = "earliest"      -> o.at
      [] Strategy[f] = "most_frequent" -> -Cardinality(Sources(Saying(obs, o.value)))
      [] OTHER                         -> 0
Rank(f, obs, o) == <<Leading(f, obs, o)>> \o Tiebreak(o)

\* Faulty: confidence is not bounded.
Unclamped(n) == n

Clamp(n) == IF n < 5 THEN 5 ELSE IF n > 99 THEN 99 ELSE n

\* What is written when o wins: its value, and the numbers the value is justified by.
Choice(obs, o) ==
    LET supporting == Cardinality(Sources(Saying(obs, o.value)))
        dissenting == Cardinality(Sources(obs \ Saying(obs, o.value)))
    IN [value |-> o.value, record |-> o.record, supporting |-> supporting,
        competing |-> Cardinality({u.value : u \in obs}),
        confidence |-> Clamp(Reliability[o.source] + 15 * (supporting - 1) - 10 * dissenting)]

\* choose: the one choice for field f, and none if nothing is said of it.
Choose(f, obs) ==
    {Choice(obs, o) :
        o \in {w \in obs : \A u \in obs \ {w} : Before(Rank(f, obs, w), Rank(f, obs, u))}}

Evidence(c) == <<c.supporting, c.competing, c.confidence>>

---------------------------------------------------------------------------
OpenRows(rows) == {i \in DOMAIN rows : rows[i].to = Open}
NewRow(c, now) == [choice |-> c, from |-> now, to |-> Open, by |-> 0]

\* A row is inserted and the row it replaces, if there is one, closed and linked to it.
Replace(rows, old, c, now) ==
    Append([i \in DOMAIN rows |-> IF i \in old
                THEN [rows[i] EXCEPT !.to = now, !.by = Len(rows) + 1] ELSE rows[i]],
           NewRow(c, now))

\* A row that stands takes the choice that justifies it now, when its numbers differ.
Refreshed(rows, same, c) ==
    [i \in DOMAIN rows |->
        IF i \in same /\ Evidence(rows[i].choice) # Evidence(c)
        THEN [rows[i] EXCEPT !.choice = c] ELSE rows[i]]

\* Faulty: a value is written anew by every build.
RewriteField(rows, old, choices, now) ==
    IF choices = {} THEN
        [i \in DOMAIN rows |-> IF i \in old THEN [rows[i] EXCEPT !.to = now] ELSE rows[i]]
    ELSE Replace(rows, old, CHOOSE x \in choices : TRUE, now)

\* Faulty: a value that stands keeps the evidence it was written with.
KeepEvidence(rows, old, choices, now) ==
    IF choices = {} THEN
        [i \in DOMAIN rows |-> IF i \in old THEN [rows[i] EXCEPT !.to = now] ELSE rows[i]]
    ELSE
        LET c == CHOOSE x \in choices : TRUE
        IN IF \E i \in old : rows[i].choice.value = c.value THEN rows
           ELSE Replace(rows, old, c, now)

\* One field of build_entity: old holds the index of the row that was read as
\* current, and choices the choice, where there is one.
BuildField(rows, old, choices, now) ==
    IF choices = {} THEN
        [i \in DOMAIN rows |-> IF i \in old THEN [rows[i] EXCEPT !.to = now] ELSE rows[i]]
    ELSE
        LET c == CHOOSE x \in choices : TRUE
            same == {i \in old : rows[i].choice.value = c.value}
        IN IF same = {} THEN Replace(rows, old, c, now) ELSE Refreshed(rows, same, c)

\* The partial unique index and the CHECK of golden_attribute.
UniqueCurrent(rows) == Cardinality(OpenRows(rows)) <= 1
WindowsInOrder(rows) == \A i \in DOMAIN rows : rows[i].to = Open \/ rows[i].to >= rows[i].from

---------------------------------------------------------------------------
Init ==
    /\ link = [r \in Records |-> IF r \in Founders THEN Targets[r] ELSE <<>>]
    /\ observedAt = [r \in Records |-> 0]
    /\ home = [e \in Entities |-> e]
    /\ golden = [e \in Entities |-> [f \in Fields |-> <<>>]]
    /\ txn = [p \in Procs |-> Idle]
    /\ clock = 0
    /\ stale = Entities
    /\ budget = [try |-> MaxTries, build |-> MaxBuilds, merge |-> MaxMerges]

\* process reads the candidates of a record, which begins its transaction.
StartRecord(p, r, build) ==
    /\ txn[p].pc = "idle"
    /\ budget.try > 0
    /\ link[r] = <<>>
    /\ \A q \in Procs : txn[q].record # r
    /\ LET found == [i \in DOMAIN Targets[r] |-> home[Targets[r][i]]]
       IN txn' = [txn EXCEPT ![p] =
            [Idle EXCEPT !.pc = "linking", !.record = r, !.began = clock + 1,
                         !.targets = found, !.todo = found, !.build = build]]
    /\ clock' = clock + 1
    /\ observedAt' = [observedAt EXCEPT ![r] = clock + 1]
    /\ budget' = [budget EXCEPT !.try = @ - 1]
    /\ UNCHANGED <<link, home, golden, stale>>

\* link_record inserts the next link and takes the share lock of its foreign key.
Link(p) ==
    LET t == txn[p]
        left == Tail(t.todo)
    IN /\ t.pc = "linking"
       /\ BlockedBy(p) = {}
       /\ txn' = [txn EXCEPT ![p] =
            [t EXCEPT !.shared = @ \cup {Head(t.todo)},
                      !.pc = IF left = <<>> THEN "building" ELSE @,
                      !.todo = IF left # <<>> THEN left
                               ELSE IF t.build THEN t.targets ELSE <<>>]]
       /\ UNCHANGED <<link, observedAt, home, golden, clock, stale, budget>>

\* The golden stage lists an entity that is active, which begins its transaction.
StartBuild(p, e) ==
    /\ txn[p].pc = "idle"
    /\ budget.build > 0
    /\ home[e] = e
    /\ txn' = [txn EXCEPT ![p] = [Idle EXCEPT !.pc = "building", !.began = clock + 1,
                                              !.todo = <<e>>, !.build = TRUE]]
    /\ clock' = clock + 1
    /\ budget' = [budget EXCEPT !.build = @ - 1]
    /\ UNCHANGED <<link, observedAt, home, golden, stale>>

\* The links that p sees: its own are written and not yet committed.
SeenLinks(p) ==
    IF txn[p].record = None THEN link
    ELSE [link EXCEPT ![txn[p].record] = txn[p].targets]

\* build_entity locks the next entity, then reads its observations and its values.
LockAndRead(p) ==
    LET t == txn[p]
        e == Head(t.todo)
    IN /\ t.pc = "building"
       /\ t.todo # <<>>
       /\ BlockedBy(p) = {}
       /\ txn' = [txn EXCEPT ![p] =
            [t EXCEPT !.locked = @ \cup {e}, !.todo = Tail(@),
                      !.read = @ \cup {[entity |-> e,
                          links |-> LinksTo(SeenLinks(p), e),
                          old |-> [f \in Fields |-> OpenRows(golden[e][f])]]}]]
       /\ UNCHANGED <<link, observedAt, home, golden, clock, stale, budget>>

\* The rows that p leaves in golden_attribute.
Built(p) ==
    [e \in Entities |->
        IF \A x \in txn[p].read : x.entity # e THEN golden[e]
        ELSE LET x == CHOOSE y \in txn[p].read : y.entity = e
             IN [f \in Fields |-> BuildField(golden[e][f], x.old[f],
                                  Choose(f, Observations(x.links, f)), txn[p].began)]]

Fits(built) == \A e \in Entities, f \in Fields : WindowsInOrder(built[e][f])
Unique(built) == \A e \in Entities, f \in Fields : UniqueCurrent(built[e][f])

Ready(p) == txn[p].pc = "building" /\ txn[p].todo = <<>>
BuiltBy(p) == {x.entity : x \in txn[p].read}

Commit(p) ==
    LET built == Built(p)
    IN /\ Ready(p)
       /\ Fits(built) /\ Unique(built)
       /\ link' = SeenLinks(p)
       /\ golden' = built
       /\ stale' = (stale \cup txn[p].shared) \ BuiltBy(p)
       /\ txn' = [txn EXCEPT ![p] = Idle]
       /\ UNCHANGED <<observedAt, home, clock, budget>>

\* A statement that the database refuses rolls the transaction back ...
Refuse(p) ==
    LET built == Built(p)
    IN /\ Ready(p)
       /\ ~(Fits(built) /\ Unique(built))
       /\ txn' = [txn EXCEPT ![p] = [Idle EXCEPT !.pc = "refused",
                                         !.why = IF Fits(built) THEN "index" ELSE "check"]]
       /\ UNCHANGED <<link, observedAt, home, golden, clock, stale, budget>>

\* ... and the process goes on: a record is kept as an error, a builder is restarted.
GoOn(p) ==
    /\ txn[p].pc = "refused"
    /\ txn' = [txn EXCEPT ![p] = Idle]
    /\ UNCHANGED <<link, observedAt, home, golden, clock, stale, budget>>

\* Postgres ends one of the transactions that wait on each other.
Victim(p) ==
    /\ Deadlocked(p)
    /\ txn' = [txn EXCEPT ![p] = Idle]
    /\ UNCHANGED <<link, observedAt, home, golden, clock, stale, budget>>

\* accept_candidate: the links of a move to b, whose row is share-locked, and a is
\* marked merged.  No value is built.
Merge(a, b) ==
    /\ budget.merge > 0
    /\ a # b /\ Kind[a] = Kind[b] /\ home[a] = a /\ home[b] = b
    /\ \A q \in Procs : {a, b} \cap txn[q].locked = {}
    /\ link' = [r \in Records |-> [i \in DOMAIN link[r] |-> IF link[r][i] = a THEN b ELSE link[r][i]]]
    /\ home' = [e \in Entities |-> IF home[e] = a THEN b ELSE home[e]]
    /\ stale' = stale \cup {a, b}
    /\ budget' = [budget EXCEPT !.merge = @ - 1]
    /\ UNCHANGED <<observedAt, golden, txn, clock>>

---------------------------------------------------------------------------
Work(p) == Link(p) \/ \E r \in Records, build \in GoldenFlags : StartRecord(p, r, build)
Step(p) == LockAndRead(p) \/ Commit(p) \/ Refuse(p) \/ GoOn(p) \/ Victim(p)

Next ==
    \/ \E p \in Workers : Work(p)
    \/ \E p \in Builders, e \in Entities : StartBuild(p, e)
    \/ \E p \in Procs : Step(p)
    \/ \E a, b \in Entities : Merge(a, b)

Spec == Init /\ [][Next]_vars

---------------------------------------------------------------------------
\* Faulty: the joins of lineage forget the role of the link.
ContributionsOfRecords(e, f) ==
    UNION {{[record |-> r, source |-> SourceOf[r], value |-> Claims[r][i][f]] :
              i \in {j \in DOMAIN link[r] : e \in {link[r][k] : k \in DOMAIN link[r]}
                                           /\ Claims[r][j][f] # None}} : r \in Records}

\* The joins of lineage: the cells of field f of e, the blank ones too.
Contributions(e, f) ==
    UNION {{[record |-> r, source |-> SourceOf[r], value |-> Claims[r][i][f]] :
              i \in {j \in DOMAIN link[r] : link[r][j] = e /\ Claims[r][j][f] # None}} :
             r \in Records}

\* explain_value, asked for any id: the survivor's current value and every cell of
\* its records, with the ones that agree and the one that is cited.
Explain(e, f) ==
    LET rows == golden[home[e]][f]
        value == {rows[i].choice : i \in OpenRows(rows)}
        said == Contributions(home[e], f)
    IN [golden |-> value, contributions |-> said,
        agree |-> {o \in said : \E c \in value : o.value = c.value},
        winning |-> {o \in said : \E c \in value : o.record = c.record}]

---------------------------------------------------------------------------
\* The shapes of the rows, of the open transactions and of the links.
TypeOK ==
    /\ link \in [Records -> Seq(Entities)]
    /\ observedAt \in [Records -> 0..clock]
    /\ home \in [Entities -> Entities]
    /\ \A e \in Entities, f \in Fields : \A i \in DOMAIN golden[e][f] :
         LET row == golden[e][f][i]
         IN /\ row.choice.value \in Nat \ {None} /\ row.choice.record \in Records
            /\ row.choice.confidence \in 5..99
            /\ row.from \in 1..clock /\ row.to \in 0..clock /\ row.by \in 0..Len(golden[e][f])
    /\ \A p \in Procs :
         /\ txn[p].locked \subseteq Entities /\ txn[p].shared \subseteq Entities
         /\ txn[p].began \in 0..clock
         /\ \A x, y \in txn[p].read : x.entity = y.entity => x = y
    /\ stale \subseteq Entities

\* With the entity locked before the read, no two builds both replace one value: the
\* index that allows one current value of a field never has to refuse (lock_entity).
IndexNeverRefuses == \A p \in Procs : txn[p].why # "index"

\* The history of a field can be walked: only its last row is current, and a row that
\* was replaced ends exactly when its successor starts, which says something else
\* (build_entity, close_value, link_supersession).  A row that was retired may end
\* after a later row starts, when the transaction of that row began before.
HistoryCanBeWalked ==
    \A e \in Entities, f \in Fields :
        LET rows == golden[e][f]
        IN \A i \in DOMAIN rows :
             /\ rows[i].to = Open => i = Len(rows)
             /\ rows[i].to # Open => rows[i].from <= rows[i].to
             /\ rows[i].by # 0 => /\ rows[i].by = i + 1
                                  /\ rows[i].to = rows[i + 1].from
                                  /\ rows[i].choice.value # rows[i + 1].choice.value

\* The cells that say something.
WithValue(cells) == {o \in cells : o.value # Blank}

\* "Duplicating the joins would let the two drift into disagreeing about provenance,
\* which is the one thing that must never happen" (lineage.py): as long as no batch is
\* normalized again, whatever id is asked for, the record cited for a value is among
\* the cells shown and says that value; and once the entity is built, a value is shown
\* exactly when a cell has one, however many are blank, with as many agreeing sources
\* and competing values as it claims.
ExplanationHolds ==
    \A e \in Entities, f \in Fields :
        LET answer == Explain(e, f)
        IN /\ \A c \in answer.golden : answer.winning \cap answer.agree # {}
           /\ home[e] \notin stale =>
                /\ answer.golden = {} <=> WithValue(answer.contributions) = {}
                /\ \A c \in answer.golden :
                     /\ c.supporting = Cardinality({o.source : o \in answer.agree})
                     /\ c.competing =
                           Cardinality({o.value : o \in WithValue(answer.contributions)})

\* What is published of e, and what its records say.
Published(rows) == {<<rows[i].choice.value, Evidence(rows[i].choice)>> : i \in OpenRows(rows)}
Said(e, f) ==
    UNION {{<<c.value, Evidence(c)>> : c \in Choose(f, obs)} :
              obs \in {Observations(LinksTo(link, e), f)}}

\* The builds implement TrustedValues: whatever interleaves, a build leaves an entity
\* with exactly what its records say, value and evidence, and nothing else moves it.
Abstract == INSTANCE TrustedValues WITH
    says <- [e \in Entities |-> [f \in Fields |-> Said(e, f)]],
    trusted <- [e \in Entities |-> [f \in Fields |-> Published(golden[e][f])]]
ImplementsTrustedValues == Abstract!Spec

\* Two processes can build the same entity at once, and neither fails
\* (concurrency_check.py): now() is the time a transaction began, so one that began
\* before a value did cannot close it, and its row is refused by the CHECK.
ConcurrentBuildsSucceed == \A p \in Procs : txn[p].pc # "refused"

===========================================================================
