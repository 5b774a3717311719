---------------------------- MODULE GoldenProofs ----------------------------
(***************************************************************************)
(* Proofs about GoldenRecord, for all entities, records, claims, workers   *)
(* and builders, and every bound.                                          *)
(***************************************************************************)
EXTENDS GoldenRecord, SequenceTheorems, FiniteSetTheorems, WellFoundedInduction, TLAPS

---------------------------------------------------------------------------
(* The inductive invariant.                                                *)

Verdict == [value : Nat \ {None}, record : Records, supporting : Nat, competing : Nat,
            confidence : 5..99]
Row == [choice : Verdict, from : Nat \ {0}, to : Nat, by : Nat]
Reading == [entity : Entities, links : SUBSET (Records \X (1..2)),
            old : [Fields -> SUBSET Nat]]
Transaction ==
    [pc : {"idle", "linking", "building", "refused"}, why : {"", "index", "check"},
     record : Records \cup {None}, began : Nat, targets : Seq(Entities),
     todo : Seq(Entities), build : BOOLEAN, shared : SUBSET Entities,
     locked : SUBSET Entities, read : SUBSET Reading]

\* A record has no link or one for each of its targets.
LinkTypes == link \in [Records -> Seq(Entities)]
             /\ \A r \in Records : Len(link[r]) \in {0, Len(Targets[r])}
ClockTypes == clock \in Nat /\ observedAt \in [Records -> 0..clock]
RowTypes == golden \in [Entities -> [Fields -> Seq(Row)]]
TxnTypes == txn \in [Procs -> Transaction] /\ \A p \in Procs : txn[p].began <= clock
Types == LinkTypes /\ ClockTypes /\ RowTypes /\ TxnTypes /\ stale \subseteq Entities

\* A merge leads from the entity it ends to one that is active.
HomesLead == home \in [Entities -> Entities] /\ \A e \in Entities : home[home[e]] = home[e]

\* What a transaction has done by where it is: the entities it links to are the ones
\* whose rows it shares or has yet to share, and it locks what it has read.
Shape(t) ==
    /\ t.pc = "idle" => t = Idle
    /\ t.pc = "refused" => t.record = None /\ t.shared = {} /\ t.locked = {} /\ t.read = {}
    /\ t.pc \in {"linking", "building"} => t.began > 0
    /\ t.pc = "linking" => t.todo # <<>> /\ t.record # None /\ t.locked = {} /\ t.read = {}
    /\ t.record # None =>
         /\ link[t.record] = <<>>
         /\ Len(t.targets) = Len(Targets[t.record])
         /\ Range(t.targets) \subseteq t.shared \cup
                (IF t.pc = "linking" THEN Range(t.todo) ELSE {})
    /\ \A x \in t.read : x.entity \in t.locked
    /\ t.why # "index"
Shapes == \A p \in Procs : Shape(txn[p])

\* Nobody else has a lock on a row that is locked, and nobody else handles a record.
Exclusive ==
    \A p \in Procs : \A q \in Procs \ {p} :
        /\ txn[p].locked \cap (txn[q].locked \cup txn[q].shared) = {}
        /\ txn[p].record # None => txn[p].record # txn[q].record

\* What a build has read of an entity is still so when it commits.
Seen(t) == IF t.record = None THEN link ELSE [link EXCEPT ![t.record] = t.targets]
Current(t, x) ==
    /\ x.links = LinksTo(Seen(t), x.entity)
    /\ x.old = [f \in Fields |-> OpenRows(golden[x.entity][f])]
ReadsHold == \A p \in Procs : \A x \in txn[p].read : Current(txn[p], x)

\* The history of one field, and the times and rows it refers to.
Walkable(rows) ==
    \A i \in DOMAIN rows :
        /\ rows[i].to = Open => i = Len(rows)
        /\ rows[i].to # Open => rows[i].from <= rows[i].to
        /\ rows[i].by # 0 => /\ rows[i].by = i + 1 /\ i < Len(rows)
                             /\ rows[i].to = rows[i + 1].from
                             /\ rows[i].choice.value # rows[i + 1].choice.value
Bounded(rows, now) ==
    \A i \in DOMAIN rows : rows[i].from <= now /\ rows[i].to <= now /\ rows[i].by <= Len(rows)
RowsHold ==
    \A e \in Entities, f \in Fields : Walkable(golden[e][f]) /\ Bounded(golden[e][f], clock)

\* A current value of an active entity is cited from a record still linked to it.
Cites(links, e, f, c) ==
    \E i \in DOMAIN links[c.record] :
        links[c.record][i] = e /\ Claims[c.record][i][f] = c.value
Cited ==
    \A e \in Entities, f \in Fields :
        home[e] = e => \A i \in OpenRows(golden[e][f]) : Cites(link, e, f, golden[e][f][i].choice)

\* An entity that is not stale publishes what its records say.
Fresh == \A e \in Entities \ stale, f \in Fields : Published(golden[e][f]) = Said(e, f)

IInv == Types /\ HomesLead /\ Shapes /\ Exclusive /\ ReadsHold /\ RowsHold /\ Cited /\ Fresh

---------------------------------------------------------------------------
(* The choice of a value.                                                  *)

\* A set of numbers has a least one.
LEMMA LeastNumber ==
  ASSUME NEW T \in SUBSET Nat, T # {}
  PROVE  \E x \in T : \A y \in T : x <= y
<1>1. PICK x \in T : \A y \in T : ~(<<y, x>> \in OpToRel(<, Nat))
  BY NatLessThanWellFounded, WFMin
<1>2. \A y \in T : ~(y < x)
  BY <1>1 DEF OpToRel
<1>3. QED
  BY <1>2

\* The image of a finite set under a function is finite.
LEMMA ImageIsFinite ==
  ASSUME NEW S, IsFiniteSet(S), NEW fun, DOMAIN fun = S
  PROVE  IsFiniteSet({fun[x] : x \in S})
<1> DEFINE T == {fun[x] : x \in S}
           map == [x \in S |-> fun[x]]
<1>1. map \in [S -> T] /\ \A y \in T : \E x \in S : map[x] = y
  OBVIOUS
<1>2. map \in Surjection(S, T)
  BY <1>1 DEF Surjection
<1>3. QED
  BY <1>2, FS_Surjection

\* Before is a strict total order on the tuples of six numbers.
Tuples == [1..6 -> Int]
LEMMA BeforeIsStrict == ASSUME NEW a \in Tuples PROVE ~Before(a, a)
BY DEF Before, Tuples
LEMMA BeforeIsTransitive ==
  ASSUME NEW a \in Tuples, NEW b \in Tuples, NEW c \in Tuples, Before(a, b), Before(b, c)
  PROVE  Before(a, c)
<1>1. PICK i \in 1..6 : a[i] < b[i] /\ \A j \in 1..(i - 1) : a[j] = b[j]
  BY DEF Before, Tuples
<1>2. PICK k \in 1..6 : b[k] < c[k] /\ \A j \in 1..(k - 1) : b[j] = c[j]
  BY DEF Before, Tuples
<1>3. \A n \in 1..6 : a[n] \in Int /\ b[n] \in Int /\ c[n] \in Int
  BY DEF Tuples
<1>4. \E n \in 1..6 : a[n] < c[n] /\ \A j \in 1..(n - 1) : a[j] = c[j]
  <2>1. CASE i < k
    <3>1. b[i] = c[i]
      BY <1>2, <2>1
    <3>2. \A j \in 1..(i - 1) : a[j] = c[j]
      BY <1>1, <1>2, <2>1
    <3>3. QED
      BY <1>1, <3>1, <3>2
  <2>2. CASE k < i
    <3>1. a[k] = b[k]
      BY <1>1, <2>2
    <3>2. \A j \in 1..(k - 1) : a[j] = c[j]
      BY <1>1, <1>2, <2>2
    <3>3. QED
      BY <1>2, <3>1, <3>2
  <2>3. CASE i = k
    <3>1. a[i] < c[i]
      BY <1>1, <1>2, <1>3, <2>3
    <3>2. \A j \in 1..(i - 1) : a[j] = c[j]
      BY <1>1, <1>2, <2>3
    <3>3. QED
      BY <3>1, <3>2
  <2>4. QED
    BY <2>1, <2>2, <2>3
<1>5. QED
  BY <1>4 DEF Before, Tuples
LEMMA BeforeIsTotal ==
  ASSUME NEW a \in Tuples, NEW b \in Tuples, a # b
  PROVE  Before(a, b) \/ Before(b, a)
<1> DEFINE differ == {i \in 1..6 : a[i] # b[i]}
<1>1. differ # {}
  BY DEF Tuples
<1>2. PICK i \in differ : \A j \in differ : i <= j
  BY <1>1, LeastNumber
<1>3. \A j \in 1..(i - 1) : a[j] = b[j]
  BY <1>2
<1>4. i \in 1..6 /\ (a[i] < b[i] \/ b[i] < a[i])
  BY <1>2 DEF Tuples
<1>5. QED
  BY <1>3, <1>4 DEF Before, Tuples

\* What a build chooses from: a value that a record says, with its source.
Observation == {o \in [value : Nat \ {None}, source : Nat, record : Records, at : Nat] :
                  o.source = SourceOf[o.record]}

LEMMA ObservationsAreNumbers ==
  ASSUME NEW o \in Observation
  PROVE  /\ o.value \in Nat \ {None} /\ o.source \in Nat /\ o.at \in Nat
         /\ o.record \in Records /\ o.record \in Nat
         /\ o.source = SourceOf[o.record] /\ Reliability[o.source] \in Int
<1>1. /\ o.value \in Nat \ {None} /\ o.source \in Nat /\ o.at \in Nat
      /\ o.record \in Records /\ o.source = SourceOf[o.record]
  BY DEF Observation
<1>2. o.record \in Nat
  BY <1>1, RecordAssumption
<1>3. Reliability[o.source] \in 0..100
  BY <1>1, RecordAssumption
<1>4. QED
  BY <1>1, <1>2, <1>3

LEMMA CountsAreNumbers ==
  ASSUME NEW obs \in SUBSET Observation, IsFiniteSet(obs), NEW v
  PROVE  /\ Cardinality(Sources(Saying(obs, v))) \in Nat
         /\ Cardinality(Sources(obs \ Saying(obs, v))) \in Nat
         /\ Cardinality({u.value : u \in obs}) \in Nat
<1>1. \A those \in SUBSET obs : Cardinality(Sources(those)) \in Nat
  <2> TAKE those \in SUBSET obs
  <2> DEFINE fun == [o \in those |-> o.source]
  <2>1. IsFiniteSet(those)
    BY FS_Subset
  <2>2. IsFiniteSet({fun[o] : o \in those})
    BY <2>1, ImageIsFinite
  <2>3. {fun[o] : o \in those} = Sources(those)
    BY DEF Sources
  <2>4. QED
    BY <2>2, <2>3, FS_CardinalityType
<1>2. Cardinality({u.value : u \in obs}) \in Nat
  <2> DEFINE fun == [o \in obs |-> o.value]
  <2>1. IsFiniteSet({fun[o] : o \in obs})
    BY ImageIsFinite
  <2>2. {fun[o] : o \in obs} = {u.value : u \in obs}
    OBVIOUS
  <2>3. QED
    BY <2>1, <2>2, FS_CardinalityType
<1>3. QED
  BY <1>1, <1>2 DEF Saying

\* The rank of an observation tells it from every other.
LEMMA RankTellsApart ==
  ASSUME NEW f \in Fields, NEW obs \in SUBSET Observation, IsFiniteSet(obs), NEW o \in obs
  PROVE  /\ Rank(f, obs, o) \in Tuples
         /\ \A u \in obs : Rank(f, obs, u) = Rank(f, obs, o) => u = o
<1> DEFINE entry(w) == [i \in 1..6 |-> CASE i = 1 -> Leading(f, obs, w)
                          [] i = 2 -> -Reliability[w.source] [] i = 3 -> -w.at
                          [] i = 4 -> w.source [] i = 5 -> w.value [] OTHER -> w.record]
<1>1. ASSUME NEW w \in obs PROVE entry(w) \in Tuples /\ Rank(f, obs, w) = entry(w)
  <2>1. w.at \in Nat /\ w.source \in Nat /\ w.value \in Nat /\ w.record \in Nat
        /\ Reliability[w.source] \in Int
    BY ObservationsAreNumbers
  <2> DEFINE count == Cardinality(Sources(Saying(obs, w.value)))
  <2>0. count \in Nat
    BY CountsAreNumbers
  <2> HIDE DEF count
  <2>2. Leading(f, obs, w) \in Int
    BY <2>0, <2>1 DEF Leading, count
  <2>3. entry(w) \in Tuples
    BY <2>1, <2>2 DEF Tuples
  <2>4. Rank(f, obs, w) = entry(w)
    BY <2>1, <2>2 DEF Rank, Tiebreak
  <2>5. QED
    BY <2>3, <2>4
<1>2. ASSUME NEW u \in obs, entry(u) = entry(o) PROVE u = o
  <2>1. entry(u)[3] = entry(o)[3] /\ entry(u)[4] = entry(o)[4]
        /\ entry(u)[5] = entry(o)[5] /\ entry(u)[6] = entry(o)[6]
    BY <1>2
  <2>2. -u.at = -o.at /\ u.source = o.source /\ u.value = o.value /\ u.record = o.record
    BY <2>1
  <2>3. u.at \in Nat /\ o.at \in Nat
    BY DEF Observation
  <2>4. u.at = o.at
    BY <2>2, <2>3
  <2>5. QED
    BY <2>2, <2>4 DEF Observation
<1>3. QED
  BY <1>1, <1>2

LEMMA ChoiceIsVerdict ==
  ASSUME NEW obs \in SUBSET Observation, IsFiniteSet(obs), NEW o \in obs
  PROVE  Choice(obs, o) \in Verdict
<1> DEFINE supporting == Cardinality(Sources(Saying(obs, o.value)))
           dissenting == Cardinality(Sources(obs \ Saying(obs, o.value)))
           confidence == Reliability[o.source] + 15 * (supporting - 1) - 10 * dissenting
<1>1. supporting \in Nat /\ dissenting \in Nat /\ Cardinality({u.value : u \in obs}) \in Nat
  BY CountsAreNumbers
<1>2. o.value \in Nat \ {None} /\ o.record \in Records /\ Reliability[o.source] \in Int
  BY ObservationsAreNumbers
<1>3. confidence \in Int
  BY <1>1, <1>2
<1> HIDE DEF confidence
<1>4. Clamp(confidence) \in 5..99
  BY <1>3 DEF Clamp
<1>5. QED
  BY <1>1, <1>2, <1>4 DEF Choice, Verdict, confidence

\* Of what is said of a field exactly one observation wins, if anything is said.
LEMMA OneIsChosen ==
  ASSUME NEW f \in Fields, NEW obs \in SUBSET Observation, IsFiniteSet(obs)
  PROVE  /\ obs = {} => Choose(f, obs) = {}
         /\ obs # {} => \E o \in obs : Choose(f, obs) = {Choice(obs, o)}
<1> DEFINE rank == [o \in obs |-> Rank(f, obs, o)]
           ahead(o) == {u \in obs : Before(rank[u], rank[o])}
           winners == {w \in obs : \A u \in obs \ {w} : Before(Rank(f, obs, w), Rank(f, obs, u))}
<1>1. \A o \in obs : rank[o] \in Tuples
  BY RankTellsApart
<1>2. \A o, u \in obs : rank[o] = rank[u] => o = u
  BY RankTellsApart
<1>3. winners = {w \in obs : \A u \in obs \ {w} : Before(rank[w], rank[u])}
  OBVIOUS
<1>4. Choose(f, obs) = {Choice(obs, o) : o \in winners}
  BY DEF Choose
<1>5. ASSUME NEW w \in winners, NEW u \in winners PROVE w = u
  <2>1. SUFFICES ASSUME w # u PROVE FALSE
    OBVIOUS
  <2>2. Before(rank[w], rank[u]) /\ Before(rank[u], rank[w])
    BY <1>3, <2>1
  <2>3. QED
    BY <1>1, <2>2, BeforeIsStrict, BeforeIsTransitive
<1> HIDE DEF rank
<1>6. ASSUME obs # {} PROVE winners # {}
  <2> DEFINE sizes == {Cardinality(ahead(o)) : o \in obs}
  <2>1. \A o \in obs : IsFiniteSet(ahead(o)) /\ Cardinality(ahead(o)) \in Nat
    BY FS_Subset, FS_CardinalityType
  <2>2. sizes \in SUBSET Nat /\ sizes # {}
    BY <1>6, <2>1
  <2>3. PICK n \in sizes : \A m \in sizes : n <= m
    BY <2>2, LeastNumber
  <2>4. PICK w \in obs : Cardinality(ahead(w)) = n
    BY <2>3
  <2>5. ASSUME NEW u \in obs PROVE ~Before(rank[u], rank[w])
    <3>1. SUFFICES ASSUME Before(rank[u], rank[w]) PROVE FALSE
      OBVIOUS
    <3>2. ahead(u) \subseteq ahead(w)
      BY <1>1, <3>1, BeforeIsTransitive
    <3>3. u \in ahead(w) /\ u \notin ahead(u)
      BY <1>1, <3>1, BeforeIsStrict
    <3>4. Cardinality(ahead(u)) <= Cardinality(ahead(w)) /\ Cardinality(ahead(u)) # Cardinality(ahead(w))
      BY <2>1, <3>2, <3>3, FS_Subset
    <3>5. Cardinality(ahead(w)) <= Cardinality(ahead(u))
      BY <2>3, <2>4
    <3>6. QED
      BY <2>1, <3>4, <3>5
  <2>6. \A u \in obs \ {w} : Before(rank[w], rank[u])
    BY <1>1, <1>2, <2>5, BeforeIsTotal
  <2>7. QED
    BY <1>3, <2>6
<1>7. obs = {} => winners = {}
  OBVIOUS
<1>8. ASSUME obs # {} PROVE \E o \in obs : winners = {o}
  <2>1. PICK o \in winners : TRUE
    BY <1>6, <1>8
  <2>2. QED
    BY <1>5, <2>1
<1> HIDE DEF winners
<1>9. QED
  BY <1>4, <1>7, <1>8

---------------------------------------------------------------------------
(* One field of a build.                                                   *)

LEMMA FunctionIsSequence ==
  ASSUME NEW S, NEW n \in Nat, NEW s \in [1..n -> S]
  PROVE  s \in Seq(S) /\ Len(s) = n
<1>1. s \in Seq(S)
  BY SeqDef
<1>2. QED
  BY <1>1, LenProperties

\* Only the last row can be current.
LEMMA LastIsCurrent ==
  ASSUME NEW rows \in Seq(Row), Walkable(rows)
  PROVE  OpenRows(rows) \subseteq {Len(rows)}
BY DEF OpenRows, Walkable

LEMMA OneRowIsUnique ==
  ASSUME NEW rows, NEW n, OpenRows(rows) \subseteq {n}
  PROVE  UniqueCurrent(rows)
<1>1. CASE OpenRows(rows) = {}
  BY <1>1, FS_EmptySet DEF UniqueCurrent
<1>2. CASE OpenRows(rows) = {n}
  <2>1. Cardinality({n}) = 1
    BY FS_Singleton
  <2>2. QED
    BY <1>2, <2>1 DEF UniqueCurrent
<1>3. QED
  BY <1>1, <1>2

\* What a build may leave in a field whose rows were rows: new, with the choices c.
WellBuilt(rows, new, choices, now) ==
    /\ new \in Seq(Row)
    /\ OpenRows(new) \subseteq {Len(new)}
    /\ WindowsInOrder(new) => Walkable(new)
    /\ Bounded(new, now)
    /\ Published(new) = {<<c.value, Evidence(c)>> : c \in choices}
    /\ \A i \in OpenRows(new) :
         new[i].choice \in choices \/ (i \in OpenRows(rows) /\ new[i].choice = rows[i].choice)

LEMMA ReplaceIsWellBuilt ==
  ASSUME NEW rows \in Seq(Row), Walkable(rows), NEW time \in Nat, Bounded(rows, time),
         NEW now \in 1..time, NEW c \in Verdict,
         \A i \in OpenRows(rows) : rows[i].choice.value # c.value
  PROVE  WellBuilt(rows, Replace(rows, OpenRows(rows), c, now), {c}, time)
<1> DEFINE n == Len(rows)
           old == OpenRows(rows)
           closed == [i \in 1..n |-> IF i \in old THEN [rows[i] EXCEPT !.to = now, !.by = n + 1]
                                                  ELSE rows[i]]
           new == Replace(rows, old, c, now)
<1>1. n \in Nat /\ DOMAIN rows = 1..n /\ \A i \in 1..n : rows[i] \in Row
  BY LenProperties
<1>0. now \in Nat \ {0} /\ n + 1 \in Nat
  BY <1>1
<1>2. closed \in Seq(Row) /\ Len(closed) = n
  <2>1. ASSUME NEW i \in 1..n PROVE closed[i] \in Row
    <3>1. rows[i] \in Row
      BY <1>1
    <3>2. [rows[i] EXCEPT !.to = now, !.by = n + 1] \in Row
      BY <1>0, <3>1 DEF Row
    <3>3. QED
      BY <3>1, <3>2
  <2>2. closed \in [1..n -> Row]
    BY <2>1
  <2> HIDE DEF closed
  <2>3. QED
    BY <1>1, <2>2, FunctionIsSequence
<1>3. new = Append(closed, NewRow(c, now)) /\ NewRow(c, now) \in Row
  <2>1. NewRow(c, now) \in Row
    BY <1>0 DEF NewRow, Row, Open
  <2>2. new = Append(closed, NewRow(c, now))
    BY <1>1 DEF Replace
  <2>3. QED
    BY <2>1, <2>2
<1> HIDE DEF new
<1>4. /\ new \in Seq(Row) /\ Len(new) = n + 1 /\ DOMAIN new = 1..(n + 1)
      /\ new[n + 1] = NewRow(c, now)
      /\ \A i \in 1..n : new[i] = closed[i]
  <2>1. /\ new \in Seq(Row) /\ Len(new) = n + 1
        /\ new[n + 1] = NewRow(c, now) /\ \A i \in 1..n : new[i] = closed[i]
    <3> HIDE DEF closed
    <3>1. QED
      BY <1>2, <1>3, AppendProperties
  <2>2. QED
    BY <2>1, LenProperties
<1>5. old \subseteq {n}
  BY LastIsCurrent
<1>6. \A i \in 1..n : /\ i \in old <=> rows[i].to = Open
                      /\ new[i].from = rows[i].from /\ new[i].choice = rows[i].choice
                      /\ i \in old => new[i].to = now /\ new[i].by = n + 1
                      /\ i \notin old => new[i].to = rows[i].to /\ new[i].by = rows[i].by
  BY <1>1, <1>4 DEF OpenRows, Row
<1>7. /\ new[n + 1].choice = c /\ new[n + 1].from = now /\ new[n + 1].to = Open
      /\ new[n + 1].by = 0
  <2>1. /\ NewRow(c, now).choice = c /\ NewRow(c, now).from = now
        /\ NewRow(c, now).to = Open /\ NewRow(c, now).by = 0
    BY DEF NewRow
  <2>2. QED
    BY <1>4, <2>1
<1>8. now \in Nat /\ now # Open
  BY DEF Open
<1> HIDE DEF new, closed, old
<1>9. OpenRows(new) = {n + 1}
  BY <1>1, <1>4, <1>6, <1>7, <1>8 DEF OpenRows
<1>10. WindowsInOrder(new) => Walkable(new)
  <2> SUFFICES ASSUME WindowsInOrder(new) PROVE Walkable(new)
    OBVIOUS
  <2> SUFFICES ASSUME NEW i \in 1..(n + 1)
               PROVE  /\ new[i].to = Open => i = Len(new)
                      /\ new[i].to # Open => new[i].from <= new[i].to
                      /\ new[i].by # 0 => /\ new[i].by = i + 1 /\ i < Len(new)
                                          /\ new[i].to = new[i + 1].from
                                          /\ new[i].choice.value # new[i + 1].choice.value
    BY <1>4 DEF Walkable
  <2>1. new[i].to = Open => i = Len(new)
    BY <1>1, <1>4, <1>6, <1>8
  <2>2. new[i].to # Open => new[i].from <= new[i].to
    BY <1>1, <1>4, ElementOfSeq DEF WindowsInOrder, Row
  <2>3. CASE i = n + 1
    BY <2>1, <2>2, <2>3, <1>7
  <2>4. CASE i \in old
    <3>1. i = n /\ rows[i].choice.value # c.value
      BY <1>5, <2>4 DEF old
    <3>2. new[i].by = i + 1 /\ i < Len(new) /\ new[i].to = new[i + 1].from
      BY <1>1, <1>4, <1>6, <1>7, <2>4, <3>1
    <3>3. new[i].choice.value # new[i + 1].choice.value
      BY <1>1, <1>6, <1>7, <2>4, <3>1
    <3>4. QED
      BY <2>1, <2>2, <3>2, <3>3
  <2>5. CASE i # n + 1 /\ i \notin old
    <3>1. i \in 1..n /\ new[i].by = rows[i].by /\ new[i].to = rows[i].to
          /\ new[i].choice = rows[i].choice
      BY <1>1, <1>6, <2>5
    <3>2. ASSUME rows[i].by # 0
          PROVE  /\ rows[i].by = i + 1 /\ i < n /\ rows[i].to = rows[i + 1].from
                 /\ rows[i].choice.value # rows[i + 1].choice.value
      BY <1>1, <3>1, <3>2 DEF Walkable
    <3>3. ASSUME rows[i].by # 0
          PROVE  new[i + 1].from = rows[i + 1].from /\ new[i + 1].choice = rows[i + 1].choice
      <4>1. i + 1 \in 1..n
        BY <1>1, <3>1, <3>2, <3>3
      <4>2. QED
        BY <4>1, <1>6
    <3>4. new[i].by # 0 => /\ new[i].by = i + 1 /\ i < Len(new)
                           /\ new[i].to = new[i + 1].from
                           /\ new[i].choice.value # new[i + 1].choice.value
      BY <1>1, <1>4, <3>1, <3>2, <3>3
    <3>5. QED
      BY <2>1, <2>2, <3>4
  <2>6. QED
    BY <2>3, <2>4, <2>5
<1>11. Bounded(new, time)
  <2> SUFFICES ASSUME NEW i \in 1..(n + 1)
               PROVE  new[i].from <= time /\ new[i].to <= time /\ new[i].by <= n + 1
    BY <1>4 DEF Bounded
  <2>1. CASE i = n + 1
    BY <2>1, <1>1, <1>7 DEF Open
  <2>2. CASE i \in 1..n
    <3>1. rows[i].from <= time /\ rows[i].to <= time /\ rows[i].by <= n
      BY <2>2, <1>1 DEF Bounded
    <3>2. rows[i].by \in Nat
      BY <2>2, <1>1 DEF Row
    <3>3. QED
      BY <1>1, <1>6, <2>2, <3>1, <3>2
  <2>3. QED
    BY <1>1, <2>1, <2>2
<1>12. Published(new) = {<<v.value, Evidence(v)>> : v \in {c}}
  BY <1>7, <1>9 DEF Published
<1>13. \A i \in OpenRows(new) : new[i].choice \in {c}
  BY <1>7, <1>9
<1>14. QED
  BY <1>4, <1>9, <1>10, <1>11, <1>12, <1>13 DEF WellBuilt, new, old

LEMMA RefreshIsWellBuilt ==
  ASSUME NEW rows \in Seq(Row), Walkable(rows), NEW time \in Nat, Bounded(rows, time),
         NEW c \in Verdict, NEW same, same \subseteq OpenRows(rows), same # {},
         \A i \in same : rows[i].choice.value = c.value
  PROVE  WellBuilt(rows, Refreshed(rows, same, c), {c}, time)
<1> DEFINE n == Len(rows)
           new == Refreshed(rows, same, c)
<1>1. n \in Nat /\ DOMAIN rows = 1..n /\ \A i \in 1..n : rows[i] \in Row
  BY LenProperties
<1>2. new = [i \in 1..n |-> IF i \in same /\ Evidence(rows[i].choice) # Evidence(c)
                            THEN [rows[i] EXCEPT !.choice = c] ELSE rows[i]]
  BY <1>1 DEF Refreshed
<1>3. new \in Seq(Row) /\ Len(new) = n /\ DOMAIN new = 1..n
  <2>1. \A i \in 1..n : new[i] \in Row
    BY <1>1, <1>2 DEF Row
  <2>2. new \in [1..n -> Row]
    BY <1>2, <2>1
  <2>3. QED
    BY <1>1, <2>2, FunctionIsSequence
<1>4. OpenRows(rows) = {n} /\ same = {n}
  BY LastIsCurrent
<1>5. \A i \in 1..n : /\ new[i].from = rows[i].from /\ new[i].to = rows[i].to
                      /\ new[i].by = rows[i].by
                      /\ new[i].choice = rows[i].choice \/ (i = n /\ new[i].choice = c)
  BY <1>1, <1>2, <1>4 DEF Row
<1>6. n \in 1..n /\ Evidence(new[n].choice) = Evidence(c)
  <2>1. n \in 1..n
    BY <1>1, <1>4 DEF OpenRows
  <2>2. QED
    BY <1>1, <1>2, <1>4, <2>1 DEF Row
<1>7. rows[n].choice.value = c.value
  BY <1>4
<1> HIDE DEF new
<1>8. \A i \in 1..n : new[i].choice.value = rows[i].choice.value
  BY <1>5, <1>7
<1>9. OpenRows(new) = {n}
  BY <1>1, <1>3, <1>4, <1>5 DEF OpenRows
<1>10. Walkable(new)
  <2> SUFFICES ASSUME NEW i \in 1..n
               PROVE  /\ new[i].to = Open => i = n
                      /\ new[i].to # Open => new[i].from <= new[i].to
                      /\ new[i].by # 0 => /\ new[i].by = i + 1 /\ i < n
                                          /\ new[i].to = new[i + 1].from
                                          /\ new[i].choice.value # new[i + 1].choice.value
    BY <1>3 DEF Walkable
  <2>1. /\ rows[i].to = Open => i = n
        /\ rows[i].to # Open => rows[i].from <= rows[i].to
        /\ rows[i].by # 0 => /\ rows[i].by = i + 1 /\ i < n
                             /\ rows[i].to = rows[i + 1].from
                             /\ rows[i].choice.value # rows[i + 1].choice.value
    BY <1>1 DEF Walkable
  <2>2. ASSUME rows[i].by # 0 PROVE i + 1 \in 1..n
    <3>1. i < n
      BY <2>1, <2>2
    <3>2. QED
      BY <1>1, <3>1
  <2>3. QED
    BY <1>5, <1>8, <2>1, <2>2
<1>11. Bounded(new, time)
  BY <1>1, <1>3, <1>5 DEF Bounded
<1>12. Published(new) = {<<v.value, Evidence(v)>> : v \in {c}}
  BY <1>6, <1>7, <1>8, <1>9 DEF Published
<1>13. \A i \in OpenRows(new) : new[i].choice \in {c} \/ (i \in OpenRows(rows) /\ new[i].choice = rows[i].choice)
  BY <1>4, <1>5, <1>6, <1>9
<1>14. QED
  BY <1>3, <1>9, <1>10, <1>11, <1>12, <1>13 DEF WellBuilt, new

LEMMA RetireIsWellBuilt ==
  ASSUME NEW rows \in Seq(Row), Walkable(rows), NEW time \in Nat, Bounded(rows, time),
         NEW now \in 1..time
  PROVE  WellBuilt(rows, [i \in DOMAIN rows |-> IF i \in OpenRows(rows)
                            THEN [rows[i] EXCEPT !.to = now] ELSE rows[i]], {}, time)
<1> DEFINE n == Len(rows)
           old == OpenRows(rows)
           new == [i \in DOMAIN rows |-> IF i \in old THEN [rows[i] EXCEPT !.to = now] ELSE rows[i]]
<1>1. n \in Nat /\ DOMAIN rows = 1..n /\ \A i \in 1..n : rows[i] \in Row
  BY LenProperties
<1>2. new \in Seq(Row) /\ Len(new) = n /\ DOMAIN new = 1..n
  <2>1. ASSUME NEW i \in 1..n PROVE new[i] \in Row
    <3>1. rows[i] \in Row /\ now \in Nat \ {0}
      BY <1>1
    <3>2. [rows[i] EXCEPT !.to = now] \in Row
      BY <3>1 DEF Row
    <3>3. QED
      BY <1>1, <3>1, <3>2
  <2>2. new \in [1..n -> Row]
    BY <1>1, <2>1
  <2>3. QED
    BY <1>1, <2>2, FunctionIsSequence
<1>3. old \subseteq {n}
  BY LastIsCurrent
<1>4. \A i \in 1..n : /\ i \in old <=> rows[i].to = Open
                      /\ new[i].from = rows[i].from /\ new[i].choice = rows[i].choice
                      /\ new[i].by = rows[i].by
                      /\ i \in old => new[i].to = now
                      /\ i \notin old => new[i].to = rows[i].to
  BY <1>1 DEF OpenRows, Row
<1>5. now \in Nat /\ now # Open
  BY DEF Open
<1> HIDE DEF new, old
<1>6. OpenRows(new) = {}
  BY <1>1, <1>2, <1>4, <1>5 DEF OpenRows
<1>7. WindowsInOrder(new) => Walkable(new)
  <2> SUFFICES ASSUME WindowsInOrder(new), NEW i \in 1..n
               PROVE  /\ new[i].to = Open => i = n
                      /\ new[i].to # Open => new[i].from <= new[i].to
                      /\ new[i].by # 0 => /\ new[i].by = i + 1 /\ i < n
                                          /\ new[i].to = new[i + 1].from
                                          /\ new[i].choice.value # new[i + 1].choice.value
    BY <1>2 DEF Walkable
  <2>1. new[i].to = Open => i = n
    BY <1>4, <1>5
  <2>2. new[i].to # Open => new[i].from <= new[i].to
    BY <1>2, ElementOfSeq DEF WindowsInOrder, Row
  <2>3. /\ rows[i].by # 0 => /\ rows[i].by = i + 1 /\ i < n
                             /\ rows[i].to = rows[i + 1].from
                             /\ rows[i].choice.value # rows[i + 1].choice.value
    BY <1>1 DEF Walkable
  <2>4. rows[i].by # 0 => i \notin old /\ i + 1 \in 1..n
    BY <1>1, <1>3, <2>3
  <2>5. QED
    BY <1>4, <2>1, <2>2, <2>3, <2>4
<1>8. Bounded(new, time)
  BY <1>1, <1>2, <1>4 DEF Bounded
<1>9. Published(new) = {}
  BY <1>6 DEF Published
<1>10. QED
  BY <1>2, <1>6, <1>7, <1>8, <1>9 DEF WellBuilt, new, old

\* Whatever is chosen, a build that read the current row leaves the field well built.
LEMMA FieldIsWellBuilt ==
  ASSUME NEW rows \in Seq(Row), Walkable(rows), NEW time \in Nat, Bounded(rows, time),
         NEW now \in 1..time, NEW choices,
         choices = {} \/ \E c \in Verdict : choices = {c}
  PROVE  WellBuilt(rows, BuildField(rows, OpenRows(rows), choices, now), choices, time)
<1>1. CASE choices = {}
  BY <1>1, RetireIsWellBuilt DEF BuildField
<1>2. ASSUME NEW c \in Verdict, choices = {c}
      PROVE  WellBuilt(rows, BuildField(rows, OpenRows(rows), choices, now), choices, time)
  <2> DEFINE same == {i \in OpenRows(rows) : rows[i].choice.value = c.value}
  <2>1. choices # {} /\ (CHOOSE x \in choices : TRUE) = c
    BY <1>2
  <2>2. BuildField(rows, OpenRows(rows), choices, now) =
          IF same = {} THEN Replace(rows, OpenRows(rows), c, now) ELSE Refreshed(rows, same, c)
    BY <2>1 DEF BuildField
  <2>3. CASE same = {}
    BY <1>2, <2>2, <2>3, ReplaceIsWellBuilt
  <2>4. CASE same # {}
    <3>1. same \subseteq OpenRows(rows) /\ \A i \in same : rows[i].choice.value = c.value
      OBVIOUS
    <3> HIDE DEF same
    <3>2. QED
      BY <1>2, <2>2, <2>4, <3>1, RefreshIsWellBuilt
  <2>5. QED
    BY <2>3, <2>4
<1>3. QED
  BY <1>1, <1>2

---------------------------------------------------------------------------
(* Links and what they say.                                                *)

LinksTyped(links) ==
    /\ links \in [Records -> Seq(Entities)]
    /\ \A r \in Records : Len(links[r]) \in {0, Len(Targets[r])}

LEMMA LinksHaveClaims ==
  ASSUME NEW links, LinksTyped(links), NEW e
  PROVE  /\ LinksTo(links, e) \in SUBSET (Records \X (1..2))
         /\ \A x \in LinksTo(links, e) : x[2] \in 1..Len(Targets[x[1]])
<1>1. LinksTo(links, e) \in SUBSET (Records \X (1..2))
  BY DEF LinksTo
<1>2. ASSUME NEW x \in LinksTo(links, e) PROVE x[2] \in 1..Len(Targets[x[1]])
  <2>1. x[1] \in Records /\ x[2] \in DOMAIN links[x[1]]
    BY DEF LinksTo
  <2>2. links[x[1]] \in Seq(Entities) /\ Len(links[x[1]]) \in {0, Len(Targets[x[1]])}
    BY <2>1 DEF LinksTyped
  <2>3. DOMAIN links[x[1]] = 1..Len(links[x[1]])
    BY <2>2, LenProperties
  <2>4. Len(links[x[1]]) = Len(Targets[x[1]])
    BY <2>1, <2>2, <2>3
  <2>5. QED
    BY <2>1, <2>3, <2>4
<1>3. QED
  BY <1>1, <1>2

\* What these links say of a field, as a build reads it.
Say(those, f) == {<<c.value, Evidence(c)>> : c \in Choose(f, Observations(those, f))}

LEMMA ClaimsAreNumbers ==
  ASSUME NEW r \in Records, NEW i \in 1..Len(Targets[r]), NEW f \in Fields
  PROVE  Claims[r][i][f] \in Nat \cup {Blank}
<1>1. Claims[r] \in [1..Len(Targets[r]) -> [Fields -> Nat \cup {Blank}]]
  BY ClaimAssumption
<1>2. QED
  BY <1>1

LEMMA ObservationsAreTyped ==
  ASSUME ClockTypes, NEW f \in Fields, NEW those \in SUBSET (Records \X (1..2)),
         \A x \in those : x[2] \in 1..Len(Targets[x[1]])
  PROVE  Observations(those, f) \in SUBSET Observation /\ IsFiniteSet(Observations(those, f))
<1> DEFINE saying == {y \in those : Claims[y[1]][y[2]][f] > None}
           said == [x \in saying |-> [value |-> Claims[x[1]][x[2]][f], source |-> SourceOf[x[1]],
                                      record |-> x[1], at |-> observedAt[x[1]]]]
<1>1. Observations(those, f) = {said[x] : x \in saying}
  BY DEF Observations
<1>2. ASSUME NEW x \in saying PROVE said[x] \in Observation
  <2>1. x[1] \in Records /\ x[2] \in 1..Len(Targets[x[1]]) /\ Claims[x[1]][x[2]][f] > None
    OBVIOUS
  <2>2. Claims[x[1]][x[2]][f] \in Nat \ {None}
    BY <2>1, ClaimsAreNumbers DEF None, Blank
  <2>3. SourceOf[x[1]] \in Nat
    BY <2>1, RecordAssumption
  <2>4. observedAt[x[1]] \in Nat
    BY <2>1 DEF ClockTypes
  <2>5. QED
    BY <2>1, <2>2, <2>3, <2>4 DEF Observation
<1>3. IsFiniteSet(saying)
  <2>0. IsFiniteSet(Records)
    BY RecordAssumption
  <2>1. IsFiniteSet(1..2)
    <3>1. 1 \in Int /\ 2 \in Int
      OBVIOUS
    <3>2. QED
      BY <3>1, FS_Interval
  <2>2. IsFiniteSet(Records \X (1..2))
    BY <2>0, <2>1, FS_Product
  <2>3. QED
    BY <2>2, FS_Subset
<1> HIDE DEF said, saying
<1>4. DOMAIN said = saying
  BY DEF said
<1>5. QED
  BY <1>1, <1>2, <1>3, <1>4, ImageIsFinite

\* A build has one verdict on a field, or none when nothing is said.
LEMMA OneVerdict ==
  ASSUME ClockTypes, NEW f \in Fields, NEW links, LinksTyped(links), NEW e
  PROVE  \/ Choose(f, Observations(LinksTo(links, e), f)) = {}
         \/ \E c \in Verdict : Choose(f, Observations(LinksTo(links, e), f)) = {c}
<1> DEFINE obs == Observations(LinksTo(links, e), f)
<1>1. obs \in SUBSET Observation /\ IsFiniteSet(obs)
  BY LinksHaveClaims, ObservationsAreTyped
<1> HIDE DEF obs
<1>2. CASE obs = {}
  BY <1>1, <1>2, OneIsChosen DEF obs
<1>3. CASE obs # {}
  <2>1. PICK o \in obs : Choose(f, obs) = {Choice(obs, o)}
    BY <1>1, <1>3, OneIsChosen
  <2>2. Choice(obs, o) \in Verdict
    BY <1>1, ChoiceIsVerdict
  <2>3. QED
    BY <2>1, <2>2 DEF obs
<1>4. QED
  BY <1>2, <1>3

\* Links that differ only in entities other than e are the same links to e.
LEMMA SameLinks ==
  ASSUME NEW links, NEW others, NEW e,
         \A r \in Records : \A i \in 1..2 :
           (i \in DOMAIN links[r] /\ links[r][i] = e) <=> (i \in DOMAIN others[r] /\ others[r][i] = e)
  PROVE  LinksTo(links, e) = LinksTo(others, e)
BY DEF LinksTo

\* The links of a record that had none are new only to their own entities.
LEMMA AddedLinks ==
  ASSUME NEW links \in [Records -> Seq(Entities)], NEW r \in Records, links[r] = <<>>,
         NEW targets, NEW e, e \notin Range(targets),
         NEW more, more[r] = targets, \A s \in Records \ {r} : more[s] = links[s]
  PROVE  LinksTo(more, e) = LinksTo(links, e)
<1>1. more[r] = targets /\ \A s \in Records \ {r} : more[s] = links[s]
  OBVIOUS
<1>2. \A i \in 1..2 : ~(i \in DOMAIN links[r] /\ links[r][i] = e)
  OBVIOUS
<1>3. \A i \in 1..2 : ~(i \in DOMAIN more[r] /\ more[r][i] = e)
  BY <1>1 DEF Range
<1>4. \A s \in Records : \A i \in 1..2 :
        (i \in DOMAIN more[s] /\ more[s][i] = e) <=> (i \in DOMAIN links[s] /\ links[s][i] = e)
  <2> TAKE s \in Records
  <2>1. CASE s = r
    BY <2>1, <1>2, <1>3
  <2>2. CASE s # r
    BY <2>2, <1>1
  <2>3. QED
    BY <2>1, <2>2
<1>5. QED
  BY <1>4, SameLinks

LEMMA SeenIsSeenLinks == ASSUME NEW p PROVE SeenLinks(p) = Seen(txn[p])
BY DEF SeenLinks, Seen

LEMMA SeenIsTyped ==
  ASSUME LinkTypes, NEW t \in Transaction, Shape(t)
  PROVE  LinksTyped(Seen(t))
<1>1. LinksTyped(link)
  BY DEF LinkTypes, LinksTyped
<1>2. CASE t.record = None
  BY <1>1, <1>2 DEF Seen
<1>3. CASE t.record # None
  <2>1. t.record \in Records /\ t.targets \in Seq(Entities)
    BY <1>3 DEF Transaction
  <2>2. Len(t.targets) = Len(Targets[t.record])
    BY <1>3 DEF Shape
  <2>3. Seen(t) = [link EXCEPT ![t.record] = t.targets]
    BY <1>3 DEF Seen
  <2>4. QED
    BY <1>1, <2>1, <2>2, <2>3 DEF LinksTyped
<1>4. QED
  BY <1>2, <1>3

---------------------------------------------------------------------------
(* Steps that change one transaction and no table.                         *)

LEMMA SaidIsSay == ASSUME NEW e, NEW f PROVE Said(e, f) = Say(LinksTo(link, e), f)
BY DEF Said, Say

LEMMA SaidNext ==
  ASSUME NEW e, NEW f, NEW those, those = LinksTo(link', e),
         \A x \in those : observedAt'[x[1]] = observedAt[x[1]]
  PROVE  Said(e, f)' = Say(those, f)
<1> DEFINE saying == {y \in those : Claims[y[1]][y[2]][f] > None}
<1>1. Said(e, f)' = {<<c.value, Evidence(c)>> : c \in Choose(f, Observations(those, f)')}
  BY DEF Said, LinksTo
<1>2. Observations(those, f)' = Observations(those, f)
  <2>1. Observations(those, f)' = {[value |-> Claims[x[1]][x[2]][f], source |-> SourceOf[x[1]],
                                    record |-> x[1], at |-> observedAt'[x[1]]] : x \in saying}
    BY DEF Observations
  <2>2. Observations(those, f) = {[value |-> Claims[x[1]][x[2]][f], source |-> SourceOf[x[1]],
                                   record |-> x[1], at |-> observedAt[x[1]]] : x \in saying}
    BY DEF Observations
  <2>3. \A x \in saying : observedAt'[x[1]] = observedAt[x[1]]
    OBVIOUS
  <2> HIDE DEF saying
  <2>4. QED
    BY <2>1, <2>2, <2>3
<1>3. QED
  BY <1>1, <1>2 DEF Say

\* What records say of an entity stays the same while its links and their times do.
LEMMA SaidStays ==
  ASSUME NEW e, NEW f, LinksTo(link', e) = LinksTo(link, e),
         \A x \in LinksTo(link, e) : observedAt'[x[1]] = observedAt[x[1]]
  PROVE  Said(e, f)' = Said(e, f)
<1>1. PICK those : those = LinksTo(link, e)
  OBVIOUS
<1>2. Said(e, f)' = Say(those, f)
  BY <1>1, SaidNext
<1>3. QED
  BY <1>1, <1>2, SaidIsSay

LEMMA RowsStayBounded ==
  ASSUME NEW rows \in Seq(Row), NEW now \in Nat, NEW later \in Nat, now <= later, Bounded(rows, now)
  PROVE  Bounded(rows, later)
<1>1. \A i \in DOMAIN rows : rows[i] \in Row
  BY LenProperties
<1>2. ASSUME NEW i \in DOMAIN rows
      PROVE  rows[i].from <= later /\ rows[i].to <= later /\ rows[i].by <= Len(rows)
  <2>1. rows[i].from \in Nat /\ rows[i].to \in Nat
    BY <1>1 DEF Row
  <2>2. rows[i].from <= now /\ rows[i].to <= now /\ rows[i].by <= Len(rows)
    BY DEF Bounded
  <2>3. QED
    BY <2>1, <2>2
<1>3. QED
  BY <1>2 DEF Bounded

\* Nobody else stands in the way of t, and t in nobody's.
Apart(t, p) ==
    \A q \in Procs \ {p} :
        /\ t.locked \cap (txn[q].locked \cup txn[q].shared) = {}
        /\ txn[q].locked \cap t.shared = {}
        /\ t.record # None => t.record # txn[q].record

LEMMA OneTxnKeepsInv ==
  ASSUME IInv, NEW p \in Procs, NEW t \in Transaction, txn' = [txn EXCEPT ![p] = t],
         UNCHANGED <<link, home, golden, stale>>,
         clock' \in Nat, clock <= clock', observedAt' \in [Records -> 0..clock'],
         \A r \in Records : observedAt'[r] # observedAt[r] => link[r] = <<>>,
         t.began <= clock', Shape(t), Apart(t, p), \A x \in t.read : Current(t, x)
  PROVE  IInv'
<1>1. Types /\ HomesLead /\ Shapes /\ Exclusive /\ ReadsHold /\ RowsHold /\ Cited /\ Fresh
  BY DEF IInv
<1>2. clock \in Nat /\ txn \in [Procs -> Transaction] /\ \A q \in Procs : txn[q].began <= clock
  BY <1>1 DEF Types, ClockTypes, TxnTypes
<1>3. txn' \in [Procs -> Transaction] /\ txn'[p] = t /\ \A q \in Procs \ {p} : txn'[q] = txn[q]
  BY <1>2
<1>4. Types'
  <2>1. TxnTypes'
    <3>1. \A q \in Procs : txn'[q].began <= clock'
      <4> TAKE q \in Procs
      <4>1. CASE q = p
        BY <4>1, <1>3
      <4>2. CASE q # p
        <5>1. txn'[q].began = txn[q].began /\ txn[q].began \in Nat /\ txn[q].began <= clock
          BY <4>2, <1>2, <1>3 DEF Transaction
        <5>2. QED
          BY <5>1, <1>2
      <4>3. QED
        BY <4>1, <4>2
    <3>2. QED
      BY <1>3, <3>1 DEF TxnTypes
  <2>2. ClockTypes'
    BY DEF ClockTypes
  <2>3. LinkTypes' /\ RowTypes' /\ (stale \subseteq Entities)'
    BY <1>1 DEF Types, LinkTypes, RowTypes
  <2>4. QED
    BY <2>1, <2>2, <2>3 DEF Types
<1>5. HomesLead'
  BY <1>1 DEF HomesLead
<1>6. Shapes'
  <2>1. \A q \in Procs : Shape(txn'[q])
    BY <1>1, <1>3 DEF Shapes
  <2>2. \A q \in Procs : Shape(txn'[q]) => Shape(txn[q])'
    BY DEF Shape
  <2>3. QED
    BY <2>1, <2>2 DEF Shapes
<1>7. Exclusive'
  <2> SUFFICES ASSUME NEW a \in Procs, NEW b \in Procs \ {a}
               PROVE  /\ txn'[a].locked \cap (txn'[b].locked \cup txn'[b].shared) = {}
                      /\ txn'[a].record # None => txn'[a].record # txn'[b].record
    BY DEF Exclusive
  <2>1. CASE a = p
    BY <2>1, <1>3 DEF Apart
  <2>2. CASE b = p
    <3>1. /\ t.locked \cap (txn[a].locked \cup txn[a].shared) = {}
          /\ txn[a].locked \cap t.shared = {}
          /\ t.record # None => t.record # txn[a].record
      BY <2>2 DEF Apart
    <3>2. txn'[a] = txn[a] /\ txn'[b] = t
      BY <2>2, <1>3
    <3>3. QED
      BY <3>1, <3>2
  <2>3. CASE a # p /\ b # p
    BY <2>3, <1>1, <1>3 DEF Exclusive
  <2>4. QED
    BY <2>1, <2>2, <2>3
<1>8. ReadsHold'
  <2>1. \A q \in Procs : \A x \in txn'[q].read : Current(txn'[q], x)
    BY <1>1, <1>3 DEF ReadsHold
  <2>2. \A q \in Procs : \A x \in txn'[q].read : Current(txn'[q], x) => Current(txn[q], x)'
    BY DEF Current, Seen
  <2>3. QED
    BY <2>1, <2>2 DEF ReadsHold
<1>9. RowsHold'
  <2>1. ASSUME NEW e \in Entities, NEW f \in Fields
        PROVE  Walkable(golden[e][f]) /\ Bounded(golden[e][f], clock')
    <3>1. golden[e][f] \in Seq(Row)
      BY <1>1 DEF Types, RowTypes
    <3>2. Walkable(golden[e][f]) /\ Bounded(golden[e][f], clock)
      BY <1>1 DEF RowsHold
    <3>3. QED
      BY <1>2, <3>1, <3>2, RowsStayBounded
  <2>2. QED
    BY <2>1 DEF RowsHold
<1>10. Cited'
  <2>1. link' = link /\ home' = home /\ golden' = golden /\ Cited
    BY <1>1
  <2>2. QED
    BY <2>1 DEF Cited
<1>11. Fresh'
  <2>1. ASSUME NEW e \in Entities \ stale, NEW f \in Fields
        PROVE  Said(e, f)' = Said(e, f)
    <3>1. \A x \in LinksTo(link, e) : x[1] \in Records /\ link[x[1]] # <<>>
      BY DEF LinksTo
    <3>2. QED
      BY <3>1, SaidStays
  <2>2. QED
    BY <1>1, <2>1 DEF Fresh
<1>12. QED
  BY <1>4, <1>5, <1>6, <1>7, <1>8, <1>9, <1>10, <1>11 DEF IInv

LEMMA RangeOfTail ==
  ASSUME NEW S, NEW s \in Seq(S), s # <<>>
  PROVE  Range(s) = {Head(s)} \cup Range(Tail(s))
<1>1. /\ Tail(s) \in Seq(S) /\ Len(Tail(s)) = Len(s) - 1 /\ Len(s) \in Nat \ {0}
      /\ \A i \in 1..Len(Tail(s)) : Tail(s)[i] = s[i + 1]
  BY HeadTailProperties, LenProperties, EmptySeq
<1>2. DOMAIN s = 1..Len(s) /\ DOMAIN Tail(s) = 1..(Len(s) - 1) /\ Head(s) = s[1]
  BY <1>1, LenProperties
<1>3. \A i \in 2..Len(s) : i - 1 \in 1..(Len(s) - 1) /\ s[i] = Tail(s)[i - 1]
  BY <1>1
<1>4. \A i \in 1..(Len(s) - 1) : i + 1 \in 1..Len(s) /\ Tail(s)[i] = s[i + 1]
  BY <1>1
<1>5. \A i \in 1..Len(s) : i = 1 \/ i \in 2..Len(s)
  BY <1>1
<1>6. 1 \in 1..Len(s)
  BY <1>1
<1>7. Range(s) \subseteq {Head(s)} \cup Range(Tail(s))
  BY <1>2, <1>3, <1>5 DEF Range
<1>8. {Head(s)} \cup Range(Tail(s)) \subseteq Range(s)
  BY <1>2, <1>4, <1>6 DEF Range
<1>9. QED
  BY <1>7, <1>8

LEMMA IdleIsQuiet ==
  ASSUME NEW p
  PROVE  Idle \in Transaction /\ Shape(Idle) /\ Apart(Idle, p) /\ Idle.read = {} /\ Idle.began = 0
<1>1. <<>> \in Seq(Entities)
  BY EmptySeq
<1>2. QED
  BY <1>1 DEF Idle, Transaction, Shape, Apart

LEMMA StartRecordKeepsInv ==
  ASSUME IInv, NEW p \in Procs, NEW r \in Records, NEW build \in GoldenFlags,
         StartRecord(p, r, build)
  PROVE  IInv'
<1> DEFINE found == [i \in DOMAIN Targets[r] |-> home[Targets[r][i]]]
           new == [Idle EXCEPT !.pc = "linking", !.record = r, !.began = clock + 1,
                               !.targets = found, !.todo = found, !.build = build]
<1>1. /\ clock \in Nat /\ observedAt \in [Records -> 0..clock] /\ home \in [Entities -> Entities]
      /\ txn \in [Procs -> Transaction] /\ clock' = clock + 1
  BY DEF IInv, Types, ClockTypes, HomesLead, TxnTypes, StartRecord
<1>2. found \in Seq(Entities) /\ Len(found) = Len(Targets[r]) /\ found # <<>>
  <2>1. Targets[r] \in Seq(Entities) /\ Len(Targets[r]) \in 1..2
    BY ClaimAssumption
  <2>2. DOMAIN Targets[r] = 1..Len(Targets[r]) /\ \A i \in 1..Len(Targets[r]) : Targets[r][i] \in Entities
    BY <2>1, LenProperties
  <2>3. found \in [1..Len(Targets[r]) -> Entities]
    BY <1>1, <2>2
  <2> HIDE DEF found
  <2>4. found \in Seq(Entities) /\ Len(found) = Len(Targets[r])
    BY <2>1, <2>3, FunctionIsSequence
  <2>5. QED
    <3>1. Len(found) # 0
      BY <2>1, <2>4
    <3>2. Len(<<>>) = 0
      OBVIOUS
    <3>3. QED
      BY <2>4, <3>1, <3>2
<1>4. r # None /\ build \in BOOLEAN /\ link[r] = <<>>
  BY RecordAssumption, BoundAssumption DEF StartRecord
<1>3. PICK t : t = new
  OBVIOUS
<1> HIDE DEF found
<1>5. /\ t.pc = "linking" /\ t.why = "" /\ t.record = r /\ t.began = clock + 1 /\ t.targets = found
      /\ t.todo = found /\ t.build = build /\ t.shared = {} /\ t.locked = {} /\ t.read = {}
  BY <1>3 DEF Idle
<1>6. t \in Transaction
  <2>1. PICK i \in Transaction : i = Idle
    BY IdleIsQuiet
  <2>2. t = [i EXCEPT !.pc = "linking", !.record = r, !.began = clock + 1,
                      !.targets = found, !.todo = found, !.build = build]
    BY <1>3, <2>1
  <2>3. clock + 1 \in Nat
    BY <1>1
  <2> HIDE DEF new
  <2>4. QED
    BY <1>2, <1>4, <2>2, <2>3 DEF Transaction
<1>14. txn' = [txn EXCEPT ![p] = t]
  BY <1>3 DEF StartRecord, found
<1> HIDE DEF new
<1>7. Shape(t)
  <2>0. t.began = clock + 1
    BY <1>5
  <2>1. t.began > 0
    BY <1>1, <2>0
  <2>2. QED
    BY <2>1, <1>2, <1>4, <1>5 DEF Shape
<1>8. Apart(t, p)
  BY <1>5 DEF Apart, StartRecord
<1>9. UNCHANGED <<link, home, golden, stale>>
  BY DEF StartRecord
<1>10. observedAt' = [observedAt EXCEPT ![r] = clock + 1]
  BY DEF StartRecord
<1>11. /\ clock' \in Nat /\ clock <= clock' /\ t.began <= clock'
       /\ observedAt' \in [Records -> 0..clock']
  <2>1. clock' \in Nat /\ clock <= clock'
    BY <1>1
  <2>0. t.began = clock + 1
    BY <1>5
  <2>2. t.began <= clock'
    BY <1>1, <2>0
  <2>3. observedAt' \in [Records -> 0..clock']
    BY <1>1, <1>10
  <2>4. QED
    BY <2>1, <2>2, <2>3
<1>12. \A s \in Records : observedAt'[s] # observedAt[s] => link[s] = <<>>
  BY <1>1, <1>4, <1>10
<1>13. QED
  BY <1>14, <1>5, <1>6, <1>7, <1>8, <1>9, <1>11, <1>12, OneTxnKeepsInv

\* A step in which no time passes.
LEMMA QuietTxnKeepsInv ==
  ASSUME IInv, NEW p \in Procs, NEW t \in Transaction, txn' = [txn EXCEPT ![p] = t],
         UNCHANGED <<link, home, golden, stale, clock, observedAt>>,
         t.began <= clock, Shape(t), Apart(t, p), \A x \in t.read : Current(t, x)
  PROVE  IInv'
<1>1. clock \in Nat /\ observedAt \in [Records -> 0..clock]
  BY DEF IInv, Types, ClockTypes
<1>2. clock' \in Nat /\ clock <= clock' /\ observedAt' \in [Records -> 0..clock'] /\ t.began <= clock'
  BY <1>1
<1>3. QED
  BY <1>2, OneTxnKeepsInv

LEMMA LinkKeepsInv ==
  ASSUME IInv, NEW p \in Procs, Link(p)
  PROVE  IInv'
<1> DEFINE left == Tail(txn[p].todo)
           new == [txn[p] EXCEPT !.shared = @ \cup {Head(txn[p].todo)},
                      !.pc = IF left = <<>> THEN "building" ELSE @,
                      !.todo = IF left # <<>> THEN left
                               ELSE IF txn[p].build THEN txn[p].targets ELSE <<>>]
<1>1. PICK t \in Transaction : t = txn[p]
  BY DEF IInv, Types, TxnTypes
<1>2. Shape(t) /\ Apart(t, p) /\ t.began <= clock
  <2>1. Shape(t) /\ t.began <= clock
    BY <1>1 DEF IInv, Types, TxnTypes, Shapes
  <2>2. Apart(t, p)
    BY <1>1 DEF IInv, Exclusive, Apart
  <2>3. QED
    BY <2>1, <2>2
<1>3. t.pc = "linking" /\ BlockedBy(p) = {} /\ t.todo # <<>> /\ t.record # None
      /\ t.locked = {} /\ t.read = {}
  BY <1>1, <1>2 DEF Link, Shape
<1>4. Head(t.todo) \in Entities /\ left \in Seq(Entities) /\ Range(t.todo) = {Head(t.todo)} \cup Range(left)
  <2>1. t.todo \in Seq(Entities)
    BY DEF Transaction
  <2>2. QED
    BY <1>1, <1>3, <2>1, HeadTailProperties, RangeOfTail
<1>5. PICK n : n = new
  OBVIOUS
<1>6. /\ n.pc = (IF left = <<>> THEN "building" ELSE "linking") /\ n.why = t.why
      /\ n.record = t.record /\ n.began = t.began /\ n.targets = t.targets /\ n.build = t.build
      /\ n.todo = (IF left # <<>> THEN left ELSE IF t.build THEN t.targets ELSE <<>>)
      /\ n.shared = t.shared \cup {Head(t.todo)} /\ n.locked = t.locked /\ n.read = t.read
      /\ n \in Transaction
  BY <1>1, <1>3, <1>4, <1>5 DEF Transaction
<1>7. Shape(n)
  <2>1. Range(t.targets) \subseteq t.shared \cup {Head(t.todo)} \cup Range(left)
    BY <1>2, <1>3, <1>4 DEF Shape
  <2>2. left = <<>> => Range(left) = {}
    BY DEF Range
  <2>3. Range(n.targets) \subseteq n.shared \cup (IF n.pc = "linking" THEN Range(n.todo) ELSE {})
    BY <1>6, <2>1, <2>2
  <2> HIDE DEF left, new
  <2>4. QED
    BY <1>2, <1>3, <1>6, <2>3 DEF Shape
<1>8. Apart(n, p)
  <2>1. ASSUME NEW q \in Procs \ {p}
        PROVE  /\ Head(t.todo) \notin txn[q].locked
               /\ txn[q].locked \cap t.shared = {} /\ t.record # txn[q].record
    <3>1. q \notin BlockedBy(p)
      BY <1>3
    <3>2. Head(t.todo) \notin txn[q].locked
      BY <1>1, <1>3, <3>1 DEF BlockedBy
    <3>3. txn[q].locked \cap txn[p].shared = {}
      BY DEF IInv, Exclusive
    <3>4. QED
      BY <1>1, <1>2, <1>3, <3>2, <3>3 DEF Apart
  <2> HIDE DEF left, new
  <2>2. QED
    BY <1>3, <1>6, <2>1 DEF Apart
<1>9. txn' = [txn EXCEPT ![p] = n]
  BY <1>5 DEF Link
<1>10. UNCHANGED <<link, home, golden, stale, clock, observedAt>>
  BY DEF Link
<1> HIDE DEF left, new
<1>11. QED
  BY <1>2, <1>3, <1>6, <1>7, <1>8, <1>9, <1>10, QuietTxnKeepsInv

LEMMA StartBuildKeepsInv ==
  ASSUME IInv, NEW p \in Procs, NEW e \in Entities, StartBuild(p, e)
  PROVE  IInv'
<1> DEFINE new == [Idle EXCEPT !.pc = "building", !.began = clock + 1, !.todo = <<e>>, !.build = TRUE]
<1>1. clock \in Nat /\ observedAt \in [Records -> 0..clock] /\ clock' = clock + 1
  BY DEF IInv, Types, ClockTypes, StartBuild
<1>2. PICK t : t = new
  OBVIOUS
<1>3. /\ t.pc = "building" /\ t.why = "" /\ t.record = None /\ t.began = clock + 1
      /\ t.shared = {} /\ t.locked = {} /\ t.read = {}
  BY <1>2 DEF Idle
<1>4. t \in Transaction
  <2>1. PICK i \in Transaction : i = Idle
    BY IdleIsQuiet
  <2>2. t = [i EXCEPT !.pc = "building", !.began = clock + 1, !.todo = <<e>>, !.build = TRUE]
    BY <1>2, <2>1
  <2>3. clock + 1 \in Nat /\ <<e>> \in Seq(Entities)
    BY <1>1
  <2>4. QED
    BY <2>2, <2>3 DEF Transaction
<1>5. txn' = [txn EXCEPT ![p] = t] /\ UNCHANGED <<link, home, golden, stale, observedAt>>
  BY <1>2 DEF StartBuild
<1> HIDE DEF new
<1>6. Shape(t) /\ Apart(t, p)
  <2>0. t.began = clock + 1
    BY <1>3
  <2>1. t.began > 0
    BY <1>1, <2>0
  <2>2. QED
    BY <1>3, <2>1 DEF Shape, Apart
<1>7. /\ clock' \in Nat /\ clock <= clock' /\ t.began <= clock'
      /\ observedAt' \in [Records -> 0..clock']
  <2>1. clock' \in Nat /\ clock <= clock'
    BY <1>1
  <2>0. t.began = clock + 1
    BY <1>3
  <2>2. t.began <= clock'
    BY <1>1, <2>0
  <2>3. observedAt' \in [Records -> 0..clock']
    BY <1>1, <1>5
  <2>4. QED
    BY <2>1, <2>2, <2>3
<1>8. QED
  BY <1>3, <1>4, <1>5, <1>6, <1>7, OneTxnKeepsInv

LEMMA TxnIsSound ==
  ASSUME IInv, NEW p \in Procs, NEW t, t = txn[p]
  PROVE  /\ t \in Transaction /\ Shape(t) /\ Apart(t, p) /\ t.began <= clock
         /\ \A x \in t.read : Current(t, x)
         /\ txn \in [Procs -> Transaction]
<1>1. t \in Transaction /\ t.began <= clock /\ txn \in [Procs -> Transaction]
  BY DEF IInv, Types, TxnTypes
<1>2. Shape(t)
  BY DEF IInv, Shapes
<1>3. Apart(t, p)
  BY DEF IInv, Exclusive, Apart
<1>4. \A x \in t.read : Current(t, x)
  BY DEF IInv, ReadsHold
<1>5. QED
  BY <1>1, <1>2, <1>3, <1>4

LEMMA LockAndReadKeepsInv ==
  ASSUME IInv, NEW p \in Procs, LockAndRead(p)
  PROVE  IInv'
<1>1. PICK t : t = txn[p]
  OBVIOUS
<1>2. /\ t \in Transaction /\ Shape(t) /\ Apart(t, p) /\ t.began <= clock
      /\ \A x \in t.read : Current(t, x)
  BY <1>1, TxnIsSound
<1>3. t.pc = "building" /\ t.todo # <<>> /\ BlockedBy(p) = {}
  BY <1>1 DEF LockAndRead
<1>4. PICK e : e = Head(t.todo)
  OBVIOUS
<1>5. e \in Entities /\ Tail(t.todo) \in Seq(Entities)
  BY <1>2, <1>3, <1>4, HeadTailProperties DEF Transaction
<1>6. PICK x : x = [entity |-> e, links |-> LinksTo(SeenLinks(p), e),
                    old |-> [f \in Fields |-> OpenRows(golden[e][f])]]
  OBVIOUS
<1>7. x \in Reading /\ x.entity = e /\ Current(t, x)
  <2>1. LinksTo(SeenLinks(p), e) \in SUBSET (Records \X (1..2))
    BY DEF LinksTo
  <2>2. [f \in Fields |-> OpenRows(golden[e][f])] \in [Fields -> SUBSET Nat]
    <3>1. ASSUME NEW f \in Fields PROVE OpenRows(golden[e][f]) \in SUBSET Nat
      <4>1. golden[e][f] \in Seq(Row)
        BY <1>5 DEF IInv, Types, RowTypes
      <4>2. QED
        BY <4>1, LenProperties DEF OpenRows
    <3>2. QED
      BY <3>1
  <2>3. Current(t, x)
    BY <1>1, <1>6, SeenIsSeenLinks DEF Current
  <2>4. QED
    BY <1>5, <1>6, <2>1, <2>2, <2>3 DEF Reading
<1>8. PICK n : n = [t EXCEPT !.locked = @ \cup {e}, !.todo = Tail(@), !.read = @ \cup {x}]
  OBVIOUS
<1>9. /\ n.pc = t.pc /\ n.why = t.why /\ n.record = t.record /\ n.began = t.began
      /\ n.targets = t.targets /\ n.todo = Tail(t.todo) /\ n.shared = t.shared
      /\ n.locked = t.locked \cup {e} /\ n.read = t.read \cup {x}
      /\ n \in Transaction
  BY <1>2, <1>5, <1>7, <1>8 DEF Transaction
<1>10. Shape(n)
  <2>1. Range(n.targets) \subseteq n.shared \cup (IF n.pc = "linking" THEN Range(n.todo) ELSE {})
        \/ n.record = None
    BY <1>2, <1>3, <1>9 DEF Shape
  <2>2. \A y \in n.read : y.entity \in n.locked
    BY <1>2, <1>7, <1>9 DEF Shape
  <2>3. n.began > 0
    <3>1. t.began > 0
      BY <1>2, <1>3 DEF Shape
    <3>2. QED
      BY <1>9, <3>1
  <2>4. QED
    BY <1>2, <1>3, <1>9, <2>1, <2>2, <2>3 DEF Shape
<1>11. Apart(n, p)
  <2>1. ASSUME NEW q \in Procs \ {p}
        PROVE  e \notin txn[q].locked /\ e \notin txn[q].shared
    <3>1. q \notin BlockedBy(p)
      BY <1>3
    <3>2. QED
      BY <1>1, <1>3, <1>4, <3>1 DEF BlockedBy
  <2>2. QED
    BY <1>2, <1>9, <2>1 DEF Apart
<1>12. \A y \in n.read : Current(n, y)
  BY <1>2, <1>7, <1>9 DEF Current, Seen
<1>13. txn' = [txn EXCEPT ![p] = n] /\ UNCHANGED <<link, home, golden, stale, clock, observedAt>>
  BY <1>1, <1>4, <1>6, <1>8 DEF LockAndRead
<1>14. n.began <= clock
  BY <1>2, <1>9
<1>15. QED
  BY <1>9, <1>10, <1>11, <1>12, <1>13, <1>14, QuietTxnKeepsInv

\* Going on, and being the victim of a deadlock.
LEMMA EndKeepsInv ==
  ASSUME IInv, NEW p \in Procs, txn' = [txn EXCEPT ![p] = Idle],
         UNCHANGED <<link, observedAt, home, golden, clock, stale, budget>>
  PROVE  IInv'
<1>1. clock \in Nat
  BY DEF IInv, Types, ClockTypes
<1>2. PICK t : t = Idle
  OBVIOUS
<1>3. t \in Transaction /\ Shape(t) /\ Apart(t, p) /\ t.read = {} /\ t.began <= clock
  BY <1>1, <1>2, IdleIsQuiet
<1>4. txn' = [txn EXCEPT ![p] = t]
  BY <1>2
<1>5. QED
  BY <1>3, <1>4, QuietTxnKeepsInv

\* Every field that a build has read is well built, from the links that are current
\* for it; the others keep their rows.
LEMMA BuiltIsWell ==
  ASSUME IInv, NEW p \in Procs, Ready(p)
  PROVE  /\ Built(p) \in [Entities -> [Fields -> Seq(Row)]]
         /\ \A e \in Entities, f \in Fields :
              /\ e \notin BuiltBy(p) => Built(p)[e][f] = golden[e][f]
              /\ e \in BuiltBy(p) =>
                   WellBuilt(golden[e][f], Built(p)[e][f],
                             Choose(f, Observations(LinksTo(SeenLinks(p), e), f)), clock)
<1>1. PICK t : t = txn[p]
  OBVIOUS
<1>2. /\ t \in Transaction /\ Shape(t) /\ t.began <= clock /\ \A x \in t.read : Current(t, x)
  BY <1>1, TxnIsSound
<1>3. clock \in Nat /\ ClockTypes /\ LinkTypes /\ golden \in [Entities -> [Fields -> Seq(Row)]]
  BY DEF IInv, Types, ClockTypes, RowTypes
<1>4. t.began \in 1..clock
  <2>1. t.began > 0
    BY <1>1, <1>2 DEF Shape, Ready
  <2>2. t.began \in Nat
    BY <1>2 DEF Transaction
  <2>3. QED
    BY <1>2, <1>3, <2>1, <2>2
<1>5. SeenLinks(p) = Seen(t) /\ LinksTyped(Seen(t))
  BY <1>1, <1>2, <1>3, SeenIsSeenLinks, SeenIsTyped
<1>6. ASSUME NEW a \in Entities, a \in BuiltBy(p)
      PROVE  /\ \A g \in Fields : Built(p)[a][g] =
                  BuildField(golden[a][g], OpenRows(golden[a][g]),
                             Choose(g, Observations(LinksTo(SeenLinks(p), a), g)), t.began)
             /\ DOMAIN Built(p)[a] = Fields
             /\ Built(p)[a] = [g \in Fields |-> Built(p)[a][g]]
  <2>1. PICK x \in t.read : x = CHOOSE y \in t.read : y.entity = a
    BY <1>1, <1>6 DEF BuiltBy
  <2>2. x.entity = a
    BY <1>1, <1>6, <2>1 DEF BuiltBy
  <2>3. x.links = LinksTo(SeenLinks(p), a) /\ x.old = [g \in Fields |-> OpenRows(golden[a][g])]
    BY <1>2, <1>5, <2>2 DEF Current
  <2>4. Built(p)[a] = [g \in Fields |-> BuildField(golden[a][g], x.old[g],
                                  Choose(g, Observations(x.links, g)), t.began)]
    BY <1>1, <2>1, <2>2 DEF Built
  <2>5. QED
    BY <2>3, <2>4
<1>7. ASSUME NEW a \in Entities, a \notin BuiltBy(p) PROVE Built(p)[a] = golden[a]
  BY <1>1, <1>7 DEF Built, BuiltBy
<1>8. ASSUME NEW a \in Entities, NEW g \in Fields, a \in BuiltBy(p)
      PROVE  WellBuilt(golden[a][g], Built(p)[a][g],
                       Choose(g, Observations(LinksTo(SeenLinks(p), a), g)), clock)
  <2>1. PICK choices : choices = Choose(g, Observations(LinksTo(SeenLinks(p), a), g))
    OBVIOUS
  <2>2. choices = {} \/ \E c \in Verdict : choices = {c}
    BY <1>3, <1>5, <2>1, OneVerdict
  <2>3. golden[a][g] \in Seq(Row) /\ Walkable(golden[a][g]) /\ Bounded(golden[a][g], clock)
    BY <1>3 DEF IInv, RowsHold
  <2>4. Built(p)[a][g] = BuildField(golden[a][g], OpenRows(golden[a][g]), choices, t.began)
    BY <1>6, <1>8, <2>1
  <2>5. WellBuilt(golden[a][g], Built(p)[a][g], choices, clock)
    BY <1>3, <1>4, <2>2, <2>3, <2>4, FieldIsWellBuilt
  <2>6. QED
    BY <2>1, <2>5
<1>9. Built(p) \in [Entities -> [Fields -> Seq(Row)]]
  <2>1. ASSUME NEW a \in Entities PROVE Built(p)[a] \in [Fields -> Seq(Row)]
    <3>1. CASE a \in BuiltBy(p)
      <4>1. \A g \in Fields : Built(p)[a][g] \in Seq(Row)
        BY <1>8, <3>1 DEF WellBuilt
      <4>2. Built(p)[a] = [g \in Fields |-> Built(p)[a][g]]
        BY <1>6, <3>1
      <4>3. QED
        BY <4>1, <4>2
    <3>2. CASE a \notin BuiltBy(p)
      BY <1>3, <1>7, <3>2
    <3>3. QED
      BY <3>1, <3>2
  <2>2. Built(p) = [a \in Entities |-> Built(p)[a]]
    BY DEF Built
  <2>3. QED
    BY <2>1, <2>2
<1>10. QED
  BY <1>7, <1>8, <1>9

\* So the unique index has nothing to refuse.
LEMMA BuiltIsUnique ==
  ASSUME IInv, NEW p \in Procs, Ready(p)
  PROVE  Unique(Built(p))
<1>1. ASSUME NEW e \in Entities, NEW f \in Fields PROVE UniqueCurrent(Built(p)[e][f])
  <2>1. CASE e \in BuiltBy(p)
    <3>1. OpenRows(Built(p)[e][f]) \subseteq {Len(Built(p)[e][f])}
      BY <2>1, BuiltIsWell DEF WellBuilt
    <3>2. QED
      BY <3>1, OneRowIsUnique
  <2>2. CASE e \notin BuiltBy(p)
    <3>1. Built(p)[e][f] = golden[e][f]
      BY <2>2, BuiltIsWell
    <3>2. golden[e][f] \in Seq(Row) /\ Walkable(golden[e][f])
      BY DEF IInv, Types, RowTypes, RowsHold
    <3>3. OpenRows(golden[e][f]) \subseteq {Len(golden[e][f])}
      BY <3>2, LastIsCurrent
    <3>4. QED
      BY <3>1, <3>3, OneRowIsUnique
  <2>3. QED
    BY <2>1, <2>2
<1>2. QED
  BY <1>1 DEF Unique

LEMMA RefuseKeepsInv ==
  ASSUME IInv, NEW p \in Procs, Refuse(p)
  PROVE  IInv'
<1>1. PICK why : why = IF Fits(Built(p)) THEN "index" ELSE "check"
  OBVIOUS
<1>2. why = "check"
  BY <1>1, BuiltIsUnique DEF Refuse
<1>3. PICK i \in Transaction : i = Idle
  BY IdleIsQuiet
<1>4. PICK t : t = [i EXCEPT !.pc = "refused", !.why = why]
  OBVIOUS
<1>5. t \in Transaction
  BY <1>2, <1>4 DEF Transaction
<1>6. /\ t.pc = "refused" /\ t.why = "check" /\ t.record = None /\ t.began = 0
      /\ t.shared = {} /\ t.locked = {} /\ t.read = {}
  BY <1>2, <1>3, <1>4 DEF Idle, Transaction
<1>7. Shape(t) /\ Apart(t, p)
  BY <1>6 DEF Shape, Apart
<1>8. t.began <= clock
  <2>1. clock \in Nat /\ t.began = 0
    BY <1>6 DEF IInv, Types, ClockTypes
  <2>2. QED
    BY <2>1
<1>9. txn' = [txn EXCEPT ![p] = t] /\ UNCHANGED <<link, home, golden, stale, clock, observedAt>>
  BY <1>1, <1>3, <1>4 DEF Refuse
<1>10. QED
  BY <1>5, <1>6, <1>7, <1>8, <1>9, QuietTxnKeepsInv

---------------------------------------------------------------------------
(* Merges and commits.                                                     *)

\* The links that a merge of a into b leaves.
Moved(links, a, b) ==
    [r \in Records |-> [i \in DOMAIN links[r] |-> IF links[r][i] = a THEN b ELSE links[r][i]]]

LEMMA MovedLinks ==
  ASSUME LinkTypes, NEW a \in Entities, NEW b \in Entities
  PROVE  \A r \in Records : /\ Moved(link, a, b)[r] \in Seq(Entities)
                            /\ Len(Moved(link, a, b)[r]) = Len(link[r])
                            /\ link[r] = <<>> => Moved(link, a, b)[r] = <<>>
<1> TAKE r \in Records
<1> DEFINE moved == [i \in DOMAIN link[r] |-> IF link[r][i] = a THEN b ELSE link[r][i]]
<1>1. Moved(link, a, b)[r] = moved
  BY DEF Moved
<1>2. link[r] \in Seq(Entities)
  BY DEF LinkTypes
<1>3. Len(link[r]) \in Nat /\ DOMAIN link[r] = 1..Len(link[r])
      /\ \A i \in DOMAIN link[r] : link[r][i] \in Entities
  BY <1>2, LenProperties
<1>4. moved \in [1..Len(link[r]) -> Entities]
  BY <1>3
<1> HIDE DEF moved
<1>5. moved \in Seq(Entities) /\ Len(moved) = Len(link[r])
  BY <1>3, <1>4, FunctionIsSequence
<1>6. link[r] = <<>> => moved = <<>>
  BY <1>5, EmptySeq
<1>7. QED
  BY <1>1, <1>5, <1>6

LEMMA MergeKeepsInv ==
  ASSUME IInv, NEW a \in Entities, NEW b \in Entities, Merge(a, b)
  PROVE  IInv'
<1>1. Types /\ HomesLead /\ Shapes /\ Exclusive /\ ReadsHold /\ RowsHold /\ Cited /\ Fresh
  BY DEF IInv
<1>2. /\ a # b /\ home[a] = a /\ home[b] = b /\ \A q \in Procs : a \notin txn[q].locked /\ b \notin txn[q].locked
      /\ link' = Moved(link, a, b)
      /\ home' = [e \in Entities |-> IF home[e] = a THEN b ELSE home[e]]
      /\ stale' = stale \cup {a, b} /\ UNCHANGED <<observedAt, golden, txn, clock>>
  BY DEF Merge, Moved
<1>3. link \in [Records -> Seq(Entities)] /\ LinkTypes
  BY <1>1 DEF Types, LinkTypes
<1>4. \A r \in Records : /\ link'[r] \in Seq(Entities) /\ Len(link'[r]) = Len(link[r])
                         /\ link[r] = <<>> => link'[r] = <<>>
  BY <1>2, <1>3, MovedLinks
<1>5. \A r \in Records : /\ DOMAIN link'[r] = DOMAIN link[r]
                         /\ \A i \in DOMAIN link[r] : link'[r][i] = IF link[r][i] = a THEN b ELSE link[r][i]
  BY <1>2 DEF Moved
<1>6. Types'
  <2>1. link' \in [Records -> Seq(Entities)]
    BY <1>2, <1>4 DEF Moved
  <2>2. LinkTypes'
    BY <1>3, <1>4, <2>1 DEF LinkTypes
  <2>3. ClockTypes' /\ RowTypes' /\ TxnTypes' /\ (stale \subseteq Entities)'
    BY <1>1, <1>2 DEF Types, ClockTypes, RowTypes, TxnTypes
  <2>4. QED
    BY <2>2, <2>3 DEF Types
<1>7. HomesLead'
  BY <1>1, <1>2 DEF HomesLead
<1>8. Shapes'
  <2>1. ASSUME NEW q \in Procs PROVE Shape(txn[q])'
    <3>1. PICK t : t = txn[q]
      OBVIOUS
    <3>2. t \in Transaction /\ Shape(t) /\ txn'[q] = t
      BY <1>2, <3>1, TxnIsSound
    <3>3. t.record # None => link'[t.record] = <<>>
      BY <1>4, <3>2 DEF Shape, Transaction
    <3>4. Shape(t)'
      BY <3>2, <3>3 DEF Shape
    <3>5. QED
      BY <3>2, <3>4
  <2>2. QED
    BY <2>1 DEF Shapes
<1>9. Exclusive'
  BY <1>1, <1>2 DEF Exclusive
<1>10. ASSUME NEW e \in Entities, e # a, e # b
       PROVE  LinksTo(link', e) = LinksTo(link, e)
  <2>1. \A r \in Records : \A i \in 1..2 :
          (i \in DOMAIN link'[r] /\ link'[r][i] = e) <=> (i \in DOMAIN link[r] /\ link[r][i] = e)
    BY <1>5, <1>10
  <2>2. QED
    BY <2>1, SameLinks
<1>11. ReadsHold'
  <2>1. ASSUME NEW q \in Procs, NEW x, x \in txn[q].read
        PROVE  Current(txn[q], x)'
    <3>1. PICK t : t = txn[q]
      OBVIOUS
    <3>2. t \in Transaction /\ Shape(t) /\ Current(t, x) /\ txn'[q] = t
      BY <1>2, <2>1, <3>1, TxnIsSound
    <3>3. PICK e : e = x.entity
      OBVIOUS
    <3>4. e \in Entities /\ e # a /\ e # b
      BY <1>2, <2>1, <3>1, <3>2, <3>3 DEF Shape, Transaction
    <3>5. LinksTo(Seen(t)', e) = LinksTo(Seen(t), e)
      <4>1. CASE t.record = None
        BY <1>10, <3>4, <4>1 DEF Seen
      <4>2. CASE t.record # None
        <5>1. Seen(t) = [link EXCEPT ![t.record] = t.targets]
              /\ Seen(t)' = [link' EXCEPT ![t.record] = t.targets]
          BY <4>2 DEF Seen
        <5>2. link' \in [Records -> Seq(Entities)]
          BY <1>6 DEF Types, LinkTypes
        <5>3. \A r \in Records : \A i \in 1..2 :
                (i \in DOMAIN Seen(t)'[r] /\ Seen(t)'[r][i] = e)
                  <=> (i \in DOMAIN Seen(t)[r] /\ Seen(t)[r][i] = e)
          <6> TAKE r \in Records
          <6>1. CASE r = t.record
            BY <1>3, <5>1, <5>2, <6>1
          <6>2. CASE r # t.record
            <7>1. Seen(t)'[r] = link'[r] /\ Seen(t)[r] = link[r]
              BY <1>3, <5>1, <5>2, <6>2
            <7>2. QED
              BY <1>5, <3>4, <7>1
          <6>3. QED
            BY <6>1, <6>2
        <5>4. PICK before : before = Seen(t)
          OBVIOUS
        <5>5. PICK after : after = Seen(t)'
          OBVIOUS
        <5>6. QED
          BY <5>3, <5>4, <5>5, SameLinks
      <4>3. QED
        BY <4>1, <4>2
    <3>6. Current(t, x)'
      BY <1>2, <3>2, <3>3, <3>5 DEF Current
    <3>7. QED
      BY <3>2, <3>6
  <2>2. QED
    BY <1>2, <2>1 DEF ReadsHold
<1>12. RowsHold'
  BY <1>1, <1>2 DEF RowsHold
<1>13. Cited'
  <2>1. ASSUME NEW e \in Entities, NEW f \in Fields, home'[e] = e, NEW i \in OpenRows(golden[e][f])
        PROVE  Cites(link', e, f, golden[e][f][i].choice)
    <3>1. e # a /\ home[e] = e
      BY <1>1, <1>2, <2>1 DEF HomesLead
    <3>2. PICK c : c = golden[e][f][i].choice
      OBVIOUS
    <3>3. Cites(link, e, f, c)
      BY <1>1, <3>1, <3>2 DEF Cited
    <3>4. c.record \in Records
      <4>1. golden[e][f] \in Seq(Row)
        BY <1>1 DEF Types, RowTypes
      <4>2. golden[e][f][i] \in Row
        BY <4>1, LenProperties DEF OpenRows
      <4>3. QED
        BY <3>2, <4>2 DEF Row, Verdict
    <3>5. Cites(link', e, f, c)
      BY <1>5, <3>1, <3>3, <3>4 DEF Cites
    <3>6. QED
      BY <3>2, <3>5
  <2>2. QED
    BY <1>2, <2>1 DEF Cited
<1>14. Fresh'
  <2>1. ASSUME NEW e \in Entities \ stale', NEW f \in Fields
        PROVE  Published(golden'[e][f]) = Said(e, f)'
    <3>1. e \in Entities \ stale /\ e # a /\ e # b
      BY <1>2
    <3>2. Said(e, f)' = Said(e, f)
      BY <1>2, <1>10, <3>1, SaidStays
    <3>3. QED
      BY <1>1, <1>2, <3>1, <3>2 DEF Fresh
  <2>2. QED
    BY <2>1 DEF Fresh
<1>15. QED
  BY <1>6, <1>7, <1>8, <1>9, <1>11, <1>12, <1>13, <1>14 DEF IInv

\* The record that is cited for a choice is linked, and says what was chosen.
LEMMA ChoiceIsCited ==
  ASSUME NEW links, NEW e, NEW f, NEW c \in Choose(f, Observations(LinksTo(links, e), f))
  PROVE  Cites(links, e, f, c)
<1> DEFINE obs == Observations(LinksTo(links, e), f)
<1>1. PICK o \in obs : c = Choice(obs, o)
  BY DEF Choose
<1>2. c.value = o.value /\ c.record = o.record
  BY <1>1 DEF Choice
<1>3. PICK x \in LinksTo(links, e) : o.value = Claims[x[1]][x[2]][f] /\ o.record = x[1]
  BY DEF Observations
<1>4. x[2] \in DOMAIN links[x[1]] /\ links[x[1]][x[2]] = e
  BY DEF LinksTo
<1>5. QED
  BY <1>2, <1>3, <1>4 DEF Cites

LEMMA CommitKeepsInv ==
  ASSUME IInv, NEW p \in Procs, Commit(p)
  PROVE  IInv'
<1>1. Types /\ HomesLead /\ Shapes /\ Exclusive /\ ReadsHold /\ RowsHold /\ Cited /\ Fresh
  BY DEF IInv
<1>2. PICK t : t = txn[p]
  OBVIOUS
<1>3. /\ t \in Transaction /\ Shape(t) /\ Apart(t, p) /\ t.began <= clock
      /\ \A x \in t.read : Current(t, x)
      /\ txn \in [Procs -> Transaction]
  BY <1>2, TxnIsSound
<1>4. PICK after : after = Seen(t)
  OBVIOUS
<1>5. PICK built : built = Built(p)
  OBVIOUS
<1>6. PICK mine : mine = BuiltBy(p)
  OBVIOUS
<1>7. /\ Ready(p) /\ t.pc = "building" /\ Fits(built) /\ link' = after /\ golden' = built
      /\ stale' = (stale \cup t.shared) \ mine
      /\ txn' = [txn EXCEPT ![p] = Idle] /\ UNCHANGED <<observedAt, home, clock>>
  BY <1>2, <1>4, <1>5, <1>6, SeenIsSeenLinks DEF Commit, Ready
<1>8. LinkTypes /\ link \in [Records -> Seq(Entities)] /\ clock \in Nat /\ ClockTypes
      /\ golden \in [Entities -> [Fields -> Seq(Row)]]
  BY <1>1 DEF Types, LinkTypes, ClockTypes, RowTypes
<1>9. LinksTyped(after)
  BY <1>3, <1>4, <1>8, SeenIsTyped
<1>10. /\ built \in [Entities -> [Fields -> Seq(Row)]]
       /\ \A e \in Entities, f \in Fields :
            /\ e \notin mine => built[e][f] = golden[e][f]
            /\ e \in mine => WellBuilt(golden[e][f], built[e][f],
                                       Choose(f, Observations(LinksTo(after, e), f)), clock)
  BY <1>2, <1>4, <1>5, <1>6, <1>7, BuiltIsWell, SeenIsSeenLinks
<1>11. /\ t.record # None => t.record \in Records /\ link[t.record] = <<>>
                             /\ after = [link EXCEPT ![t.record] = t.targets]
                             /\ Range(t.targets) \subseteq t.shared
       /\ t.record = None => after = link
  <2>1. CASE t.record # None
    <3>1. t.record \in Records
      BY <2>1, <1>3 DEF Transaction
    <3>2. link[t.record] = <<>> /\ Range(t.targets) \subseteq t.shared
      BY <2>1, <1>3, <1>7 DEF Shape
    <3>3. after = [link EXCEPT ![t.record] = t.targets]
      BY <2>1, <1>4 DEF Seen
    <3>4. QED
      BY <2>1, <3>1, <3>2, <3>3
  <2>2. CASE t.record = None
    BY <2>2, <1>4 DEF Seen
  <2>3. QED
    BY <2>1, <2>2
<1>12. \A r \in Records : r # t.record => after[r] = link[r]
  BY <1>8, <1>11
<1>13. ASSUME NEW e, e \notin t.shared PROVE LinksTo(after, e) = LinksTo(link, e)
  <2>1. CASE t.record = None
    BY <2>1, <1>11
  <2>2. CASE t.record # None
    <3>1. e \notin Range(t.targets)
      BY <2>2, <1>11, <1>13
    <3>2. PICK r \in Records : r = t.record
      BY <2>2, <1>11
    <3>3. link[r] = <<>> /\ after = [link EXCEPT ![r] = t.targets]
      BY <2>2, <3>2, <1>11
    <3>4. after[r] = t.targets /\ \A s \in Records \ {r} : after[s] = link[s]
      BY <1>8, <3>3
    <3>5. link[r] = <<>>
      BY <3>3
    <3>6. PICK before \in [Records -> Seq(Entities)] : before = link
      BY <1>8
    <3>7. PICK targets : targets = t.targets
      OBVIOUS
    <3>8. /\ before[r] = <<>> /\ e \notin Range(targets) /\ after[r] = targets
          /\ \A s \in Records \ {r} : after[s] = before[s]
      BY <3>1, <3>4, <3>5, <3>6, <3>7
    <3>9. LinksTo(after, e) = LinksTo(before, e)
      BY <3>8, AddedLinks
    <3>10. QED
      BY <3>6, <3>9
  <2>3. QED
    BY <2>1, <2>2
<1>14. mine \subseteq t.locked
  BY <1>2, <1>3, <1>6 DEF BuiltBy, Shape
<1>15. PICK i \in Transaction : i = Idle
  BY IdleIsQuiet
<1>16. /\ txn' \in [Procs -> Transaction] /\ txn'[p] = i
       /\ \A q \in Procs \ {p} : txn'[q] = txn[q]
       /\ i.record = None /\ i.shared = {} /\ i.locked = {} /\ i.read = {} /\ i.began = 0
  BY <1>3, <1>7, <1>15 DEF Idle
<1>17. Types'
  <2>1. LinkTypes'
    BY <1>7, <1>9 DEF LinkTypes, LinksTyped
  <2>2. ClockTypes'
    BY <1>7, <1>8 DEF ClockTypes
  <2>3. RowTypes'
    BY <1>7, <1>10 DEF RowTypes
  <2>4. TxnTypes'
    <3>1. \A q \in Procs : txn'[q].began <= clock
      <4>1. i.began <= clock
        BY <1>8, <1>16
      <4>2. \A q \in Procs : txn[q].began <= clock
        BY <1>1 DEF Types, TxnTypes
      <4>3. QED
        BY <1>16, <4>1, <4>2
    <3>2. QED
      BY <1>7, <1>16, <3>1 DEF TxnTypes
  <2>5. (stale \subseteq Entities)'
    BY <1>1, <1>3, <1>7 DEF Types, Transaction
  <2>6. QED
    BY <2>1, <2>2, <2>3, <2>4, <2>5 DEF Types
<1>18. HomesLead'
  BY <1>1, <1>7 DEF HomesLead
<1>19. Shapes'
  <2>1. ASSUME NEW q \in Procs PROVE Shape(txn[q])'
    <3>1. PICK u : u = txn'[q]
      OBVIOUS
    <3>2. CASE q = p
      <4>1. u = Idle
        BY <1>15, <1>16, <3>1, <3>2
      <4>2. Shape(u)'
        BY <4>1 DEF Shape, Idle
      <4>3. QED
        BY <3>1, <4>2
    <3>3. CASE q # p
      <4>1. u = txn[q] /\ u \in Transaction /\ Shape(u)
        BY <1>16, <3>1, <3>3, TxnIsSound
      <4>2. u.record # None => u.record # t.record
        BY <1>1, <1>2, <3>3, <4>1 DEF Exclusive
      <4>3. u.record # None => link'[u.record] = <<>>
        BY <1>7, <1>12, <4>1, <4>2 DEF Shape, Transaction
      <4>4. Shape(u)'
        BY <4>1, <4>3 DEF Shape
      <4>5. QED
        BY <3>1, <4>4
    <3>4. QED
      BY <3>2, <3>3
  <2>2. QED
    BY <2>1 DEF Shapes
<1>20. Exclusive'
  <2> SUFFICES ASSUME NEW a \in Procs, NEW b \in Procs \ {a}
               PROVE  /\ txn'[a].locked \cap (txn'[b].locked \cup txn'[b].shared) = {}
                      /\ txn'[a].record # None => txn'[a].record # txn'[b].record
    BY DEF Exclusive
  <2>1. CASE a = p
    BY <2>1, <1>16
  <2>2. CASE b = p
    BY <2>2, <1>16
  <2>3. CASE a # p /\ b # p
    BY <2>3, <1>1, <1>16 DEF Exclusive
  <2>4. QED
    BY <2>1, <2>2, <2>3
<1>21. ReadsHold'
  <2>1. ASSUME NEW q \in Procs, NEW x, x \in txn'[q].read PROVE Current(txn[q], x)'
    <3>1. q # p
      BY <1>16, <2>1
    <3>2. PICK u : u = txn[q]
      OBVIOUS
    <3>3. u = txn'[q] /\ u \in Transaction /\ Shape(u) /\ x \in u.read /\ Current(u, x)
      BY <1>16, <2>1, <3>1, <3>2, TxnIsSound
    <3>4. PICK e : e = x.entity
      OBVIOUS
    <3>5. e \in Entities /\ e \in u.locked
      BY <3>3, <3>4 DEF Shape, Transaction
    <3>6. e \notin t.shared /\ e \notin t.locked
      BY <1>3, <3>1, <3>2, <3>5, <1>1, <1>2 DEF Apart, Exclusive
    <3>7. \A f \in Fields : built[e][f] = golden[e][f]
      BY <1>10, <1>14, <3>5, <3>6
    <3>8. PICK now : now = Seen(u)
      OBVIOUS
    <3>9. PICK then : then = Seen(u)'
      OBVIOUS
    <3>10. LinksTo(then, e) = LinksTo(now, e)
      <4>1. CASE u.record = None
        <5>1. now = link /\ then = after
          BY <1>7, <3>8, <3>9, <4>1 DEF Seen
        <5>2. QED
          BY <1>13, <3>6, <5>1
      <4>2. CASE u.record # None
        <5>1. now = [link EXCEPT ![u.record] = u.targets]
              /\ then = [after EXCEPT ![u.record] = u.targets]
          BY <1>7, <3>8, <3>9, <4>2 DEF Seen
        <5>2. after \in [Records -> Seq(Entities)]
          BY <1>9 DEF LinksTyped
        <5>3. \A r \in Records : \A k \in 1..2 :
                (k \in DOMAIN after[r] /\ after[r][k] = e) <=> (k \in DOMAIN link[r] /\ link[r][k] = e)
          <6> TAKE r \in Records
          <6> TAKE k \in 1..2
          <6>1. LinksTo(after, e) = LinksTo(link, e)
            BY <1>13, <3>6
          <6>2. <<r, k>> \in LinksTo(after, e) <=> <<r, k>> \in LinksTo(link, e)
            BY <6>1
          <6>3. QED
            BY <6>2 DEF LinksTo
        <5>4. \A r \in Records : \A k \in 1..2 :
                (k \in DOMAIN then[r] /\ then[r][k] = e) <=> (k \in DOMAIN now[r] /\ now[r][k] = e)
          <6> TAKE r \in Records
          <6>1. CASE r = u.record
            BY <1>8, <5>1, <5>2, <6>1
          <6>2. CASE r # u.record
            <7>1. then[r] = after[r] /\ now[r] = link[r]
              BY <1>8, <5>1, <5>2, <6>2
            <7>2. QED
              BY <5>3, <7>1
          <6>3. QED
            BY <6>1, <6>2
        <5>5. QED
          BY <5>4, SameLinks
      <4>3. QED
        BY <4>1, <4>2
    <3>11. Current(u, x)'
      <4>1. x.links = LinksTo(then, e)
        BY <3>3, <3>4, <3>8, <3>10 DEF Current
      <4>2. x.old = [f \in Fields |-> OpenRows(golden'[e][f])]
        BY <1>7, <3>3, <3>4, <3>7 DEF Current
      <4>3. QED
        BY <3>4, <3>9, <4>1, <4>2 DEF Current
    <3>12. QED
      BY <3>3, <3>11
  <2>2. QED
    BY <2>1 DEF ReadsHold
<1>22. RowsHold'
  <2>1. ASSUME NEW e \in Entities, NEW f \in Fields
        PROVE  Walkable(built[e][f]) /\ Bounded(built[e][f], clock)
    <3>1. CASE e \in mine
      <4>1. WindowsInOrder(built[e][f])
        BY <1>7 DEF Fits
      <4>2. QED
        BY <1>10, <3>1, <4>1 DEF WellBuilt
    <3>2. CASE e \notin mine
      BY <1>1, <1>10, <3>2 DEF RowsHold
    <3>3. QED
      BY <3>1, <3>2
  <2>2. QED
    BY <1>7, <2>1 DEF RowsHold
<1>23. Cited'
  <2>1. ASSUME NEW e \in Entities, NEW f \in Fields, home[e] = e, NEW k \in OpenRows(golden[e][f])
        PROVE  Cites(after, e, f, golden[e][f][k].choice)
    <3>1. PICK c : c = golden[e][f][k].choice
      OBVIOUS
    <3>2. Cites(link, e, f, c)
      BY <1>1, <2>1, <3>1 DEF Cited
    <3>3. c.record \in Records
      <4>1. golden[e][f] \in Seq(Row)
        BY <1>8
      <4>2. golden[e][f][k] \in Row
        BY <4>1, LenProperties DEF OpenRows
      <4>3. QED
        BY <3>1, <4>2 DEF Row, Verdict
    <3>4. link[c.record] # <<>>
      BY <3>2 DEF Cites
    <3>5. c.record # t.record
      BY <1>11, <3>3, <3>4, RecordAssumption
    <3>6. after[c.record] = link[c.record]
      BY <1>12, <3>3, <3>5
    <3>7. Cites(after, e, f, c)
      BY <3>2, <3>6 DEF Cites
    <3>8. QED
      BY <3>1, <3>7
  <2>2. ASSUME NEW e \in Entities, NEW f \in Fields, home[e] = e, NEW k \in OpenRows(built[e][f])
        PROVE  Cites(after, e, f, built[e][f][k].choice)
    <3>1. CASE e \in mine
      <4>1. \/ built[e][f][k].choice \in Choose(f, Observations(LinksTo(after, e), f))
            \/ k \in OpenRows(golden[e][f]) /\ built[e][f][k].choice = golden[e][f][k].choice
        BY <1>10, <3>1 DEF WellBuilt
      <4>2. QED
        BY <2>1, <2>2, <4>1, ChoiceIsCited
    <3>2. CASE e \notin mine
      BY <1>10, <2>1, <2>2, <3>2
    <3>3. QED
      BY <3>1, <3>2
  <2>3. QED
    BY <1>7, <2>2 DEF Cited
<1>24. Fresh'
  <2>1. ASSUME NEW e \in Entities \ stale', NEW f \in Fields
        PROVE  Published(built[e][f]) = Said(e, f)'
    <3>1. CASE e \in mine
      <4>1. Published(built[e][f]) = Say(LinksTo(after, e), f)
        BY <1>10, <3>1 DEF WellBuilt, Say
      <4>2. PICK those : those = LinksTo(after, e)
        OBVIOUS
      <4>3. those = LinksTo(link', e) /\ \A x \in those : observedAt'[x[1]] = observedAt[x[1]]
        BY <1>7, <4>2
      <4>4. Said(e, f)' = Say(those, f)
        BY <4>3, SaidNext
      <4>5. QED
        BY <4>1, <4>2, <4>4
    <3>2. CASE e \notin mine
      <4>1. e \in Entities \ stale /\ e \notin t.shared
        BY <1>7, <3>2
      <4>2. LinksTo(link', e) = LinksTo(link, e)
        BY <1>7, <1>13, <4>1
      <4>3. Said(e, f)' = Said(e, f)
        BY <1>7, <4>2, SaidStays
      <4>4. QED
        BY <1>1, <1>10, <3>2, <4>1, <4>3 DEF Fresh
    <3>3. QED
      BY <3>1, <3>2
  <2>2. QED
    BY <1>7, <2>1 DEF Fresh
<1>25. QED
  BY <1>17, <1>18, <1>19, <1>20, <1>21, <1>22, <1>23, <1>24 DEF IInv

---------------------------------------------------------------------------
(* The invariant holds.                                                    *)

LEMMA InvHoldsInitially == Init => IInv
<1> SUFFICES ASSUME Init PROVE IInv
  OBVIOUS
<1>1. /\ link = [r \in Records |-> IF r \in Founders THEN Targets[r] ELSE <<>>]
      /\ observedAt = [r \in Records |-> 0] /\ home = [e \in Entities |-> e]
      /\ golden = [e \in Entities |-> [f \in Fields |-> <<>>]]
      /\ txn = [p \in Procs |-> Idle] /\ clock = 0 /\ stale = Entities
  BY DEF Init
<1>2. \A r \in Records : Targets[r] \in Seq(Entities)
  BY ClaimAssumption
<1>3. PICK i \in Transaction : i = Idle
  BY IdleIsQuiet
<1>4. /\ Shape(i) /\ i.began = 0 /\ i.record = None /\ i.read = {} /\ i.locked = {}
      /\ txn = [p \in Procs |-> i]
  BY <1>1, <1>3, IdleIsQuiet DEF Idle
<1>5. Types
  <2>1. LinkTypes
    <3>1. \A r \in Records : link[r] \in Seq(Entities) /\ Len(link[r]) \in {0, Len(Targets[r])}
      <4> TAKE r \in Records
      <4>1. link[r] = Targets[r] \/ link[r] = <<>>
        BY <1>1
      <4>2. <<>> \in Seq(Entities) /\ Len(<<>>) = 0
        OBVIOUS
      <4>3. QED
        BY <1>2, <4>1, <4>2
    <3>2. link = [r \in Records |-> link[r]]
      BY <1>1
    <3>3. QED
      BY <3>1, <3>2 DEF LinkTypes
  <2>2. ClockTypes
    BY <1>1 DEF ClockTypes
  <2>3. RowTypes
    BY <1>1 DEF RowTypes
  <2>4. TxnTypes
    BY <1>1, <1>4 DEF TxnTypes
  <2>5. QED
    BY <1>1, <2>1, <2>2, <2>3, <2>4 DEF Types
<1>6. HomesLead
  BY <1>1 DEF HomesLead
<1>7. Shapes /\ Exclusive /\ ReadsHold
  BY <1>4 DEF Shapes, Exclusive, ReadsHold
<1>8. RowsHold /\ Cited /\ Fresh
  BY <1>1 DEF RowsHold, Walkable, Bounded, Cited, OpenRows, Fresh
<1>9. QED
  BY <1>5, <1>6, <1>7, <1>8 DEF IInv

LEMMA InvIsInductive == IInv /\ [Next]_vars => IInv'
<1> SUFFICES ASSUME IInv, [Next]_vars PROVE IInv'
  OBVIOUS
<1>1. ASSUME NEW p \in Workers, Work(p) PROVE IInv'
  <2>1. p \in Procs
    BY DEF Procs
  <2>2. CASE Link(p)
    BY <2>1, <2>2, LinkKeepsInv
  <2>3. ASSUME NEW r \in Records, NEW build \in GoldenFlags, StartRecord(p, r, build) PROVE IInv'
    BY <2>1, <2>3, StartRecordKeepsInv
  <2>4. QED
    BY <1>1, <2>2, <2>3 DEF Work
<1>2. ASSUME NEW p \in Builders, NEW e \in Entities, StartBuild(p, e) PROVE IInv'
  <2>1. p \in Procs
    BY DEF Procs
  <2>2. QED
    BY <1>2, <2>1, StartBuildKeepsInv
<1>3. ASSUME NEW p \in Procs, Step(p) PROVE IInv'
  <2>1. CASE LockAndRead(p)
    BY <2>1, LockAndReadKeepsInv
  <2>2. CASE Commit(p)
    BY <2>2, CommitKeepsInv
  <2>3. CASE Refuse(p)
    BY <2>3, RefuseKeepsInv
  <2>4. CASE GoOn(p)
    BY <2>4, EndKeepsInv DEF GoOn
  <2>5. CASE Victim(p)
    BY <2>5, EndKeepsInv DEF Victim
  <2>6. QED
    BY <1>3, <2>1, <2>2, <2>3, <2>4, <2>5 DEF Step
<1>4. ASSUME NEW a \in Entities, NEW b \in Entities, Merge(a, b) PROVE IInv'
  BY <1>4, MergeKeepsInv
<1>5. CASE UNCHANGED vars
  <2>1. /\ UNCHANGED <<link, observedAt, home, golden, txn, clock, stale>>
    BY <1>5 DEF vars
  <2>2. Types'
    BY <2>1 DEF IInv, Types, LinkTypes, ClockTypes, RowTypes, TxnTypes
  <2>3. HomesLead' /\ Shapes' /\ Exclusive' /\ RowsHold' /\ Cited'
    <3>1. HomesLead' /\ Shapes' /\ Exclusive'
      BY <2>1 DEF IInv, HomesLead, Shapes, Shape, Exclusive
    <3>2. RowsHold'
      BY <2>1 DEF IInv, RowsHold
    <3>3. Cited'
      BY <2>1 DEF IInv, Cited
    <3>4. QED
      BY <3>1, <3>2, <3>3
  <2>4. ReadsHold'
    BY <2>1 DEF IInv, ReadsHold, Current, Seen
  <2>5. \A e, f : Said(e, f)' = Said(e, f)
    BY <2>1, SaidStays
  <2>6. Fresh'
    BY <2>1, <2>5 DEF IInv, Fresh
  <2>7. QED
    BY <2>2, <2>3, <2>4, <2>6 DEF IInv
<1>6. QED
  BY <1>1, <1>2, <1>3, <1>4, <1>5 DEF Next

LEMMA InvHolds == Spec => []IInv
BY InvHoldsInitially, InvIsInductive, PTL DEF Spec

---------------------------------------------------------------------------
(* What follows.                                                           *)

LEMMA InvImpliesTypeOK == IInv => TypeOK
<1> SUFFICES ASSUME IInv PROVE TypeOK
  OBVIOUS
<1>1. link \in [Records -> Seq(Entities)] /\ observedAt \in [Records -> 0..clock]
      /\ home \in [Entities -> Entities] /\ stale \subseteq Entities /\ clock \in Nat
  BY DEF IInv, Types, LinkTypes, ClockTypes, HomesLead
<1>2. ASSUME NEW e \in Entities, NEW f \in Fields, NEW i \in DOMAIN golden[e][f]
      PROVE  LET row == golden[e][f][i]
             IN /\ row.choice.value \in Nat \ {None} /\ row.choice.record \in Records
                /\ row.choice.confidence \in 5..99
                /\ row.from \in 1..clock /\ row.to \in 0..clock /\ row.by \in 0..Len(golden[e][f])
  <2>1. golden[e][f] \in Seq(Row) /\ Bounded(golden[e][f], clock)
    BY DEF IInv, Types, RowTypes, RowsHold
  <2>2. golden[e][f][i] \in Row /\ Len(golden[e][f]) \in Nat
    BY <2>1, LenProperties
  <2>3. PICK row \in Row : row = golden[e][f][i]
    BY <2>2
  <2>4. row.from <= clock /\ row.to <= clock /\ row.by <= Len(golden[e][f])
    BY <2>1, <2>3 DEF Bounded
  <2>5. /\ row.from \in Nat \ {0} /\ row.to \in Nat /\ row.by \in Nat /\ row.choice \in Verdict
    BY DEF Row
  <2>6. row.choice.value \in Nat \ {None} /\ row.choice.record \in Records
        /\ row.choice.confidence \in 5..99
    BY <2>5 DEF Verdict
  <2>7. row.from \in 1..clock /\ row.to \in 0..clock /\ row.by \in 0..Len(golden[e][f])
    BY <1>1, <2>2, <2>4, <2>5
  <2>8. QED
    BY <2>3, <2>6, <2>7
<1>3. ASSUME NEW p \in Procs
      PROVE  /\ txn[p].locked \subseteq Entities /\ txn[p].shared \subseteq Entities
             /\ txn[p].began \in 0..clock
             /\ \A x, y \in txn[p].read : x.entity = y.entity => x = y
  <2>1. PICK t : t = txn[p]
    OBVIOUS
  <2>2. t \in Transaction /\ t.began <= clock /\ \A x \in t.read : Current(t, x)
    BY <2>1, TxnIsSound
  <2>3. \A x, y \in t.read : x.entity = y.entity => x = y
    <3> SUFFICES ASSUME NEW x \in t.read, NEW y \in t.read, x.entity = y.entity PROVE x = y
      OBVIOUS
    <3>1. x \in Reading /\ y \in Reading
      BY <2>2 DEF Transaction
    <3>2. x.links = y.links /\ x.old = y.old
      BY <2>2 DEF Current
    <3>3. QED
      BY <3>1, <3>2 DEF Reading
  <2>4. t.locked \subseteq Entities /\ t.shared \subseteq Entities /\ t.began \in Nat
    BY <2>2 DEF Transaction
  <2>5. t.began \in 0..clock
    BY <1>1, <2>2, <2>4
  <2>6. QED
    BY <2>1, <2>3, <2>4, <2>5
<1>4. QED
  BY <1>1, <1>2, <1>3 DEF TypeOK

\* Rows, transactions and links keep their shapes: a confidence is between 5 and 99,
\* no row is dated after the latest transaction, and a build reads an entity once.
THEOREM TypeCorrect == Spec => []TypeOK
BY InvHolds, InvImpliesTypeOK, PTL

\* No two builds replace one value, whatever interleaves, deadlocks or fails: the
\* unique index on current values never has to refuse (lock_entity).
THEOREM LockMakesIndexIdle == Spec => []IndexNeverRefuses
<1>1. IInv => IndexNeverRefuses
  BY DEF IInv, Shapes, Shape, IndexNeverRefuses
<1>2. QED
  BY <1>1, InvHolds, PTL

\* The history of every field can be walked: only the last row can be current, no row
\* ends before it begins, and a row that was replaced ends when its successor, which
\* says something else, begins.  A retired row names no successor.
THEOREM HistoryIsWalked == Spec => []HistoryCanBeWalked
<1>1. IInv => HistoryCanBeWalked
  BY DEF IInv, RowsHold, Walkable, HistoryCanBeWalked
<1>2. QED
  BY <1>1, InvHolds, PTL

---------------------------------------------------------------------------
(* Explanations.                                                           *)

\* The cells with a value that lineage shows are the observations a build chooses from.
LEMMA ContributionsAreObservations ==
  ASSUME LinkTypes, NEW h, NEW f \in Fields
  PROVE  LET obs == Observations(LinksTo(link, h), f)
             said == WithValue(Contributions(h, f))
         IN /\ \A o \in said : \E u \in obs : u.value = o.value /\ u.source = o.source
            /\ \A u \in obs : \E o \in said : u.value = o.value /\ u.source = o.source
<1> DEFINE obs == Observations(LinksTo(link, h), f)
           said == WithValue(Contributions(h, f))
<1>1. ASSUME NEW r \in Records, NEW i \in DOMAIN link[r]
      PROVE  i \in 1..2 /\ (Claims[r][i][f] > None <=>
                               Claims[r][i][f] # None /\ Claims[r][i][f] # Blank)
  <2>1. link[r] \in Seq(Entities) /\ Len(link[r]) \in {0, Len(Targets[r])}
    BY DEF LinkTypes
  <2>2. DOMAIN link[r] = 1..Len(link[r])
    BY <2>1, LenProperties
  <2>3. Len(Targets[r]) \in 1..2
    BY ClaimAssumption
  <2>4. Len(link[r]) \in 0..2
    BY <2>1, <2>3
  <2>5. i \in 1..Len(link[r])
    BY <2>2
  <2>6. i \in 1..Len(Targets[r])
    BY <2>1, <2>3, <2>5
  <2>7. Claims[r][i][f] \in Nat \cup {Blank}
    BY <2>6, ClaimsAreNumbers
  <2>8. Claims[r][i][f] > None <=> Claims[r][i][f] # None /\ Claims[r][i][f] # Blank
    BY <2>7 DEF None, Blank
  <2>9. QED
    BY <2>4, <2>5, <2>8
<1>2. ASSUME NEW o \in said PROVE \E u \in obs : u.value = o.value /\ u.source = o.source
  <2>0. o \in Contributions(h, f) /\ o.value # Blank
    BY DEF WithValue
  <2>1. PICK r \in Records : \E i \in {j \in DOMAIN link[r] : link[r][j] = h /\ Claims[r][j][f] # None} :
               o = [record |-> r, source |-> SourceOf[r], value |-> Claims[r][i][f]]
    BY <2>0 DEF Contributions
  <2>2. PICK i \in DOMAIN link[r] : /\ link[r][i] = h /\ Claims[r][i][f] # None
               /\ o = [record |-> r, source |-> SourceOf[r], value |-> Claims[r][i][f]]
    BY <2>1
  <2>3. PICK x : x = <<r, i>>
    OBVIOUS
  <2>4. x \in LinksTo(link, h) /\ x[1] = r /\ x[2] = i
    BY <1>1, <2>2, <2>3 DEF LinksTo
  <2>5. Claims[x[1]][x[2]][f] > None
    BY <1>1, <2>0, <2>2, <2>4
  <2>6. [value |-> Claims[x[1]][x[2]][f], source |-> SourceOf[x[1]], record |-> x[1],
         at |-> observedAt[x[1]]] \in obs
    BY <2>4, <2>5 DEF Observations
  <2>7. QED
    BY <2>2, <2>4, <2>6
<1>3. ASSUME NEW u \in obs PROVE \E o \in said : u.value = o.value /\ u.source = o.source
  <2>1. PICK x \in LinksTo(link, h) :
               /\ Claims[x[1]][x[2]][f] > None
               /\ u = [value |-> Claims[x[1]][x[2]][f], source |-> SourceOf[x[1]], record |-> x[1],
                       at |-> observedAt[x[1]]]
    BY DEF Observations
  <2>2. x[1] \in Records /\ x[2] \in DOMAIN link[x[1]] /\ link[x[1]][x[2]] = h
    BY DEF LinksTo
  <2>3. PICK r \in Records : r = x[1]
    BY <2>2
  <2>4. PICK i \in DOMAIN link[r] : i = x[2] /\ link[r][i] = h /\ Claims[r][i][f] > None
    BY <2>1, <2>2, <2>3
  <2>5. Claims[r][i][f] # None /\ Claims[r][i][f] # Blank
    BY <1>1, <2>4
  <2>6. PICK o : o = [record |-> r, source |-> SourceOf[r], value |-> Claims[r][i][f]]
    OBVIOUS
  <2>7. o \in Contributions(h, f)
    BY <2>4, <2>5, <2>6 DEF Contributions
  <2>8. o \in said /\ u.value = o.value /\ u.source = o.source
    BY <2>1, <2>3, <2>4, <2>5, <2>6, <2>7 DEF WithValue
  <2>9. QED
    BY <2>8
<1>4. QED
  BY <1>2, <1>3

\* A row that is current is cited from a cell that is shown.
LEMMA CitationIsShown ==
  ASSUME IInv, NEW e \in Entities, NEW f \in Fields, NEW c \in Explain(e, f).golden
  PROVE  Explain(e, f).winning \cap Explain(e, f).agree # {}
<1>1. PICK h \in Entities : h = home[e] /\ home[h] = h
  BY DEF IInv, HomesLead
<1>2. PICK i \in OpenRows(golden[h][f]) : c = golden[h][f][i].choice
  BY <1>1 DEF Explain
<1>3. Cites(link, h, f, c)
  BY <1>1, <1>2 DEF IInv, Cited
<1>4. c.record \in Records /\ c.value # None
  <2>1. golden[h][f] \in Seq(Row)
    BY DEF IInv, Types, RowTypes
  <2>2. golden[h][f][i] \in Row
    BY <2>1, LenProperties DEF OpenRows
  <2>3. QED
    BY <1>2, <2>2 DEF Row, Verdict
<1>5. PICK r \in Records : r = c.record
  BY <1>4
<1>6. PICK k \in DOMAIN link[r] : link[r][k] = h /\ Claims[r][k][f] = c.value
  BY <1>3, <1>5 DEF Cites
<1>7. PICK o : o = [record |-> r, source |-> SourceOf[r], value |-> Claims[r][k][f]]
  OBVIOUS
<1>8. o \in Contributions(h, f)
  BY <1>4, <1>6, <1>7 DEF Contributions
<1>9. o \in Explain(e, f).winning /\ o \in Explain(e, f).agree
  BY <1>1, <1>2, <1>5, <1>6, <1>7, <1>8 DEF Explain
<1>10. QED
  BY <1>9

\* Once built, a value is shown with the numbers that its cells add up to.
LEMMA EvidenceIsShown ==
  ASSUME IInv, NEW e \in Entities, NEW f \in Fields, home[e] \notin stale
  PROVE  LET answer == Explain(e, f)
         IN /\ answer.golden = {} <=> WithValue(answer.contributions) = {}
            /\ \A c \in answer.golden :
                 /\ c.supporting = Cardinality({o.source : o \in answer.agree})
                 /\ c.competing = Cardinality({o.value : o \in WithValue(answer.contributions)})
<1>1. PICK h \in Entities : h = home[e] /\ h \notin stale
  BY DEF IInv, HomesLead
<1>2. LinkTypes /\ ClockTypes /\ LinksTyped(link)
  BY DEF IInv, Types, LinkTypes, LinksTyped
<1>3. PICK rows : rows = golden[h][f]
  OBVIOUS
<1>4. rows \in Seq(Row) /\ Walkable(rows)
  BY <1>3 DEF IInv, Types, RowTypes, RowsHold
<1>5. PICK n : n = Len(rows)
  OBVIOUS
<1>6. OpenRows(rows) \subseteq {n}
  BY <1>4, <1>5, LastIsCurrent
<1>7. PICK obs : obs = Observations(LinksTo(link, h), f)
  OBVIOUS
<1>8. obs \in SUBSET Observation /\ IsFiniteSet(obs)
  BY <1>2, <1>7, LinksHaveClaims, ObservationsAreTyped
<1>9. Published(rows) = {<<c.value, Evidence(c)>> : c \in Choose(f, obs)}
  <2>1. Published(rows) = Said(h, f)
    BY <1>1, <1>3 DEF IInv, Fresh
  <2>2. QED
    BY <1>7, <2>1, SaidIsSay DEF Say
<1>10. PICK cells : cells = Contributions(h, f)
  OBVIOUS
<1>11. PICK said : said = WithValue(cells)
  OBVIOUS
<1>12. /\ \A o \in said : \E u \in obs : u.value = o.value /\ u.source = o.source
       /\ \A u \in obs : \E o \in said : u.value = o.value /\ u.source = o.source
  BY <1>2, <1>7, <1>10, <1>11, ContributionsAreObservations
<1>13. PICK value : value = {rows[i].choice : i \in OpenRows(rows)}
  OBVIOUS
<1>14. value = {} <=> said = {}
  <2>1. said = {} <=> obs = {}
    BY <1>12
  <2>2. obs = {} <=> Choose(f, obs) = {}
    BY <1>8, OneIsChosen
  <2>3. Choose(f, obs) = {} <=> Published(rows) = {}
    BY <1>9
  <2>4. Published(rows) = {} <=> OpenRows(rows) = {}
    BY DEF Published
  <2>5. OpenRows(rows) = {} <=> value = {}
    BY <1>13
  <2>6. QED
    BY <2>1, <2>2, <2>3, <2>4, <2>5
<1>15. {o \in cells : \E c \in value : o.value = c.value}
         = {o \in said : \E c \in value : o.value = c.value}
  <2>1. ASSUME NEW c \in value PROVE c.value # Blank
    <3>1. PICK i \in OpenRows(rows) : c = rows[i].choice
      BY <1>13
    <3>2. rows[i] \in Row
      BY <1>4, <3>1, LenProperties DEF OpenRows
    <3>3. QED
      BY <3>1, <3>2 DEF Row, Verdict, Blank
  <2>2. QED
    BY <1>11, <2>1 DEF WithValue
<1>16. /\ Explain(e, f).golden = value /\ Explain(e, f).contributions = cells
       /\ Explain(e, f).agree = {o \in said : \E c \in value : o.value = c.value}
  BY <1>1, <1>3, <1>10, <1>13, <1>15 DEF Explain
<1>17. ASSUME NEW c \in value
       PROVE  /\ c.supporting = Cardinality({o.source : o \in {o \in said : \E d \in value : o.value = d.value}})
              /\ c.competing = Cardinality({o.value : o \in said})
  <2>1. OpenRows(rows) = {n} /\ c = rows[n].choice /\ value = {c}
    BY <1>6, <1>13
  <2>2. obs # {}
    BY <1>12, <1>14, <1>17
  <2>3. PICK o \in obs : Choose(f, obs) = {Choice(obs, o)}
    BY <1>8, <2>2, OneIsChosen
  <2>4. <<c.value, Evidence(c)>> = <<Choice(obs, o).value, Evidence(Choice(obs, o))>>
    <3>1. Published(rows) = {<<c.value, Evidence(c)>>}
      BY <2>1 DEF Published
    <3>2. PICK w : w = Choice(obs, o)
      OBVIOUS
    <3>3. Published(rows) = {<<w.value, Evidence(w)>>}
      BY <1>9, <2>3, <3>2
    <3>4. QED
      BY <3>1, <3>2, <3>3
  <2>5. c.value = Choice(obs, o).value /\ c.supporting = Choice(obs, o).supporting
        /\ c.competing = Choice(obs, o).competing
    BY <2>4 DEF Evidence
  <2>6. c.value = o.value /\ c.supporting = Cardinality(Sources(Saying(obs, c.value)))
        /\ c.competing = Cardinality({u.value : u \in obs})
    BY <2>5 DEF Choice
  <2>7. {u.value : u \in obs} = {s.value : s \in said}
    BY <1>12
  <2>8. Sources(Saying(obs, c.value)) = {s.source : s \in {s \in said : \E d \in value : s.value = d.value}}
    BY <1>12, <2>1 DEF Sources, Saying
  <2>9. QED
    BY <2>6, <2>7, <2>8
<1>18. QED
  BY <1>11, <1>14, <1>16, <1>17

\* As long as no batch is normalized again, whatever id is asked for, the record cited
\* for a value is among the cells shown and says that value; and once the entity is
\* built, a value is shown exactly when a cell has one, with the numbers they add up to.
THEOREM ExplanationsHold == Spec => []ExplanationHolds
<1>1. IInv => ExplanationHolds
  BY CitationIsShown, EvidenceIsShown DEF ExplanationHolds
<1>2. QED
  BY <1>1, InvHolds, PTL

---------------------------------------------------------------------------
(* The builds implement TrustedValues.                                     *)

LEMMA StaleKeepsValues ==
  ASSUME IInv, [Next]_vars, NEW e \in Entities, e \in stale', NEW f \in Fields
  PROVE  golden'[e][f] = golden[e][f]
<1>1. ASSUME NEW p \in Procs, Commit(p) PROVE golden'[e][f] = golden[e][f]
  <2>1. e \notin BuiltBy(p) /\ golden' = Built(p) /\ Ready(p)
    BY <1>1 DEF Commit
  <2>2. QED
    BY <2>1, BuiltIsWell
<1>2. CASE UNCHANGED golden
  BY <1>2
<1>3. (\E p \in Procs : Commit(p)) \/ UNCHANGED golden
  BY DEF Next, Work, Step, Link, StartRecord, StartBuild, LockAndRead, Refuse, GoOn, Victim,
         Merge, vars
<1>4. QED
  BY <1>1, <1>2, <1>3

LEMMA StepIsLearning == IInv /\ IInv' /\ [Next]_vars => Abstract!Learn
<1> SUFFICES ASSUME IInv, IInv', [Next]_vars PROVE Abstract!Learn
  OBVIOUS
<1>1. ASSUME NEW e \in Entities, e \in stale'
      PROVE  [f \in Fields |-> Published(golden'[e][f])] = [f \in Fields |-> Published(golden[e][f])]
  BY <1>1, StaleKeepsValues
<1>2. ASSUME NEW e \in Entities, e \notin stale'
      PROVE  [f \in Fields |-> Published(golden'[e][f])] = [f \in Fields |-> Said(e, f)']
  BY <1>2 DEF IInv, Fresh
<1>3. QED
  BY <1>1, <1>2 DEF Abstract!Learn

\* Whatever interleaves, a build leaves an entity with exactly what its records say,
\* value and evidence, and nothing else moves what is published.
THEOREM BuildsAreTrusted == Spec => ImplementsTrustedValues
<1>1. Init => Abstract!Init
  BY DEF Init, Abstract!Init
<1>2. IInv /\ IInv' /\ [Next]_vars => [Abstract!Learn]_(Abstract!vars)
  BY StepIsLearning
<1>3. Spec => Abstract!Spec
  BY <1>1, <1>2, InvHolds, PTL DEF Spec, Abstract!Spec
<1>4. QED
  BY <1>3 DEF ImplementsTrustedValues

=============================================================================
