---------------------------- MODULE EntityProofs ----------------------------
(***************************************************************************)
(* Proofs about EntityResolution, for any records, keys, weights, runs and *)
(* stewards, and every bound.  The first part is about the operators, the  *)
(* second about every interleaving, and the last about one command at a    *)
(* time.                                                                   *)
(***************************************************************************)
EXTENDS EntityResolution, FiniteSetTheorems, WellFoundedInduction, TLAPS

-----------------------------------------------------------------------------
(* Scores, decisions, tombstones and survivors.                            *)

\* A function on 1..n is a sequence.
LEMMA FunctionIsSequence ==
  ASSUME NEW S, NEW n \in Nat, NEW f \in [1..n -> S]
  PROVE  f \in Seq(S) /\ Len(f) = n
OBVIOUS

\* Whatever moderate keys add up to stays below the threshold.
LEMMA ConfidenceNeedsStrongKey ==
  ASSUME NEW best \in Keys, NEW matched \in SUBSET Keys, NEW strong,
         Confidence(best, matched, strong) >= AutoLinkThreshold
  PROVE  best \in strong
<1> DEFINE types == {KeyType[k] : k \in matched}
           extra == Cardinality(types \ {KeyType[best]})
           raw == Weight[best] + CorroborationBoost * extra
<1>1. IsFiniteSet(matched)
  BY KeysAreFinite, FS_Subset
<1>2. IsFiniteSet(types)
  <2> DEFINE f == [k \in matched |-> KeyType[k]]
  <2>1. f \in Surjection(matched, types)
    BY DEF Surjection
  <2>2. QED
    BY <1>1, <2>1, FS_Surjection
<1>3. extra \in Nat
  BY <1>2, FS_Difference, FS_CardinalityType
<1>4. Weight[best] \in Nat
  BY WeightAssumption
<1>5. raw \in Nat
  BY <1>3, <1>4 DEF CorroborationBoost
<1>6. Confidence(best, matched, strong)
        = Lesser(MaxConfidence,
                 IF best \in strong THEN raw ELSE Lesser(raw, AutoLinkThreshold - 1))
  BY DEF Confidence
<1> HIDE DEF raw
<1>7. QED
  BY <1>5, <1>6 DEF Lesser, MaxConfidence, AutoLinkThreshold

\* A decision is about an entity of the overlap, or about none when there is none,
\* and a link has a strong key behind it.
LEMMA OutcomesAreSound ==
  ASSUME NEW D, NEW overlap \in [D -> SUBSET Keys], NEW strong \in [D -> SUBSET Keys],
         NEW o \in Outcomes(overlap, strong)
  PROVE  /\ o.kind \in {"link", "review", "new_entity"}
         /\ o.kind # "new_entity" => o.match \in D
         /\ o.match \in D \cup {NoEntity}
         /\ o.kind = "link" => strong[o.match] # {}
<1>1. CASE D = {}
  BY <1>1 DEF Outcomes
<1>2. CASE D # {}
  <2>1. PICK top \in Tops(overlap) : o \in Decide(overlap, strong, top)
    BY <1>2 DEF Outcomes
  <2> DEFINE score == [e \in D |-> Confidence(top[e], overlap[e], strong[e])]
  <2>2. \A e \in D : top[e] \in overlap[e] /\ top[e] \in Keys
    BY <2>1 DEF Tops, Heaviest
  <2>3. PICK m \in D :
          /\ o.match = m
          /\ o.kind \in {"link", "review", "new_entity"}
          /\ o.kind = "link" => score[m] >= AutoLinkThreshold
    BY <2>1 DEF Decide
  <2>4. o.kind = "link" => top[m] \in strong[m]
    BY <2>2, <2>3, ConfidenceNeedsStrongKey
  <2>5. QED
    BY <2>3, <2>4
<1>3. QED
  BY <1>1, <1>2

\* The walk stays where it began when that is active.
LEMMA ActiveResolves ==
  ASSUME NEW e, Active(e)
  PROVE  Resolve(e) = e
<1> DEFINE Step(f) == [n \in 0..HopLimit |->
             IF n = 0 THEN e
             ELSE LET previous == f[n - 1]
                  IN IF Active(previous) THEN previous ELSE entity[previous].into]
           at == CHOOSE f : f = Step(f)
           still == [n \in 0..HopLimit |-> e]
<1>1. still = Step(still)
  BY DEF HopLimit
<1>2. at = Step(at)
  BY <1>1
<1> HIDE DEF at
<1>3. /\ at[0] = e
      /\ \A n \in 1..HopLimit : at[n - 1] = e => at[n] = e
  BY <1>2 DEF HopLimit
<1>4. at[HopLimit - 1] = e
  BY <1>3 DEF HopLimit
<1>5. QED
  BY <1>4 DEF Resolve, at

\* A set of numbers has a least one.
LEMMA LeastNumber ==
  ASSUME NEW T \in SUBSET Nat, T # {}
  PROVE  \E x \in T : \A y \in T : x <= y
<1>1. PICK x \in T : \A y \in T : ~(<<y, x>> \in OpToRel(<, Nat))
  BY NatLessThanWellFounded, WFMin
<1>2. \A y \in T : ~(y < x)
  BY <1>1 DEF OpToRel
<1>3. QED
  BY <1>2

LEMMA ObservedIsNumber ==
  ASSUME NEW e
  PROVE  /\ Observed(e) \in Nat
         /\ Observed(e) <= Cardinality(Records)
         /\ Observed(e) = 0 <=> RecordsOf(e) = {}
<1>1. RecordsOf(e) \in SUBSET Records /\ IsFiniteSet(Records)
  BY RecordAssumption DEF RecordsOf
<1>2. IsFiniteSet(RecordsOf(e))
  BY <1>1, FS_Subset
<1>3. QED
  BY <1>1, <1>2, FS_Subset, FS_CardinalityType, FS_EmptySet DEF Observed

\* A group has a survivor, and nobody in it has more records.
LEMMA SurvivorIsMember ==
  ASSUME NEW g \in SUBSET Nat, g # {}
  PROVE  /\ Survivor(g) \in g
         /\ \A e \in g : Observed(e) <= Observed(Survivor(g))
<1> DEFINE most == Cardinality(Records)
           missing == {most - Observed(e) : e \in g}
<1>1. most \in Nat
  BY RecordAssumption, FS_CardinalityType
<1>2. \A e \in g : most - Observed(e) \in Nat
  BY <1>1, ObservedIsNumber
<1>3. PICK x \in missing : \A y \in missing : x <= y
  <2>1. missing \in SUBSET Nat /\ missing # {}
    BY <1>2
  <2>2. QED
    BY <2>1, LeastNumber
<1> DEFINE top == {e \in g : most - Observed(e) = x}
<1>4. PICK k \in top : \A e \in top : k <= e
  <2>1. top \in SUBSET Nat /\ top # {}
    BY <1>3
  <2>2. QED
    BY <2>1, LeastNumber
<1>5. \A e \in g : Observed(e) <= Observed(k)
  <2>1. TAKE e \in g
  <2>2. x <= most - Observed(e) /\ x = most - Observed(k)
    BY <1>3, <1>4
  <2>3. QED
    BY <2>2, <1>1, ObservedIsNumber
<1>6. \A e \in g \ {k} : \/ Observed(e) < Observed(k)
                         \/ Observed(e) = Observed(k) /\ k < e
  <2>1. TAKE e \in g \ {k}
  <2>2. CASE e \in top
    BY <2>2, <1>1, <1>4, ObservedIsNumber
  <2>3. CASE e \notin top
    BY <2>3, <1>1, <1>4, <1>5, ObservedIsNumber
  <2>4. QED
    BY <2>2, <2>3
<1>7. \E e \in g : \A other \in g \ {e} :
        \/ Observed(other) < Observed(e)
        \/ Observed(other) = Observed(e) /\ e < other
  BY <1>4, <1>6
<1>8. /\ Survivor(g) \in g
      /\ \A other \in g \ {Survivor(g)} :
           \/ Observed(other) < Observed(Survivor(g))
           \/ Observed(other) = Observed(Survivor(g)) /\ Survivor(g) < other
  BY <1>7 DEF Survivor
<1>9. QED
  BY <1>8, ObservedIsNumber

-----------------------------------------------------------------------------
(* Every interleaving.  What is inductive: types, rows that hold as strong *)
(* only what they hold, and what each process has read and not yet written.*)

RowsAreSound == \A e \in Ids : entity[e].strong \subseteq entity[e].keys

\* A decision that is not to found an entity is about one that exists, and one to
\* link has a strong key of its record as evidence.
PendingIsSound ==
  \A p \in Runs : \A d \in run[p].found :
    /\ d.kind # "new_entity" => d.match \in Ids
    /\ d.kind = "link" => d.evidence \cap StrongFor(d.record) # {}

RulingsAreSound ==
  \A s \in Stewards : \A d \in desk[s] :
    d.verdict = "accepted" => d.merged \in Ids /\ d.surviving \in Ids

GroupsAreSound == {} \notin sweep

Inv ==
  /\ TypeOK
  /\ RowsAreSound
  /\ PendingIsSound
  /\ RulingsAreSound
  /\ GroupsAreSound
  /\ AutoLinkNeedsStrongKey

LEMMA EntitiesAreRows ==
  ASSUME TypeOK
  PROVE  /\ Len(entity) \in Nat
         /\ Ids \subseteq Nat
         /\ NoEntity \notin Ids
         /\ \A e \in Ids : entity[e] \in EntityRow
BY DEF TypeOK, Ids, NoEntity

LEMMA LinksAreRows ==
  ASSUME TypeOK
  PROVE  /\ link \in [Records -> LinkRow]
         /\ \A r \in Records : link[r].entity \in Ids \cup {NoEntity}
BY DEF TypeOK

LEMMA StrongForIsKeys ==
  ASSUME TypeOK, NEW r \in Records
  PROVE  /\ keysOf[r] \in SUBSET Keys
         /\ StrongFor(r) \subseteq keysOf[r]
BY DEF TypeOK, StrongFor

LEMMA DecisionsAreSound ==
  ASSUME TypeOK, RowsAreSound, NEW r \in Records, NEW d \in Decisions(r)
  PROVE  /\ d \in Decision
         /\ d.record = r
         /\ d.kind # "new_entity" => d.match \in Ids
         /\ d.kind = "link" => Active(d.match) /\ d.evidence \cap StrongFor(r) # {}
<1> DEFINE D == Candidates(r)
           overlap == [e \in D |-> Overlap(r, e)]
           strong == [e \in D |-> StrongOverlap(r, e)]
<1>1. PICK o \in Outcomes(overlap, strong) :
        d = [record |-> r, kind |-> o.kind, match |-> o.match,
             evidence |-> IF o.match = NoEntity THEN {} ELSE Overlap(r, o.match)]
  BY DEF Decisions
<1>2. /\ overlap \in [D -> SUBSET Keys]
      /\ strong \in [D -> SUBSET Keys]
  BY EntitiesAreRows, StrongForIsKeys DEF Overlap, StrongOverlap, Candidates, EntityRow
<1> HIDE DEF overlap, strong
<1>3. /\ o.kind \in {"link", "review", "new_entity"}
      /\ o.kind # "new_entity" => o.match \in D
      /\ o.match \in D \cup {NoEntity}
      /\ o.kind = "link" => strong[o.match] # {}
  BY <1>2, OutcomesAreSound
<1>4. /\ D \subseteq Ids
      /\ \A e \in D : Active(e)
  BY DEF Candidates
<1>5. Overlap(r, o.match) \in SUBSET Keys
  BY StrongForIsKeys DEF Overlap
<1>6. d \in Decision
  BY <1>1, <1>3, <1>4, <1>5, EntitiesAreRows DEF Decision, NoEntity
<1>7. ASSUME o.kind = "link"
      PROVE  Overlap(r, o.match) \cap StrongFor(r) # {}
  <2>1. o.match \in D /\ StrongOverlap(r, o.match) # {}
    BY <1>3, <1>7 DEF strong
  <2>2. StrongOverlap(r, o.match) \subseteq Overlap(r, o.match) \cap StrongFor(r)
    BY <2>1, <1>4, StrongForIsKeys DEF StrongOverlap, Overlap, RowsAreSound
  <2>3. QED
    BY <2>1, <2>2
<1>8. QED
  BY <1>1, <1>3, <1>4, <1>6, <1>7, EntitiesAreRows

\* A merge of entities that exist into another leaves rows of the same kind.
LEMMA MergeIsSound ==
  ASSUME TypeOK, RowsAreSound, NEW absorbed \in SUBSET Ids, NEW surviving \in Ids,
         surviving \notin absorbed, MergeEntities(absorbed, surviving)
  PROVE  /\ entity' \in Seq(EntityRow) /\ Ids' = Ids
         /\ link' \in [Records -> LinkRow]
         /\ merges' \in SUBSET [merged : Ids, surviving : Ids]
         /\ \A r \in Records : link'[r].entity \in Ids \cup {NoEntity}
         /\ \A r \in Records : Linked(r) => Linked(r)'
         /\ \A e \in Ids : entity'[e].status = "merged" => entity'[e].into \in Ids
         /\ RowsAreSound'
         /\ \A r \in Records : /\ link'[r].status = link[r].status
                               /\ link'[r].evidence = link[r].evidence
<1> DEFINE brought == UNION {entity[e].keys : e \in absorbed}
           Bringing(k) == {e \in absorbed : k \in entity[e].keys}
           strong == {k \in brought : \E e \in Bringing(k) :
                         k \in entity[e].strong /\ \A f \in Bringing(k) : e <= f}
<1>1. entity' = [e \in Ids |->
         IF e = surviving THEN WithKeys(entity[e], brought, strong)
         ELSE IF e \in absorbed
         THEN [entity[e] EXCEPT !.status = "merged", !.into = surviving]
         ELSE entity[e]]
  BY DEF MergeEntities
<1>2. link' = [r \in Records |->
         IF link[r].entity \in absorbed THEN [link[r] EXCEPT !.entity = surviving]
         ELSE link[r]]
  BY DEF MergeEntities
<1>3. brought \in SUBSET Keys /\ strong \subseteq brought
  BY EntitiesAreRows DEF EntityRow
<1> HIDE DEF brought, strong
<1>4. entity' \in [Ids -> EntityRow]
  BY <1>1, <1>3, EntitiesAreRows DEF EntityRow, WithKeys
<1>5. entity' \in Seq(EntityRow) /\ Ids' = Ids
  BY <1>4, EntitiesAreRows, FunctionIsSequence DEF Ids
<1>6. \A r \in Records : /\ link'[r] \in LinkRow
                         /\ link'[r].entity \in Ids \cup {NoEntity}
                         /\ Linked(r) => Linked(r)'
                         /\ link'[r].status = link[r].status
                         /\ link'[r].evidence = link[r].evidence
  <2>1. TAKE r \in Records
  <2>2. link[r] \in LinkRow /\ link[r].entity \in Ids \cup {NoEntity}
    BY LinksAreRows
  <2>3. CASE link[r].entity \in absorbed
    <3>1. link'[r] = [link[r] EXCEPT !.entity = surviving]
      BY <1>2, <2>3
    <3>2. surviving \in Nat /\ surviving # NoEntity
      BY EntitiesAreRows
    <3>3. QED
      BY <2>2, <3>1, <3>2 DEF LinkRow, Linked
  <2>4. CASE link[r].entity \notin absorbed
    <3>1. link'[r] = link[r]
      BY <1>2, <2>4
    <3>2. QED
      BY <2>2, <3>1 DEF Linked
  <2>5. QED
    BY <2>3, <2>4
<1>7. link' \in [Records -> LinkRow]
  BY <1>2, <1>6
<1>8. merges' \in SUBSET [merged : Ids, surviving : Ids]
  BY DEF TypeOK, MergeEntities
<1>9. \A e \in Ids : entity'[e].status = "merged" => entity'[e].into \in Ids
  <2>1. \A e \in Ids : entity[e].status = "merged" => entity[e].into \in Ids
    BY DEF TypeOK
  <2>2. QED
    BY <1>1, <2>1, EntitiesAreRows DEF EntityRow, WithKeys
<1>10. RowsAreSound'
  BY <1>1, <1>3, <1>5, EntitiesAreRows DEF RowsAreSound, EntityRow, WithKeys
<1>11. QED
  BY <1>5, <1>6, <1>7, <1>8, <1>9, <1>10

\* The two halves of TypeOK: what is stored, and what the processes hold.
StoredTypes ==
  /\ keysOf \in [Records -> SUBSET Keys]
  /\ premises \in SUBSET Batches
  /\ entity \in Seq(EntityRow)
  /\ link \in [Records -> LinkRow]
  /\ cand \in SUBSET Candidate
  /\ merges \in SUBSET [merged : Ids, surviving : Ids]
  /\ \A r \in Records : link[r].entity \in Ids \cup {NoEntity}
  /\ \A c \in cand : c.entity \in Ids /\ Linked(c.record)
  /\ \A e \in Ids : entity[e].status = "merged" => entity[e].into \in Ids

LocalTypes ==
  /\ ready \in SUBSET Records
  /\ run \in [Runs -> [pc : {"idle", "deciding", "writing"}, todo : SUBSET Records,
                       found : SUBSET Decision]]
  /\ desk \in [Stewards -> SUBSET Ruling]
  /\ sweep \subseteq SUBSET Ids
  /\ budget \in Budget

LEMMA TypesInHalves == TypeOK <=> StoredTypes /\ LocalTypes
BY DEF TypeOK, StoredTypes, LocalTypes

LEMMA TypesInHalvesNext == TypeOK' <=> StoredTypes' /\ LocalTypes'
BY DEF TypeOK, StoredTypes, LocalTypes

LEMMA StrongForStays ==
  ASSUME UNCHANGED <<keysOf, premises>>, NEW r \in Records
  PROVE  StrongFor(r)' = StrongFor(r)
BY DEF StrongFor

\* A step that writes no table.
LEMMA StoredKept ==
  ASSUME Inv, UNCHANGED <<keysOf, premises, rows>>
  PROVE  StoredTypes' /\ RowsAreSound' /\ AutoLinkNeedsStrongKey' /\ Ids' = Ids
<1>1. /\ UNCHANGED <<keysOf, premises, entity, link, cand, merges>>
      /\ Ids' = Ids
      /\ StoredTypes /\ RowsAreSound /\ AutoLinkNeedsStrongKey
  BY TypesInHalves DEF Inv, rows, Ids
<1>2. StoredTypes'
  BY <1>1 DEF StoredTypes, Linked
<1>3. RowsAreSound'
  BY <1>1 DEF RowsAreSound
<1>4. AutoLinkNeedsStrongKey'
  BY <1>1, StrongForStays DEF AutoLinkNeedsStrongKey
<1>5. QED
  BY <1>1, <1>2, <1>3, <1>4

\* A step by which no process learns anything, and no entity goes away.
LEMMA LocalKept ==
  ASSUME Inv, Ids \subseteq Ids', UNCHANGED <<keysOf, premises>>,
         \A p \in Runs : run'[p].found \subseteq run[p].found,
         \A s \in Stewards : desk'[s] \subseteq desk[s],
         sweep' \subseteq sweep
  PROVE  /\ PendingIsSound' /\ RulingsAreSound' /\ GroupsAreSound'
         /\ sweep' \subseteq SUBSET Ids'
<1>1. \A p \in Runs : \A d \in run[p].found : d.record \in Records
  BY DEF Inv, TypeOK, Decision
<1>2. PendingIsSound'
  <2>1. SUFFICES ASSUME NEW p \in Runs, NEW d \in run'[p].found
                 PROVE  /\ d.kind # "new_entity" => d.match \in Ids'
                        /\ d.kind = "link" => d.evidence \cap StrongFor(d.record)' # {}
    BY DEF PendingIsSound
  <2>2. d \in run[p].found /\ PendingIsSound
    BY DEF Inv
  <2>3. StrongFor(d.record)' = StrongFor(d.record)
    BY <1>1, <2>2, StrongForStays
  <2>4. QED
    BY <2>2, <2>3 DEF PendingIsSound
<1>3. RulingsAreSound'
  BY DEF Inv, RulingsAreSound
<1>4. GroupsAreSound' /\ sweep' \subseteq SUBSET Ids'
  BY DEF Inv, GroupsAreSound, TypeOK
<1>5. QED
  BY <1>2, <1>3, <1>4

LEMMA InvHoldsInitially == Init => Inv
<1>1. SUFFICES ASSUME Init PROVE Inv
  OBVIOUS
<1>2. /\ keysOf \in [Records -> SUBSET Keys] /\ premises \in SUBSET Batches
      /\ ready \in SUBSET Records
      /\ entity = <<>> /\ link = [r \in Records |-> Unlinked] /\ cand = {} /\ merges = {}
      /\ run = [p \in Runs |-> Idle] /\ desk = [s \in Stewards |-> {}] /\ sweep = {}
      /\ budget = [run |-> MaxRuns, decide |-> MaxDecisions, sweep |-> MaxSweeps]
  BY <1>1 DEF Init
<1>3. Ids = {}
  BY <1>2 DEF Ids
<1>4. StoredTypes
  BY <1>2, <1>3 DEF StoredTypes, Unlinked, LinkRow, NoEntity
<1>5. LocalTypes
  BY <1>2, BoundAssumption DEF LocalTypes, Idle, Budget
<1>6. /\ RowsAreSound /\ PendingIsSound /\ RulingsAreSound /\ GroupsAreSound
      /\ AutoLinkNeedsStrongKey
  BY <1>2, <1>3 DEF RowsAreSound, PendingIsSound, RulingsAreSound, GroupsAreSound,
     AutoLinkNeedsStrongKey, Unlinked, Idle
<1>7. QED
  BY <1>4, <1>5, <1>6, TypesInHalves DEF Inv

LEMMA ReleaseKeepsInv ==
  ASSUME Inv, NEW r \in Records, Release(r)
  PROVE  Inv'
<1>1. /\ UNCHANGED <<keysOf, premises, rows, run, desk, sweep, budget>>
      /\ ready' = ready \cup {r}
  BY DEF Release
<1>2. StoredTypes' /\ RowsAreSound' /\ AutoLinkNeedsStrongKey' /\ Ids' = Ids
  BY <1>1, StoredKept
<1>3. PendingIsSound' /\ RulingsAreSound' /\ GroupsAreSound' /\ sweep' \subseteq SUBSET Ids'
  BY <1>1, <1>2, LocalKept
<1>4. LocalTypes'
  BY <1>1, <1>3 DEF Inv, TypeOK, LocalTypes
<1>5. QED
  BY <1>2, <1>3, <1>4, TypesInHalvesNext DEF Inv

LEMMA StartRunKeepsInv ==
  ASSUME Inv, NEW p \in Runs, NEW b \in Batches, StartRun(p, b)
  PROVE  Inv'
<1>1. /\ UNCHANGED <<keysOf, premises, ready, rows, desk, sweep>>
      /\ run' = [run EXCEPT ![p] = [pc |-> "deciding", todo |-> Unresolved(b), found |-> {}]]
      /\ budget' = [budget EXCEPT !.run = @ - 1] /\ budget.run > 0
  BY DEF StartRun
<1>2. StoredTypes' /\ RowsAreSound' /\ AutoLinkNeedsStrongKey' /\ Ids' = Ids
  BY <1>1, StoredKept
<1>3. /\ run \in [Runs -> [pc : {"idle", "deciding", "writing"}, todo : SUBSET Records,
                           found : SUBSET Decision]]
      /\ ready \in SUBSET Records /\ budget \in Budget
      /\ desk \in [Stewards -> SUBSET Ruling]
  BY DEF Inv, TypeOK
<1>4. Unresolved(b) \in SUBSET Records
  BY <1>3 DEF Unresolved
<1>5. \A q \in Runs : run'[q].found \subseteq run[q].found
  BY <1>1, <1>3
<1>6. PendingIsSound' /\ RulingsAreSound' /\ GroupsAreSound' /\ sweep' \subseteq SUBSET Ids'
  BY <1>1, <1>2, <1>5, LocalKept
<1>7. LocalTypes'
  BY <1>1, <1>3, <1>4, <1>6 DEF LocalTypes, Budget
<1>8. QED
  BY <1>2, <1>6, <1>7, TypesInHalvesNext DEF Inv

LEMMA LookupKeepsInv ==
  ASSUME Inv, NEW p \in Runs, Lookup(p)
  PROVE  Inv'
<1>1. UNCHANGED <<keysOf, premises, ready, rows, desk, sweep, budget>>
  BY DEF Lookup
<1>2. PICK r \in run[p].todo : \E d \in Decisions(r) :
        run' = [run EXCEPT ![p] = [@ EXCEPT !.pc = "writing", !.found = {d}]]
  BY DEF Lookup
<1>3. PICK d \in Decisions(r) :
        run' = [run EXCEPT ![p] = [@ EXCEPT !.pc = "writing", !.found = {d}]]
  BY <1>2
<1>4. /\ run \in [Runs -> [pc : {"idle", "deciding", "writing"}, todo : SUBSET Records,
                           found : SUBSET Decision]]
      /\ ready \in SUBSET Records /\ budget \in Budget
      /\ desk \in [Stewards -> SUBSET Ruling] /\ sweep \subseteq SUBSET Ids
      /\ TypeOK /\ RowsAreSound /\ PendingIsSound /\ RulingsAreSound /\ GroupsAreSound
  BY DEF Inv, TypeOK
<1>5. r \in Records
  BY <1>2, <1>4
<1>6. /\ d \in Decision /\ d.record = r
      /\ d.kind # "new_entity" => d.match \in Ids
      /\ d.kind = "link" => d.evidence \cap StrongFor(r) # {}
  BY <1>4, <1>5, DecisionsAreSound
<1>7. StoredTypes' /\ RowsAreSound' /\ AutoLinkNeedsStrongKey' /\ Ids' = Ids
  BY <1>1, StoredKept
<1>8. LocalTypes'
  BY <1>1, <1>3, <1>4, <1>6, <1>7 DEF LocalTypes
<1>9. PendingIsSound'
  <2>1. SUFFICES ASSUME NEW q \in Runs, NEW x \in run'[q].found
                 PROVE  /\ x.kind # "new_entity" => x.match \in Ids
                        /\ x.kind = "link" => x.evidence \cap StrongFor(x.record)' # {}
    BY <1>7 DEF PendingIsSound
  <2>2. CASE q = p
    <3>1. x = d
      BY <1>3, <1>4, <2>1, <2>2
    <3>2. StrongFor(r)' = StrongFor(r)
      BY <1>1, <1>5, StrongForStays
    <3>3. QED
      BY <1>6, <3>1, <3>2
  <2>3. CASE q # p
    <3>1. x \in run[q].found
      BY <1>3, <1>4, <2>1, <2>3
    <3>2. StrongFor(x.record)' = StrongFor(x.record)
      BY <1>1, <1>4, <3>1, StrongForStays DEF Decision
    <3>3. QED
      BY <1>4, <3>1, <3>2 DEF PendingIsSound
  <2>4. QED
    BY <2>2, <2>3
<1>10. RulingsAreSound' /\ GroupsAreSound'
  BY <1>1, <1>4, <1>7 DEF RulingsAreSound, GroupsAreSound
<1>11. QED
  BY <1>7, <1>8, <1>9, <1>10, TypesInHalvesNext DEF Inv

LEMMA JoinIsSound ==
  ASSUME Inv, NEW d \in Decision, d.match \in Ids, d.evidence \cap StrongFor(d.record) # {},
         JoinEntity(d), UNCHANGED <<keysOf, premises, merges>>
  PROVE  StoredTypes' /\ RowsAreSound' /\ AutoLinkNeedsStrongKey' /\ Ids' = Ids
<1>1. /\ link' = IF Linked(d.record) THEN link
                 ELSE [link EXCEPT ![d.record] = [entity |-> d.match, status |-> "auto_linked",
                                                  evidence |-> d.evidence]]
      /\ entity' = [entity EXCEPT ![d.match] =
                      WithKeys(@, keysOf[d.record], StrongFor(d.record))]
      /\ cand' = cand
  BY DEF JoinEntity, LinkUnlessLinked
<1>2. /\ d.record \in Records /\ d.evidence \in SUBSET Keys
      /\ keysOf[d.record] \in SUBSET Keys /\ StrongFor(d.record) \subseteq keysOf[d.record]
      /\ TypeOK /\ StoredTypes /\ RowsAreSound /\ AutoLinkNeedsStrongKey
  BY StrongForIsKeys, TypesInHalves DEF Inv, Decision
<1>3. /\ WithKeys(entity[d.match], keysOf[d.record], StrongFor(d.record)) \in EntityRow
      /\ WithKeys(entity[d.match], keysOf[d.record], StrongFor(d.record)).strong
           \subseteq WithKeys(entity[d.match], keysOf[d.record], StrongFor(d.record)).keys
      /\ WithKeys(entity[d.match], keysOf[d.record], StrongFor(d.record)).status
           = entity[d.match].status
      /\ WithKeys(entity[d.match], keysOf[d.record], StrongFor(d.record)).into
           = entity[d.match].into
  <2>1. entity[d.match] \in EntityRow /\ entity[d.match].strong \subseteq entity[d.match].keys
    BY <1>2, EntitiesAreRows DEF RowsAreSound
  <2>2. QED
    BY <1>2, <2>1 DEF WithKeys, EntityRow
<1>4. /\ entity' \in Seq(EntityRow) /\ Ids' = Ids
      /\ \A e \in Ids : e # d.match => entity'[e] = entity[e]
      /\ entity'[d.match] = WithKeys(entity[d.match], keysOf[d.record], StrongFor(d.record))
  BY <1>1, <1>2, <1>3 DEF StoredTypes, Ids
<1>5. /\ \A r \in Records : r # d.record => link'[r] = link[r]
      /\ \/ link'[d.record] = link[d.record] /\ Linked(d.record)
         \/ link'[d.record] = [entity |-> d.match, status |-> "auto_linked",
                               evidence |-> d.evidence]
      /\ link' \in [Records -> LinkRow]
  BY <1>1, <1>2, EntitiesAreRows, LinksAreRows DEF LinkRow
<1>6. \A r \in Records : /\ link'[r].entity \in Ids \cup {NoEntity}
                         /\ Linked(r) => Linked(r)'
  BY <1>2, <1>5, EntitiesAreRows, LinksAreRows DEF Linked
<1>7. \A e \in Ids : entity'[e].status = "merged" => entity'[e].into \in Ids
  BY <1>2, <1>3, <1>4 DEF StoredTypes
<1>8. \A c \in cand : c.entity \in Ids /\ Linked(c.record)' /\ c \in Candidate
  BY <1>2, <1>6 DEF StoredTypes, Candidate
<1>9. StoredTypes'
  BY <1>1, <1>2, <1>4, <1>5, <1>6, <1>7, <1>8 DEF StoredTypes
<1>10. RowsAreSound'
  BY <1>2, <1>3, <1>4 DEF RowsAreSound
<1>11. AutoLinkNeedsStrongKey'
  <2>1. SUFFICES ASSUME NEW r \in Records, link'[r].status = "auto_linked"
                 PROVE  link'[r].evidence \cap StrongFor(r)' # {}
    BY DEF AutoLinkNeedsStrongKey
  <2>2. StrongFor(r)' = StrongFor(r)
    BY StrongForStays
  <2>3. QED
    BY <1>2, <1>5, <2>1, <2>2 DEF AutoLinkNeedsStrongKey
<1>12. QED
  BY <1>4, <1>9, <1>10, <1>11

LEMMA FoundingIsSound ==
  ASSUME Inv, NEW d \in Decision, d.kind # "new_entity" => d.match \in Ids,
         FoundEntity(d), UNCHANGED <<keysOf, premises, merges>>
  PROVE  StoredTypes' /\ RowsAreSound' /\ AutoLinkNeedsStrongKey' /\ Ids \subseteq Ids'
<1> DEFINE new == Len(entity) + 1
           row == [status |-> "active", into |-> NoEntity, keys |-> keysOf[d.record],
                   strong |-> StrongFor(d.record)]
           asked == [record |-> d.record, entity |-> d.match, status |-> "open"]
<1>1. /\ d.kind # "link"
      /\ link' = IF Linked(d.record) THEN link
                 ELSE [link EXCEPT ![d.record] = [entity |-> new, status |-> "new_entity",
                                                  evidence |-> {}]]
      /\ entity' = Append(entity, row)
      /\ \/ cand' = cand
         \/ d.kind = "review" /\ cand' = cand \cup {asked}
  <2>1. d.kind # "link" /\ entity' = Append(entity, row)
    BY DEF FoundEntity
  <2>2. link' = IF Linked(d.record) THEN link
                ELSE [link EXCEPT ![d.record] = [entity |-> new, status |-> "new_entity",
                                                 evidence |-> {}]]
    BY DEF FoundEntity, LinkUnlessLinked
  <2>3. cand' = IF \/ d.kind # "review"
                   \/ \E c \in cand : c.record = d.record /\ c.entity = d.match
                THEN cand ELSE cand \cup {asked}
    BY DEF FoundEntity
  <2>4. QED
    BY <2>1, <2>2, <2>3
<1>2. /\ d.record \in Records
      /\ keysOf[d.record] \in SUBSET Keys /\ StrongFor(d.record) \subseteq keysOf[d.record]
      /\ TypeOK /\ StoredTypes /\ RowsAreSound /\ AutoLinkNeedsStrongKey
      /\ d.match \in Nat
  BY StrongForIsKeys, TypesInHalves DEF Inv, Decision
<1>3. row \in EntityRow /\ row.strong \subseteq row.keys
  BY <1>2 DEF EntityRow, NoEntity
<1>4. /\ entity' \in Seq(EntityRow) /\ Ids' = Ids \cup {new} /\ new \notin Ids
      /\ new \in Nat /\ new # NoEntity
      /\ \A e \in Ids : entity'[e] = entity[e]
      /\ entity'[new] = row
  <2> HIDE DEF row
  <2>1. entity \in Seq(EntityRow) /\ Len(entity) \in Nat
    BY <1>2 DEF StoredTypes
  <2>2. QED
    BY <1>1, <1>3, <2>1 DEF Ids, NoEntity
<1>5. /\ \A r \in Records : r # d.record => link'[r] = link[r]
      /\ \/ link'[d.record] = link[d.record] /\ Linked(d.record)
         \/ link'[d.record] = [entity |-> new, status |-> "new_entity", evidence |-> {}]
      /\ link' \in [Records -> LinkRow]
  <2> HIDE DEF new
  <2>1. QED
    BY <1>1, <1>2, <1>4, LinksAreRows DEF LinkRow
<1> HIDE DEF new, row
<1>6. \A r \in Records : /\ link'[r].entity \in Ids' \cup {NoEntity}
                         /\ Linked(r) => Linked(r)'
  BY <1>2, <1>4, <1>5, LinksAreRows DEF Linked
<1>7. Linked(d.record)'
  BY <1>4, <1>5, <1>2 DEF Linked
<1>8. \A e \in Ids' : entity'[e].status = "merged" => entity'[e].into \in Ids'
  BY <1>2, <1>4 DEF StoredTypes, row
<1>9. \A c \in cand' : c \in Candidate /\ c.entity \in Ids' /\ Linked(c.record)'
  <2>1. \A c \in cand : c \in Candidate /\ c.entity \in Ids' /\ Linked(c.record)'
    BY <1>2, <1>4, <1>6 DEF StoredTypes, Candidate
  <2>2. d.kind = "review" =>
          asked \in Candidate /\ asked.entity \in Ids' /\ Linked(asked.record)'
    BY <1>2, <1>4, <1>7 DEF Candidate
  <2>3. QED
    BY <1>1, <2>1, <2>2
<1>10. merges' \in SUBSET [merged : Ids', surviving : Ids']
  BY <1>2, <1>4 DEF StoredTypes
<1>11. StoredTypes'
  BY <1>2, <1>4, <1>5, <1>6, <1>8, <1>9, <1>10 DEF StoredTypes
<1>12. RowsAreSound'
  BY <1>2, <1>3, <1>4 DEF RowsAreSound
<1>13. AutoLinkNeedsStrongKey'
  <2>1. SUFFICES ASSUME NEW r \in Records, link'[r].status = "auto_linked"
                 PROVE  link'[r].evidence \cap StrongFor(r)' # {}
    BY DEF AutoLinkNeedsStrongKey
  <2>2. StrongFor(r)' = StrongFor(r)
    BY StrongForStays
  <2>3. QED
    BY <1>2, <1>5, <2>1, <2>2 DEF AutoLinkNeedsStrongKey
<1>14. QED
  BY <1>4, <1>11, <1>12, <1>13

LEMMA WriteKeepsInv ==
  ASSUME Inv, NEW p \in Runs, Write(p)
  PROVE  Inv'
<1>1. PICK d \in run[p].found :
        /\ JoinEntity(d) \/ FoundEntity(d)
        /\ run' = [run EXCEPT ![p] =
                     IF run[p].todo = {d.record} THEN Idle
                     ELSE [pc |-> "deciding", todo |-> @.todo \ {d.record}, found |-> {}]]
  BY DEF Write
<1>2. UNCHANGED <<keysOf, premises, ready, merges, desk, sweep, budget>>
  BY DEF Write
<1>3. /\ run \in [Runs -> [pc : {"idle", "deciding", "writing"}, todo : SUBSET Records,
                           found : SUBSET Decision]]
      /\ ready \in SUBSET Records /\ budget \in Budget
      /\ desk \in [Stewards -> SUBSET Ruling] /\ PendingIsSound
  BY DEF Inv, TypeOK
<1>4. /\ d \in Decision
      /\ d.kind # "new_entity" => d.match \in Ids
      /\ d.kind = "link" => d.evidence \cap StrongFor(d.record) # {}
  BY <1>3 DEF PendingIsSound
<1>5. StoredTypes' /\ RowsAreSound' /\ AutoLinkNeedsStrongKey' /\ Ids \subseteq Ids'
  <2>1. CASE JoinEntity(d)
    <3>1. d.kind = "link"
      BY <2>1 DEF JoinEntity
    <3>2. QED
      BY <1>2, <1>4, <2>1, <3>1, JoinIsSound
  <2>2. CASE FoundEntity(d)
    BY <1>2, <1>4, <2>2, FoundingIsSound
  <2>3. QED
    BY <1>1, <2>1, <2>2
<1>6. \A q \in Runs : run'[q].found \subseteq run[q].found
  BY <1>1, <1>3 DEF Idle
<1>7. PendingIsSound' /\ RulingsAreSound' /\ GroupsAreSound' /\ sweep' \subseteq SUBSET Ids'
  BY <1>2, <1>5, <1>6, LocalKept
<1>8. run' \in [Runs -> [pc : {"idle", "deciding", "writing"}, todo : SUBSET Records,
                         found : SUBSET Decision]]
  BY <1>1, <1>3 DEF Idle
<1>9. LocalTypes'
  BY <1>2, <1>3, <1>7, <1>8 DEF LocalTypes
<1>10. QED
  BY <1>5, <1>7, <1>9, TypesInHalvesNext DEF Inv

LEMMA CrashKeepsInv ==
  ASSUME Inv, NEW p \in Runs, Crash(p)
  PROVE  Inv'
<1>1. /\ UNCHANGED <<keysOf, premises, ready, rows, desk, sweep, budget>>
      /\ run' = [run EXCEPT ![p] = Idle]
  BY DEF Crash
<1>2. StoredTypes' /\ RowsAreSound' /\ AutoLinkNeedsStrongKey' /\ Ids' = Ids
  BY <1>1, StoredKept
<1>3. /\ run \in [Runs -> [pc : {"idle", "deciding", "writing"}, todo : SUBSET Records,
                           found : SUBSET Decision]]
      /\ ready \in SUBSET Records /\ budget \in Budget
      /\ desk \in [Stewards -> SUBSET Ruling]
  BY DEF Inv, TypeOK
<1>4. \A q \in Runs : run'[q].found \subseteq run[q].found
  BY <1>1, <1>3 DEF Idle
<1>5. PendingIsSound' /\ RulingsAreSound' /\ GroupsAreSound' /\ sweep' \subseteq SUBSET Ids'
  BY <1>1, <1>2, <1>4, LocalKept
<1>6. LocalTypes'
  BY <1>1, <1>3, <1>5 DEF LocalTypes, Idle
<1>7. QED
  BY <1>2, <1>5, <1>6, TypesInHalvesNext DEF Inv

LEMMA ResolveIsId == ASSUME TypeOK, NEW e PROVE Resolve(e) \in Ids \cup {NoEntity}
BY DEF Resolve, Active

LEMMA ReadCandidateKeepsInv ==
  ASSUME Inv, NEW s \in Stewards, NEW c \in cand, NEW verdict \in {"accepted", "rejected"},
         ReadCandidate(s, c, verdict)
  PROVE  Inv'
<1> DEFINE ResolvedIf(e) == IF verdict = "accepted" THEN Resolve(e) ELSE NoEntity
           merged == ResolvedIf(link[c.record].entity)
           surviving == ResolvedIf(c.entity)
           ruling == [record |-> c.record, entity |-> c.entity, verdict |-> verdict,
                      merged |-> merged, surviving |-> surviving]
<1>1. /\ UNCHANGED <<keysOf, premises, ready, rows, run, sweep>>
      /\ desk' = [desk EXCEPT ![s] = {ruling}]
      /\ budget' = [budget EXCEPT !.decide = @ - 1] /\ budget.decide > 0
      /\ verdict = "accepted" => merged # NoEntity /\ surviving # NoEntity
  BY DEF ReadCandidate
<1>2. merged \in Ids \cup {NoEntity} /\ surviving \in Ids \cup {NoEntity}
  BY ResolveIsId DEF Inv
<1>3. StoredTypes' /\ RowsAreSound' /\ AutoLinkNeedsStrongKey' /\ Ids' = Ids
  BY <1>1, StoredKept
<1>4. /\ desk \in [Stewards -> SUBSET Ruling] /\ budget \in Budget
      /\ TypeOK /\ RulingsAreSound /\ PendingIsSound /\ GroupsAreSound /\ cand \in SUBSET Candidate
  BY DEF Inv, TypeOK
<1> HIDE DEF merged, surviving
<1>5. ruling \in Ruling
  BY <1>2, <1>4, EntitiesAreRows DEF Ruling, Candidate, NoEntity
<1>6. LocalTypes'
  BY <1>1, <1>3, <1>4, <1>5 DEF LocalTypes, TypeOK, Budget
<1>7. RulingsAreSound'
  <2>1. SUFFICES ASSUME NEW t \in Stewards, NEW x \in desk'[t], x.verdict = "accepted"
                 PROVE  x.merged \in Ids /\ x.surviving \in Ids
    BY <1>3 DEF RulingsAreSound
  <2>2. CASE t = s
    <3>1. x = ruling
      BY <1>1, <1>4, <2>1, <2>2
    <3>2. QED
      BY <1>1, <1>2, <2>1, <3>1
  <2>3. CASE t # s
    BY <1>1, <1>4, <2>1, <2>3 DEF RulingsAreSound
  <2>4. QED
    BY <2>2, <2>3
<1>8. \A r \in Records : StrongFor(r)' = StrongFor(r)
  BY <1>1, StrongForStays
<1>9. PendingIsSound'
  BY <1>1, <1>3, <1>4, <1>8 DEF PendingIsSound, TypeOK, Decision
<1>10. GroupsAreSound'
  BY <1>1, <1>4 DEF GroupsAreSound
<1>11. QED
  BY <1>3, <1>6, <1>7, <1>9, <1>10, TypesInHalvesNext DEF Inv

LEMMA RuleKeepsInv ==
  ASSUME Inv, NEW s \in Stewards, Rule(s)
  PROVE  Inv'
<1>1. PICK d \in desk[s] :
        /\ CloseCandidate(d)
        /\ IF d.verdict = "accepted" /\ d.merged # d.surviving
           THEN MergeEntities({d.merged}, d.surviving)
           ELSE UNCHANGED <<entity, link, merges>>
  BY DEF Rule
<1>2. /\ UNCHANGED <<keysOf, premises, ready, run, sweep, budget>>
      /\ desk' = [desk EXCEPT ![s] = {}]
  BY DEF Rule
<1>3. /\ TypeOK /\ RowsAreSound /\ AutoLinkNeedsStrongKey /\ RulingsAreSound
      /\ StoredTypes /\ LocalTypes
      /\ desk \in [Stewards -> SUBSET Ruling]
      /\ d.verdict \in {"accepted", "rejected"}
  BY <1>1, TypesInHalves DEF Inv, TypeOK, Ruling
<1>4. /\ entity' \in Seq(EntityRow) /\ Ids' = Ids
      /\ link' \in [Records -> LinkRow]
      /\ merges' \in SUBSET [merged : Ids, surviving : Ids]
      /\ \A r \in Records : link'[r].entity \in Ids \cup {NoEntity}
      /\ \A r \in Records : Linked(r) => Linked(r)'
      /\ \A e \in Ids : entity'[e].status = "merged" => entity'[e].into \in Ids
      /\ RowsAreSound'
      /\ \A r \in Records : /\ link'[r].status = link[r].status
                            /\ link'[r].evidence = link[r].evidence
  <2>1. CASE d.verdict = "accepted" /\ d.merged # d.surviving
    <3>1. {d.merged} \in SUBSET Ids /\ d.surviving \in Ids /\ d.surviving \notin {d.merged}
      BY <1>3, <2>1 DEF RulingsAreSound
    <3>2. MergeEntities({d.merged}, d.surviving)
      BY <1>1, <2>1
    <3>3. QED
      BY <1>3, <3>1, <3>2, MergeIsSound
  <2>2. CASE ~(d.verdict = "accepted" /\ d.merged # d.surviving)
    <3>1. UNCHANGED <<entity, link, merges>>
      BY <1>1, <2>2
    <3>2. QED
      BY <1>3, <3>1 DEF StoredTypes, Ids, Linked, RowsAreSound
  <2>3. QED
    BY <2>1, <2>2
<1>5. \A c \in cand' : c \in Candidate /\ c.entity \in Ids /\ Linked(c.record)'
  <2>1. SUFFICES ASSUME NEW c \in cand
                 PROVE  /\ c \in Candidate /\ [c EXCEPT !.status = d.verdict] \in Candidate
                        /\ c.entity \in Ids /\ Linked(c.record)'
                        /\ [c EXCEPT !.status = d.verdict].entity = c.entity
                        /\ [c EXCEPT !.status = d.verdict].record = c.record
    BY <1>1 DEF CloseCandidate
  <2>2. c \in Candidate /\ c.entity \in Ids /\ Linked(c.record)
    BY <1>3 DEF StoredTypes
  <2>3. QED
    BY <1>3, <1>4, <2>2 DEF Candidate
<1>6. StoredTypes'
  BY <1>2, <1>3, <1>4, <1>5 DEF StoredTypes
<1>7. \A r \in Records : StrongFor(r)' = StrongFor(r)
  BY <1>2, StrongForStays
<1>8. AutoLinkNeedsStrongKey'
  BY <1>3, <1>4, <1>7 DEF AutoLinkNeedsStrongKey
<1>9. \A t \in Stewards : desk'[t] \subseteq desk[t]
  BY <1>2, <1>3
<1>10. PendingIsSound' /\ RulingsAreSound' /\ GroupsAreSound' /\ sweep' \subseteq SUBSET Ids'
  BY <1>2, <1>4, <1>9, LocalKept
<1>11. LocalTypes'
  BY <1>2, <1>3, <1>10 DEF LocalTypes
<1>12. QED
  BY <1>4, <1>6, <1>8, <1>10, <1>11, TypesInHalvesNext DEF Inv

LEMMA StartSweepKeepsInv ==
  ASSUME Inv, StartSweep
  PROVE  Inv'
<1>1. PICK named \in [Ids -> NameKeys \cup {NoName}] : sweep' = Groups(named)
  BY DEF StartSweep
<1>2. /\ UNCHANGED <<keysOf, premises, ready, rows, run, desk>>
      /\ budget' = [budget EXCEPT !.sweep = @ - 1] /\ budget.sweep > 0
  BY DEF StartSweep
<1>3. /\ LocalTypes /\ TypeOK /\ PendingIsSound /\ RulingsAreSound
  BY TypesInHalves DEF Inv
<1>4. StoredTypes' /\ RowsAreSound' /\ AutoLinkNeedsStrongKey' /\ Ids' = Ids
  BY <1>2, StoredKept
<1>5. \A g \in Groups(named) : g \in SUBSET Ids /\ g # {}
  <2>1. \A g \in Groups(named) : g \in SUBSET Ids /\ Cardinality(g) > 1
    BY DEF Groups
  <2>2. QED
    BY <2>1, FS_EmptySet
<1>6. GroupsAreSound' /\ sweep' \subseteq SUBSET Ids'
  BY <1>1, <1>4, <1>5 DEF GroupsAreSound
<1>7. LocalTypes'
  BY <1>2, <1>3, <1>6 DEF LocalTypes, Budget
<1>8. \A r \in Records : StrongFor(r)' = StrongFor(r)
  BY <1>2, StrongForStays
<1>9. PendingIsSound'
  BY <1>2, <1>3, <1>4, <1>8 DEF PendingIsSound, TypeOK, Decision
<1>10. RulingsAreSound'
  BY <1>2, <1>3, <1>4 DEF RulingsAreSound
<1>11. QED
  BY <1>4, <1>6, <1>7, <1>9, <1>10, TypesInHalvesNext DEF Inv

LEMMA StopSweepKeepsInv ==
  ASSUME Inv, StopSweep
  PROVE  Inv'
<1>1. UNCHANGED <<keysOf, premises, ready, rows, run, desk, budget>> /\ sweep' = {}
  BY DEF StopSweep
<1>2. StoredTypes' /\ RowsAreSound' /\ AutoLinkNeedsStrongKey' /\ Ids' = Ids
  BY <1>1, StoredKept
<1>3. PendingIsSound' /\ RulingsAreSound' /\ GroupsAreSound' /\ sweep' \subseteq SUBSET Ids'
  BY <1>1, <1>2, LocalKept
<1>4. LocalTypes'
  BY <1>1, <1>3, TypesInHalves DEF Inv, LocalTypes
<1>5. QED
  BY <1>2, <1>3, <1>4, TypesInHalvesNext DEF Inv

\* What the tool merges exists, and the survivor is not among it.
LEMMA SweepMerges ==
  ASSUME Inv, NEW g \in sweep, SweepGroup(g)
  PROVE  \E absorbed \in SUBSET Ids :
           /\ absorbed \subseteq g
           /\ Survivor(g) \in Ids \ absorbed
           /\ \A e \in g : Observed(e) <= Observed(Survivor(g))
           /\ MergeEntities(absorbed, Survivor(g))
<1>1. g \in SUBSET Ids /\ g # {} /\ Ids \subseteq Nat
  BY EntitiesAreRows DEF Inv, GroupsAreSound, TypeOK
<1>2. Survivor(g) \in g /\ \A e \in g : Observed(e) <= Observed(Survivor(g))
  BY <1>1, SurvivorIsMember
<1>3. PICK refused \in (g \ {Survivor(g)}) \cup {NoEntity} :
        MergeEntities({e \in g \ {Survivor(g)} : e > refused}, Survivor(g))
  BY DEF SweepGroup
<1>4. QED
  BY <1>1, <1>2, <1>3

LEMMA SweepGroupKeepsInv ==
  ASSUME Inv, NEW g \in sweep, SweepGroup(g)
  PROVE  Inv'
<1>1. PICK absorbed \in SUBSET Ids :
        /\ Survivor(g) \in Ids \ absorbed
        /\ MergeEntities(absorbed, Survivor(g))
  BY SweepMerges
<1>2. /\ UNCHANGED <<keysOf, premises, ready, cand, run, desk, budget>>
      /\ sweep' = sweep \ {g}
  BY DEF SweepGroup
<1>3. /\ TypeOK /\ RowsAreSound /\ AutoLinkNeedsStrongKey /\ StoredTypes /\ LocalTypes
  BY TypesInHalves DEF Inv
<1>4. /\ entity' \in Seq(EntityRow) /\ Ids' = Ids
      /\ link' \in [Records -> LinkRow]
      /\ merges' \in SUBSET [merged : Ids, surviving : Ids]
      /\ \A r \in Records : link'[r].entity \in Ids \cup {NoEntity}
      /\ \A r \in Records : Linked(r) => Linked(r)'
      /\ \A e \in Ids : entity'[e].status = "merged" => entity'[e].into \in Ids
      /\ RowsAreSound'
      /\ \A r \in Records : /\ link'[r].status = link[r].status
                            /\ link'[r].evidence = link[r].evidence
  BY <1>1, <1>3, MergeIsSound
<1>5. \A c \in cand : c.entity \in Ids /\ Linked(c.record)' /\ c \in Candidate
  BY <1>3, <1>4 DEF StoredTypes, Candidate
<1>6. StoredTypes'
  BY <1>2, <1>3, <1>4, <1>5 DEF StoredTypes
<1>7. \A r \in Records : StrongFor(r)' = StrongFor(r)
  BY <1>2, StrongForStays
<1>8. AutoLinkNeedsStrongKey'
  BY <1>3, <1>4, <1>7 DEF AutoLinkNeedsStrongKey
<1>9. PendingIsSound' /\ RulingsAreSound' /\ GroupsAreSound' /\ sweep' \subseteq SUBSET Ids'
  BY <1>2, <1>4, LocalKept
<1>10. LocalTypes'
  BY <1>2, <1>3, <1>9 DEF LocalTypes
<1>11. QED
  BY <1>4, <1>6, <1>8, <1>9, <1>10, TypesInHalvesNext DEF Inv

LEMMA StutterKeepsInv ==
  ASSUME Inv, UNCHANGED vars
  PROVE  Inv'
<1>1. UNCHANGED <<keysOf, premises, ready, entity, link, cand, merges, run, desk, sweep, budget>>
  BY DEF vars, rows
<1>2. StoredTypes' /\ RowsAreSound' /\ AutoLinkNeedsStrongKey' /\ Ids' = Ids
  BY <1>1, StoredKept DEF rows
<1>3. PendingIsSound' /\ RulingsAreSound' /\ GroupsAreSound' /\ sweep' \subseteq SUBSET Ids'
  BY <1>1, <1>2, LocalKept
<1>4. LocalTypes'
  BY <1>1, <1>3, TypesInHalves DEF Inv, LocalTypes
<1>5. QED
  BY <1>2, <1>3, <1>4, TypesInHalvesNext DEF Inv

LEMMA InvIsInductive == Inv /\ [Next]_vars => Inv'
<1>1. SUFFICES ASSUME Inv, [Next]_vars PROVE Inv'
  OBVIOUS
<1>2. CASE \E r \in Records : Release(r)
  BY <1>1, <1>2, ReleaseKeepsInv
<1>3. CASE \E p \in Runs, b \in Batches : StartRun(p, b)
  BY <1>1, <1>3, StartRunKeepsInv
<1>4. CASE \E p \in Runs : Lookup(p) \/ Write(p) \/ Crash(p)
  BY <1>1, <1>4, LookupKeepsInv, WriteKeepsInv, CrashKeepsInv
<1>5. CASE \E s \in Stewards, c \in cand, verdict \in {"accepted", "rejected"} :
             ReadCandidate(s, c, verdict)
  BY <1>1, <1>5, ReadCandidateKeepsInv
<1>6. CASE \E s \in Stewards : Rule(s)
  BY <1>1, <1>6, RuleKeepsInv
<1>7. CASE StartSweep
  BY <1>1, <1>7, StartSweepKeepsInv
<1>8. CASE StopSweep
  BY <1>1, <1>8, StopSweepKeepsInv
<1>9. CASE \E g \in sweep : SweepGroup(g)
  BY <1>1, <1>9, SweepGroupKeepsInv
<1>10. CASE UNCHANGED vars
  BY <1>1, <1>10, StutterKeepsInv
<1>11. QED
  BY <1>1, <1>2, <1>3, <1>4, <1>5, <1>6, <1>7, <1>8, <1>9, <1>10 DEF Next, Resolution, Reblock

LEMMA InvHolds == Spec => []Inv
<1>1. Init => Inv
  BY InvHoldsInitially
<1>2. Inv /\ [Next]_vars => Inv'
  BY InvIsInductive
<1>3. QED
  BY <1>1, <1>2, PTL DEF Spec

\* Every variable keeps its type and every row refers to rows that exist, in every
\* interleaving of runs, stewards and the reblock tool.
THEOREM TypeCorrect == Spec => []TypeOK
<1>1. Inv => TypeOK
  BY DEF Inv
<1>2. QED
  BY <1>1, InvHolds, PTL

\* A record that was linked without a person was linked by a key that is strong for
\* its source, whatever was merged between its lookup and its write and afterwards.
THEOREM LinksAreEarned == Spec => []AutoLinkNeedsStrongKey
<1>1. Inv => AutoLinkNeedsStrongKey
  BY DEF Inv
<1>2. QED
  BY <1>1, InvHolds, PTL

-----------------------------------------------------------------------------
(* Identity: clusters are founded, joined and merged, and never split.     *)

LEMMA EntitiesGrow ==
  ASSUME Inv, Inv'
  PROVE  NoEntity \notin Ids /\ NoEntity \notin Ids'
BY DEF Ids, NoEntity

\* Clusters of different entities have no record in common.
LEMMA ClustersAreApart ==
  ASSUME NEW e, NEW f, RecordsOf(e) \cap RecordsOf(f) # {}
  PROVE  e = f
BY DEF RecordsOf

LEMMA SameLinksSameClusters ==
  ASSUME Inv, Inv', Ids \subseteq Ids', UNCHANGED link
  PROVE  UNCHANGED Clusters
<1>1. \A e : RecordsOf(e)' = RecordsOf(e)
  BY DEF RecordsOf
<1>2. \A r \in Records : link[r].entity \in Ids \cup {NoEntity}
  BY LinksAreRows DEF Inv
<1>3. \A e \in Ids' : RecordsOf(e) # {} => e \in Ids
  BY <1>2, EntitiesGrow DEF RecordsOf
<1>4. QED
  BY <1>1, <1>3 DEF Clusters

\* A record that had no link founds a cluster or joins one.
LEMMA LinkingIsIdentifying ==
  ASSUME Inv, Inv', Ids \subseteq Ids', NEW r \in Records, NEW e \in Ids', ~Linked(r),
         \A x \in Records \ {r} : link'[x].entity = link[x].entity,
         link'[r].entity = e
  PROVE  Identity!Found(r) \/ Identity!Join(r)
<1>1. /\ RecordsOf(e)' = RecordsOf(e) \cup {r}
      /\ \A f : f # e => RecordsOf(f)' = RecordsOf(f) \ {r}
      /\ \A f \in Ids : r \notin RecordsOf(f)
  BY EntitiesGrow DEF RecordsOf, Linked
<1>2. \A f \in Ids' : RecordsOf(f) # {} /\ r \notin RecordsOf(f) => f \in Ids
  BY LinksAreRows, EntitiesGrow DEF Inv, RecordsOf
<1>3. \A f \in Ids' : f # e /\ f \notin Ids => RecordsOf(f)' = {}
  BY <1>1, LinksAreRows, EntitiesGrow DEF Inv, RecordsOf
<1>4. r \notin UNION Clusters
  BY <1>1 DEF Clusters
<1>5. Clusters' = ({RecordsOf(f) : f \in Ids \ {e}} \ {{}}) \cup {RecordsOf(e) \cup {r}}
  <2>1. \A f \in Ids \ {e} : RecordsOf(f)' = RecordsOf(f)
    <3>1. TAKE f \in Ids \ {e}
    <3>2. link[r].entity # f /\ link'[r].entity # f
      BY EntitiesGrow DEF Linked
    <3>3. QED
      BY <3>2 DEF RecordsOf
  <2>2. Clusters' = {RecordsOf(f)' : f \in Ids'} \ {{}}
    BY DEF Clusters
  <2> DEFINE rest == {RecordsOf(f) : f \in Ids \ {e}} \ {{}}
  <2>3. \A f \in Ids' : RecordsOf(f)' # {} => RecordsOf(f)' \in rest \cup {RecordsOf(e) \cup {r}}
    <3>1. TAKE f \in Ids'
    <3>2. HAVE RecordsOf(f)' # {}
    <3>3. f = e \/ f \in Ids \ {e}
      BY <1>3, <3>2
    <3>4. QED
      BY <1>1, <2>1, <3>2, <3>3
  <2>4. RecordsOf(e) \cup {r} \in Clusters'
    BY <1>1, <2>2
  <2>5. \A f \in Ids \ {e} : RecordsOf(f) # {} => RecordsOf(f) \in Clusters'
    BY <2>1, <2>2
  <2>6. rest \subseteq Clusters'
    BY <2>5
  <2>7. Clusters' \subseteq rest \cup {RecordsOf(e) \cup {r}}
    BY <2>2, <2>3
  <2>8. QED
    <3> HIDE DEF rest
    <3>1. Clusters' = rest \cup {RecordsOf(e) \cup {r}}
      BY <2>4, <2>6, <2>7
    <3>2. QED
      BY <3>1 DEF rest
<1>6. CASE RecordsOf(e) = {}
  <2>1. Clusters' = Clusters \cup {{r}}
    BY <1>5, <1>6 DEF Clusters
  <2>2. QED
    BY <1>4, <2>1 DEF Identity!Found
<1>7. CASE RecordsOf(e) # {}
  <2>1. e \in Ids
    BY <1>7, LinksAreRows, EntitiesGrow DEF Inv, RecordsOf
  <2>2. RecordsOf(e) \in Clusters
    BY <1>7, <2>1 DEF Clusters
  <2>3. \A f \in Ids \ {e} : RecordsOf(f) # RecordsOf(e)
    BY <1>7, ClustersAreApart
  <2>4. Clusters' = (Clusters \ {RecordsOf(e)}) \cup {RecordsOf(e) \cup {r}}
    BY <1>5, <2>1, <2>3 DEF Clusters
  <2>5. QED
    BY <1>4, <2>2, <2>4 DEF Identity!Join
<1>8. QED
  BY <1>6, <1>7

\* A merge puts the clusters of what it absorbs and of the survivor together.
LEMMA MergingIsJoining ==
  ASSUME Inv, Inv', NEW absorbed \in SUBSET Ids, NEW surviving \in Ids \ absorbed,
         MergeEntities(absorbed, surviving), Ids' = Ids
  PROVE  Identity!Merge \/ UNCHANGED Clusters
<1> DEFINE merged == absorbed \cup {surviving}
           same == {RecordsOf(e) : e \in merged} \ {{}}
           together == UNION {RecordsOf(e) : e \in merged}
<1>1. /\ \A r \in Records : link[r].entity \in absorbed => link'[r].entity = surviving
      /\ \A r \in Records : link[r].entity \notin absorbed => link'[r].entity = link[r].entity
  BY LinksAreRows DEF MergeEntities, Inv, LinkRow
<1>2. /\ RecordsOf(surviving)' = together
      /\ \A e \in absorbed : RecordsOf(e)' = {}
      /\ \A e \in Ids \ merged : RecordsOf(e)' = RecordsOf(e)
  BY <1>1 DEF RecordsOf
<1>3. Clusters' = ({RecordsOf(e) : e \in Ids \ merged} \cup {together}) \ {{}}
  BY <1>2 DEF Clusters
<1>4. together = UNION same /\ same \in SUBSET Clusters
  BY DEF Clusters
<1>5. {RecordsOf(e) : e \in Ids \ merged} \ {{}} = Clusters \ same
  <2>1. \A e \in Ids \ merged : RecordsOf(e) # {} => RecordsOf(e) \notin same
    BY ClustersAreApart
  <2>2. QED
    BY <2>1 DEF Clusters
<1>6. CASE same = {}
  BY <1>3, <1>4, <1>5, <1>6
<1>7. CASE same # {}
  <2>1. UNION same # {}
    BY <1>7
  <2> HIDE DEF same
  <2>2. Clusters' = (Clusters \ same) \cup {UNION same}
    BY <1>3, <1>4, <1>5, <2>1
  <2>3. QED
    BY <1>4, <1>7, <2>2 DEF Identity!Merge
<1>8. QED
  BY <1>6, <1>7

LEMMA StepsGrowClusters == Inv /\ Inv' /\ [Next]_vars => [Identity!Next]_Clusters
<1>1. SUFFICES ASSUME Inv, Inv', [Next]_vars
               PROVE  Identity!Next \/ UNCHANGED Clusters
  OBVIOUS
<1>2. ASSUME UNCHANGED rows
      PROVE  UNCHANGED Clusters
  <2>1. UNCHANGED link /\ Ids' = Ids
    BY <1>2 DEF rows, Ids
  <2>2. QED
    BY <1>1, <2>1, SameLinksSameClusters
<1>3. CASE \E r \in Records : Release(r)
  BY <1>2, <1>3 DEF Release
<1>4. CASE \E p \in Runs, b \in Batches : StartRun(p, b)
  BY <1>2, <1>4 DEF StartRun
<1>5. CASE \E p \in Runs : Lookup(p)
  BY <1>2, <1>5 DEF Lookup
<1>6. CASE \E p \in Runs : Crash(p)
  BY <1>2, <1>6 DEF Crash
<1>7. CASE \E p \in Runs : Write(p)
  <2>0. PICK p \in Runs : Write(p)
    BY <1>7
  <2>1. PICK d \in run[p].found : JoinEntity(d) \/ FoundEntity(d)
    BY <2>0 DEF Write
  <2>2. d \in Decision /\ (d.kind # "new_entity" => d.match \in Ids)
    BY <1>1 DEF Inv, TypeOK, PendingIsSound
  <2>3. /\ Ids \subseteq Ids'
        /\ \/ UNCHANGED link
           \/ /\ ~Linked(d.record)
              /\ \E e \in Ids' : /\ link'[d.record].entity = e
                                 /\ \A x \in Records \ {d.record} : link'[x].entity = link[x].entity
    <3>1. d.record \in Records /\ entity \in Seq(EntityRow) /\ link \in [Records -> LinkRow]
      BY <1>1, <2>2 DEF Inv, TypeOK, Decision
    <3>2. CASE JoinEntity(d)
      <4>1. d.match \in Ids
        BY <2>2, <3>2 DEF JoinEntity
      <4>2. Ids' = Ids
        BY <3>1, <3>2 DEF JoinEntity, Ids
      <4>3. link' = IF Linked(d.record) THEN link
                    ELSE [link EXCEPT ![d.record] = [entity |-> d.match,
                            status |-> "auto_linked", evidence |-> d.evidence]]
        BY <3>2 DEF JoinEntity, LinkUnlessLinked
      <4>4. QED
        BY <3>1, <4>1, <4>2, <4>3
    <3>3. CASE FoundEntity(d)
      <4> DEFINE new == Len(entity) + 1
      <4>1. link' = IF Linked(d.record) THEN link
                    ELSE [link EXCEPT ![d.record] = [entity |-> new,
                            status |-> "new_entity", evidence |-> {}]]
        BY <3>3 DEF FoundEntity, LinkUnlessLinked
      <4>2. Ids \subseteq Ids' /\ new \in Ids'
        BY <3>1, <3>3 DEF FoundEntity, Ids
      <4> HIDE DEF new
      <4>3. QED
        BY <3>1, <4>1, <4>2
    <3>4. QED
      BY <2>1, <3>2, <3>3
  <2>4. CASE UNCHANGED link
    BY <1>1, <2>3, <2>4, SameLinksSameClusters
  <2>5. CASE ~UNCHANGED link
    <3>1. d.record \in Records
      BY <2>2 DEF Decision
    <3>2. Identity!Found(d.record) \/ Identity!Join(d.record)
      BY <1>1, <2>3, <2>5, <3>1, LinkingIsIdentifying
    <3>3. QED
      BY <3>1, <3>2 DEF Identity!Next
  <2>6. QED
    BY <2>4, <2>5
<1>8. CASE \E s \in Stewards, c \in cand, verdict \in {"accepted", "rejected"} :
             ReadCandidate(s, c, verdict)
  BY <1>2, <1>8 DEF ReadCandidate
<1>9. CASE \E s \in Stewards : Rule(s)
  <2>0. PICK s \in Stewards : Rule(s)
    BY <1>9
  <2>1. PICK d \in desk[s] :
          IF d.verdict = "accepted" /\ d.merged # d.surviving
          THEN MergeEntities({d.merged}, d.surviving)
          ELSE UNCHANGED <<entity, link, merges>>
    BY <2>0 DEF Rule
  <2>2. CASE d.verdict = "accepted" /\ d.merged # d.surviving
    <3>1. {d.merged} \in SUBSET Ids /\ d.surviving \in Ids \ {d.merged}
      BY <1>1, <2>2 DEF Inv, RulingsAreSound
    <3>2. MergeEntities({d.merged}, d.surviving)
      BY <2>1, <2>2
    <3>3. Ids' = Ids
      BY <1>1, <3>1, <3>2, MergeIsSound DEF Inv
    <3>4. QED
      BY <1>1, <3>1, <3>2, <3>3, MergingIsJoining DEF Identity!Next
  <2>3. CASE ~(d.verdict = "accepted" /\ d.merged # d.surviving)
    <3>1. UNCHANGED link /\ Ids' = Ids
      BY <2>1, <2>3 DEF Ids
    <3>2. QED
      BY <1>1, <3>1, SameLinksSameClusters
  <2>4. QED
    BY <2>2, <2>3
<1>10. CASE StartSweep
  BY <1>2, <1>10 DEF StartSweep
<1>11. CASE StopSweep
  BY <1>2, <1>11 DEF StopSweep
<1>12. CASE \E g \in sweep : SweepGroup(g)
  <2>1. PICK g \in sweep : SweepGroup(g)
    BY <1>12
  <2>2. PICK absorbed \in SUBSET Ids :
          /\ Survivor(g) \in Ids \ absorbed
          /\ MergeEntities(absorbed, Survivor(g))
    BY <1>1, <2>1, SweepMerges
  <2>3. Ids' = Ids
    BY <1>1, <2>2, MergeIsSound DEF Inv
  <2>4. QED
    BY <1>1, <2>2, <2>3, MergingIsJoining DEF Identity!Next
<1>13. CASE UNCHANGED vars
  BY <1>2, <1>13 DEF vars, rows
<1>14. QED
  BY <1>1, <1>3, <1>4, <1>5, <1>6, <1>7, <1>8, <1>9, <1>10, <1>11, <1>12, <1>13
     DEF Next, Resolution, Reblock

\* A record is identified once, and two records on one entity stay on one entity:
\* every step of runs, stewards and the tool founds, joins or merges clusters.
THEOREM IdentityGrows == Spec => IdentityIsPermanent
<1>1. Init => Identity!Init
  <2>1. Init => Ids = {}
    BY DEF Init, Ids
  <2>2. QED
    BY <2>1 DEF Identity!Init, Clusters
<1>2. Inv /\ Inv' /\ [Next]_vars => [Identity!Next]_Clusters
  BY StepsGrowClusters
<1>3. QED
  BY <1>1, <1>2, InvHolds, PTL DEF Spec, IdentityIsPermanent, Identity!Spec

-----------------------------------------------------------------------------
(* One command at a time: what a run or a steward has read still holds when *)
(* it writes, so that links name entities that stand, with all their keys.  *)

LinksStand ==
  \A r \in Records : Linked(r) =>
    Active(link[r].entity) /\ keysOf[r] \subseteq entity[link[r].entity].keys

EntitiesAreObserved == \A e \in Ids : Active(e) => RecordsOf(e) # {}

RunsAreFresh ==
  \A p \in Runs : run[p].pc # "idle" =>
    /\ \A r \in run[p].todo : ~Linked(r)
    /\ \A d \in run[p].found : ~Linked(d.record) /\ (d.kind = "link" => Active(d.match))

RulingsAreFresh ==
  \A s \in Stewards : \A d \in desk[s] :
    d.verdict = "accepted" => Active(d.merged) /\ Active(d.surviving)

SerialInv ==
  /\ Inv
  /\ LinksStand
  /\ EntitiesAreObserved
  /\ RunsAreFresh
  /\ RulingsAreFresh
  /\ OneAtATime

LEMMA OthersAreIdle ==
  ASSUME OneAtATime
  PROVE  /\ \A p \in Runs : run[p].pc # "idle" =>
              /\ \A q \in Runs \ {p} : run[q].pc = "idle"
              /\ \A s \in Stewards : desk[s] = {}
         /\ \A s \in Stewards : desk[s] # {} =>
              /\ \A p \in Runs : run[p].pc = "idle"
              /\ \A t \in Stewards \ {s} : desk[t] = {}
         /\ sweep # {} =>
              /\ \A p \in Runs : run[p].pc = "idle"
              /\ \A s \in Stewards : desk[s] = {}
<1>1. /\ \A p \in Runs : run[p].pc # "idle" => p \in Busy
      /\ \A s \in Stewards : desk[s] # {} => s \in Busy
      /\ sweep # {} => "reblock" \in Busy
  BY DEF Busy
<1>2. \A a, b \in Busy : a = b
  BY DEF OneAtATime
<1>3. /\ \A p \in Runs, s \in Stewards : p # s
      /\ "reblock" \notin Runs /\ "reblock" \notin Stewards
  BY ProcessAssumption
<1>4. QED
  BY <1>1, <1>2, <1>3

\* A step that writes neither an entity nor a link.
LEMMA StandingKept ==
  ASSUME SerialInv, UNCHANGED <<keysOf, entity, link>>
  PROVE  /\ LinksStand' /\ EntitiesAreObserved' /\ Ids' = Ids
         /\ \A r \in Records : Linked(r)' = Linked(r)
         /\ \A e : Active(e)' = Active(e)
<1>1. /\ Ids' = Ids
      /\ \A r \in Records : Linked(r)' = Linked(r)
      /\ \A e : Active(e)' = Active(e)
      /\ \A e : RecordsOf(e)' = RecordsOf(e)
  BY DEF Ids, Linked, Active, RecordsOf
<1>2. LinksStand'
  BY <1>1 DEF SerialInv, LinksStand
<1>3. EntitiesAreObserved'
  BY <1>1 DEF SerialInv, EntitiesAreObserved
<1>4. QED
  BY <1>1, <1>2, <1>3

\* A step that writes neither and by which no process learns anything.
LEMMA FreshKept ==
  ASSUME SerialInv, UNCHANGED <<keysOf, entity, link>>,
         \A p \in Runs : \/ run'[p] = run[p]
                         \/ run'[p].pc = "idle",
         \A s \in Stewards : desk'[s] \subseteq desk[s],
         Inv', OneAtATime'
  PROVE  SerialInv'
<1>1. /\ LinksStand' /\ EntitiesAreObserved' /\ Ids' = Ids
      /\ \A r \in Records : Linked(r)' = Linked(r)
      /\ \A e : Active(e)' = Active(e)
  BY StandingKept
<1>2. \A p \in Runs : /\ run[p].todo \in SUBSET Records
                      /\ \A d \in run[p].found : d.record \in Records
  BY DEF SerialInv, Inv, TypeOK, Decision
<1>3. RunsAreFresh'
  BY <1>1, <1>2 DEF SerialInv, RunsAreFresh
<1>4. RulingsAreFresh'
  BY <1>1 DEF SerialInv, RulingsAreFresh
<1>5. QED
  BY <1>1, <1>3, <1>4 DEF SerialInv

LEMMA ResolveIsActive == ASSUME NEW e, Resolve(e) # NoEntity PROVE Active(Resolve(e))
BY DEF Resolve

LEMMA StartRunKeepsFresh ==
  ASSUME SerialInv, NEW p \in Runs, NEW b \in Batches, StartRun(p, b), Inv', OneAtATime'
  PROVE  SerialInv'
<1>1. /\ UNCHANGED <<keysOf, entity, link, desk>>
      /\ run' = [run EXCEPT ![p] = [pc |-> "deciding", todo |-> Unresolved(b), found |-> {}]]
  BY DEF StartRun, rows
<1>2. /\ LinksStand' /\ EntitiesAreObserved' /\ Ids' = Ids
      /\ \A r \in Records : Linked(r)' = Linked(r)
      /\ \A e : Active(e)' = Active(e)
  BY <1>1, StandingKept
<1>3. \A q \in Runs : /\ run[q].todo \in SUBSET Records
                      /\ \A d \in run[q].found : d.record \in Records
  BY DEF SerialInv, Inv, TypeOK, Decision
<1>4. run \in [Runs -> [pc : {"idle", "deciding", "writing"}, todo : SUBSET Records,
                        found : SUBSET Decision]]
      /\ ready \in SUBSET Records
  BY DEF SerialInv, Inv, TypeOK
<1>5. \A r \in Unresolved(b) : r \in Records /\ ~Linked(r)
  BY <1>4 DEF Unresolved
<1>6. RunsAreFresh'
  <2>1. SUFFICES ASSUME NEW q \in Runs, run'[q].pc # "idle"
                 PROVE  /\ \A r \in run'[q].todo : ~Linked(r)'
                        /\ \A d \in run'[q].found :
                             ~Linked(d.record)' /\ (d.kind = "link" => Active(d.match)')
    BY DEF RunsAreFresh
  <2>2. CASE q = p
    BY <1>1, <1>2, <1>4, <1>5, <2>2
  <2>3. CASE q # p
    BY <1>1, <1>2, <1>3, <1>4, <2>1, <2>3 DEF SerialInv, RunsAreFresh
  <2>4. QED
    BY <2>2, <2>3
<1>7. RulingsAreFresh'
  BY <1>1, <1>2 DEF SerialInv, RulingsAreFresh
<1>8. QED
  BY <1>2, <1>6, <1>7 DEF SerialInv

LEMMA LookupKeepsFresh ==
  ASSUME SerialInv, NEW p \in Runs, Lookup(p), Inv', OneAtATime'
  PROVE  SerialInv'
<1>1. UNCHANGED <<keysOf, entity, link, desk>> /\ run[p].pc = "deciding"
  BY DEF Lookup, rows
<1>2. PICK r \in run[p].todo : \E d \in Decisions(r) :
        run' = [run EXCEPT ![p] = [@ EXCEPT !.pc = "writing", !.found = {d}]]
  BY DEF Lookup
<1>3. PICK d \in Decisions(r) :
        run' = [run EXCEPT ![p] = [@ EXCEPT !.pc = "writing", !.found = {d}]]
  BY <1>2
<1>4. /\ LinksStand' /\ EntitiesAreObserved' /\ Ids' = Ids
      /\ \A x \in Records : Linked(x)' = Linked(x)
      /\ \A e : Active(e)' = Active(e)
  BY <1>1, StandingKept
<1>5. /\ run \in [Runs -> [pc : {"idle", "deciding", "writing"}, todo : SUBSET Records,
                           found : SUBSET Decision]]
      /\ TypeOK /\ RowsAreSound
  BY DEF SerialInv, Inv, TypeOK
<1>6. \A q \in Runs : /\ run[q].todo \in SUBSET Records
                      /\ \A x \in run[q].found : x.record \in Records
  BY <1>5 DEF Decision
<1>7. d.record = r /\ (d.kind = "link" => Active(d.match))
  BY <1>2, <1>5, <1>6, DecisionsAreSound
<1>8. \A x \in run[p].todo : ~Linked(x)
  BY <1>1 DEF SerialInv, RunsAreFresh
<1>9. RunsAreFresh'
  <2>1. SUFFICES ASSUME NEW q \in Runs, run'[q].pc # "idle"
                 PROVE  /\ \A x \in run'[q].todo : ~Linked(x)'
                        /\ \A c \in run'[q].found :
                             ~Linked(c.record)' /\ (c.kind = "link" => Active(c.match)')
    BY DEF RunsAreFresh
  <2>2. CASE q = p
    <3>1. run'[q].todo = run[p].todo /\ run'[q].found = {d}
      BY <1>3, <1>5, <2>2
    <3>2. QED
      BY <1>2, <1>4, <1>6, <1>7, <1>8, <3>1
  <2>3. CASE q # p
    BY <1>3, <1>4, <1>5, <1>6, <2>1, <2>3 DEF SerialInv, RunsAreFresh
  <2>4. QED
    BY <2>2, <2>3
<1>10. RulingsAreFresh'
  BY <1>1, <1>4 DEF SerialInv, RulingsAreFresh
<1>11. QED
  BY <1>4, <1>9, <1>10 DEF SerialInv

LEMMA ReadCandidateKeepsFresh ==
  ASSUME SerialInv, NEW s \in Stewards, NEW c \in cand,
         NEW verdict \in {"accepted", "rejected"}, ReadCandidate(s, c, verdict),
         Inv', OneAtATime'
  PROVE  SerialInv'
<1> DEFINE merged == IF verdict = "accepted" THEN Resolve(link[c.record].entity) ELSE NoEntity
           surviving == IF verdict = "accepted" THEN Resolve(c.entity) ELSE NoEntity
           d == [record |-> c.record, entity |-> c.entity, verdict |-> verdict,
                 merged |-> merged, surviving |-> surviving]
<1>1. /\ UNCHANGED <<keysOf, entity, link, run>>
      /\ verdict = "accepted" => merged # NoEntity /\ surviving # NoEntity
      /\ desk' = [desk EXCEPT ![s] = {d}]
  BY DEF ReadCandidate, rows
<1>2. /\ LinksStand' /\ EntitiesAreObserved' /\ Ids' = Ids
      /\ \A r \in Records : Linked(r)' = Linked(r)
      /\ \A e : Active(e)' = Active(e)
  BY <1>1, StandingKept
<1>3. verdict = "accepted" => Active(merged) /\ Active(surviving)
  BY <1>1, ResolveIsActive
<1>4. desk \in [Stewards -> SUBSET Ruling]
  BY DEF SerialInv, Inv, TypeOK
<1>5. d.verdict = verdict /\ d.merged = merged /\ d.surviving = surviving
  OBVIOUS
<1> HIDE DEF merged, surviving, d
<1>6. RulingsAreFresh'
  <2>1. SUFFICES ASSUME NEW t \in Stewards, NEW x \in desk'[t], x.verdict = "accepted"
                 PROVE  Active(x.merged)' /\ Active(x.surviving)'
    BY DEF RulingsAreFresh
  <2>2. CASE t = s
    <3>1. x = d
      BY <1>1, <1>4, <2>1, <2>2
    <3>2. QED
      BY <1>2, <1>3, <1>5, <2>1, <3>1
  <2>3. CASE t # s
    <3>1. x \in desk[t]
      BY <1>1, <1>4, <2>1, <2>3
    <3>2. QED
      BY <1>2, <2>1, <3>1 DEF SerialInv, RulingsAreFresh
  <2>4. QED
    BY <2>2, <2>3
<1>7. \A q \in Runs : /\ run[q].todo \in SUBSET Records
                      /\ \A x \in run[q].found : x.record \in Records
  BY DEF SerialInv, Inv, TypeOK, Decision
<1>8. RunsAreFresh'
  BY <1>1, <1>2, <1>7 DEF SerialInv, RunsAreFresh
<1>9. QED
  BY <1>2, <1>6, <1>8 DEF SerialInv

\* An entity that is joined or founded stands, and has the keys of the record.
LEMMA WritingStands ==
  ASSUME SerialInv, NEW d \in Decision, ~Linked(d.record), d.kind = "link" => Active(d.match),
         JoinEntity(d) \/ FoundEntity(d), UNCHANGED keysOf
  PROVE  /\ LinksStand' /\ EntitiesAreObserved'
         /\ \A x \in Records \ {d.record} : Linked(x)' = Linked(x)
<1> DEFINE r == d.record
<1>1. /\ r \in Records
      /\ keysOf[r] \in SUBSET Keys
      /\ link \in [Records -> LinkRow]
      /\ \A x \in Records : link[x].entity \in Ids \cup {NoEntity}
      /\ entity \in Seq(EntityRow) /\ Len(entity) \in Nat
  BY EntitiesAreRows DEF SerialInv, Inv, TypeOK, Decision
<1>2. LinksStand /\ EntitiesAreObserved
  BY DEF SerialInv
<1>3. PICK e : /\ \A x \in Records \ {r} : link'[x] = link[x]
               /\ link'[r].entity = e
               /\ e \in Ids' /\ Active(e)'
               /\ keysOf[r] \subseteq entity'[e].keys
               /\ \A f \in Ids : /\ f \in Ids'
                                 /\ Active(f)' = Active(f)
                                 /\ entity[f].keys \subseteq entity'[f].keys
               /\ \A f \in Ids' : f \in Ids \/ f = e
  <2>1. CASE JoinEntity(d)
    <3>1. /\ d.kind = "link"
          /\ link' = [link EXCEPT ![r] = [entity |-> d.match, status |-> "auto_linked",
                                          evidence |-> d.evidence]]
          /\ entity' = [entity EXCEPT ![d.match] = WithKeys(@, keysOf[r], StrongFor(r))]
      BY <2>1 DEF JoinEntity, LinkUnlessLinked
    <3>2. d.match \in Ids /\ Active(d.match)
      BY <3>1 DEF Active
    <3>3. Ids' = Ids
      BY <1>1, <3>1, <3>2 DEF Ids
    <3>4. \A f \in Ids : /\ entity'[f].status = entity[f].status
                         /\ entity[f].keys \subseteq entity'[f].keys
      BY <1>1, <3>1, EntitiesAreRows DEF SerialInv, Inv, Ids, WithKeys, EntityRow
    <3>5. keysOf[r] \subseteq entity'[d.match].keys
      BY <1>1, <3>1, <3>2, EntitiesAreRows DEF SerialInv, Inv, Ids, WithKeys, EntityRow
    <3>6. \A f \in Ids : Active(f)' = Active(f)
      BY <3>3, <3>4 DEF Active
    <3>7. /\ \A x \in Records \ {r} : link'[x] = link[x]
          /\ link'[r].entity = d.match
      BY <1>1, <3>1
    <3>8. QED
      BY <3>2, <3>3, <3>4, <3>5, <3>6, <3>7
  <2>2. CASE FoundEntity(d)
    <3> DEFINE row == [status |-> "active", into |-> NoEntity, keys |-> keysOf[r],
                       strong |-> StrongFor(r)]
    <3>0. PICK new : new = Len(entity) + 1
      OBVIOUS
    <3>1. /\ link' = [link EXCEPT ![r] = [entity |-> new, status |-> "new_entity",
                                          evidence |-> {}]]
          /\ entity' = Append(entity, row)
      BY <2>2, <3>0 DEF FoundEntity, LinkUnlessLinked
    <3>2. /\ Len(entity') = new
          /\ entity'[new] = row
          /\ \A f \in 1..Len(entity) : entity'[f] = entity[f]
      BY <1>1, <3>0, <3>1
    <3>3. Ids' = Ids \cup {new}
      BY <1>1, <3>0, <3>2 DEF Ids
    <3>4. \A f \in Ids : Active(f)' = Active(f)
      BY <3>2, <3>3 DEF Active, Ids
    <3>5. Active(new)' /\ keysOf[r] \subseteq entity'[new].keys
      BY <3>2, <3>3 DEF Active
    <3>6. /\ \A x \in Records \ {r} : link'[x] = link[x]
          /\ link'[r].entity = new
      BY <1>1, <3>1
    <3>7. \A f \in Ids : entity[f].keys \subseteq entity'[f].keys
      BY <3>2 DEF Ids
    <3>8. QED
      BY <3>3, <3>4, <3>5, <3>6, <3>7
  <2>3. QED
    BY <2>1, <2>2
<1>4. LinksStand'
  <2>1. SUFFICES ASSUME NEW x \in Records, Linked(x)'
                 PROVE  Active(link[x].entity)' /\ keysOf[x] \subseteq entity'[link'[x].entity].keys
    BY DEF LinksStand
  <2>2. CASE x = r
    <3>1. link'[x].entity = e
      BY <1>3, <2>2
    <3>2. Active(e)' /\ keysOf[x] \subseteq entity'[e].keys
      BY <1>3, <2>2
    <3>3. QED
      BY <3>1, <3>2 DEF Active
  <2>3. CASE x # r
    <3>1. link'[x] = link[x]
      BY <1>3, <2>3
    <3>2. Linked(x)
      BY <2>1, <3>1 DEF Linked
    <3>3. Active(link[x].entity) /\ keysOf[x] \subseteq entity[link[x].entity].keys
      BY <1>2, <3>2 DEF LinksStand
    <3>4. link[x].entity \in Ids
      BY <3>3 DEF Active
    <3>5. QED
      BY <1>3, <3>1, <3>3, <3>4 DEF Active
  <2>4. QED
    BY <2>2, <2>3
<1>5. EntitiesAreObserved'
  <2>1. SUFFICES ASSUME NEW f \in Ids', Active(f)'
                 PROVE  \E x \in Records : link'[x].entity = f
    BY DEF EntitiesAreObserved, RecordsOf
  <2>2. CASE f = e
    BY <1>1, <1>3, <2>2
  <2>3. CASE f # e
    <3>1. f \in Ids /\ Active(f)
      BY <1>3, <2>1, <2>3
    <3>2. PICK x \in Records : link[x].entity = f
      BY <1>2, <3>1 DEF EntitiesAreObserved, RecordsOf
    <3>3. x # r
      BY <1>1, <3>1, <3>2, EntitiesAreRows DEF SerialInv, Inv, Linked
    <3>4. QED
      BY <1>3, <3>2, <3>3
  <2>4. QED
    BY <2>2, <2>3
<1>6. \A x \in Records \ {r} : Linked(x)' = Linked(x)
  BY <1>3 DEF Linked
<1>7. QED
  BY <1>4, <1>5, <1>6

LEMMA WriteKeepsFresh ==
  ASSUME SerialInv, NEW p \in Runs, Write(p), Inv', OneAtATime'
  PROVE  SerialInv'
<1>1. PICK d \in run[p].found :
        /\ JoinEntity(d) \/ FoundEntity(d)
        /\ run' = [run EXCEPT ![p] =
                     IF run[p].todo = {d.record} THEN Idle
                     ELSE [pc |-> "deciding", todo |-> @.todo \ {d.record}, found |-> {}]]
  BY DEF Write
<1>2. UNCHANGED <<keysOf, desk>> /\ run[p].pc = "writing"
  BY DEF Write
<1>3. run \in [Runs -> [pc : {"idle", "deciding", "writing"}, todo : SUBSET Records,
                        found : SUBSET Decision]]
  BY DEF SerialInv, Inv, TypeOK
<1>4. /\ d \in Decision
      /\ ~Linked(d.record)
      /\ d.kind = "link" => Active(d.match)
      /\ \A x \in run[p].todo : x \in Records /\ ~Linked(x)
  BY <1>2, <1>3 DEF SerialInv, RunsAreFresh
<1>5. /\ LinksStand' /\ EntitiesAreObserved'
      /\ \A x \in Records \ {d.record} : Linked(x)' = Linked(x)
  BY <1>1, <1>2, <1>4, WritingStands
<1>6. /\ \A q \in Runs \ {p} : run[q].pc = "idle"
      /\ \A s \in Stewards : desk[s] = {}
  BY <1>2, OthersAreIdle DEF SerialInv
<1>7. RunsAreFresh'
  <2>1. SUFFICES ASSUME NEW q \in Runs, run'[q].pc # "idle"
                 PROVE  /\ \A x \in run'[q].todo : ~Linked(x)'
                        /\ \A c \in run'[q].found :
                             ~Linked(c.record)' /\ (c.kind = "link" => Active(c.match)')
    BY DEF RunsAreFresh
  <2>2. q = p
    BY <1>1, <1>3, <1>6, <2>1
  <2>3. run'[q].todo = run[p].todo \ {d.record} /\ run'[q].found = {}
    BY <1>1, <1>3, <2>1, <2>2 DEF Idle
  <2>4. QED
    BY <1>4, <1>5, <2>3
<1>8. RulingsAreFresh'
  BY <1>2, <1>6 DEF RulingsAreFresh
<1>9. QED
  BY <1>5, <1>7, <1>8 DEF SerialInv

\* A merge into an entity that stands, or of entities that no record names.
LEMMA MergingStands ==
  ASSUME SerialInv, NEW absorbed \in SUBSET Ids, NEW surviving \in Ids \ absorbed,
         MergeEntities(absorbed, surviving), UNCHANGED keysOf,
         (\E r \in Records : link[r].entity \in absorbed) => Active(surviving)
  PROVE  LinksStand' /\ EntitiesAreObserved'
<1>1. /\ link \in [Records -> LinkRow] /\ TypeOK /\ RowsAreSound
      /\ \A r \in Records : link[r].entity \in Ids \cup {NoEntity}
      /\ LinksStand /\ EntitiesAreObserved
      /\ Ids \subseteq Nat /\ NoEntity \notin Ids
  BY EntitiesAreRows DEF SerialInv, Inv, TypeOK
<1>2. Ids' = Ids
  BY <1>1, MergeIsSound
<1>3. \A r \in Records :
        /\ link[r].entity \in absorbed => link'[r].entity = surviving
        /\ link[r].entity \notin absorbed => link'[r].entity = link[r].entity
  BY <1>1 DEF MergeEntities, LinkRow
<1>4. /\ \A e \in Ids \ absorbed : /\ entity'[e].status = entity[e].status
                                   /\ entity[e].keys \subseteq entity'[e].keys
      /\ \A e \in absorbed : /\ entity'[e].status = "merged"
                             /\ entity[e].keys \subseteq entity'[surviving].keys
  <2> DEFINE brought == UNION {entity[e].keys : e \in absorbed}
             Bringing(k) == {e \in absorbed : k \in entity[e].keys}
             strong == {k \in brought : \E e \in Bringing(k) :
                           k \in entity[e].strong /\ \A f \in Bringing(k) : e <= f}
  <2>1. entity' = [e \in Ids |->
           IF e = surviving THEN WithKeys(entity[e], brought, strong)
           ELSE IF e \in absorbed
           THEN [entity[e] EXCEPT !.status = "merged", !.into = surviving]
           ELSE entity[e]]
    BY DEF MergeEntities
  <2>2. \A e \in Ids : entity[e] \in EntityRow
    BY <1>1, EntitiesAreRows
  <2>3. \A e \in absorbed : entity[e].keys \subseteq brought
    OBVIOUS
  <2> HIDE DEF brought, strong
  <2>4. QED
    BY <2>1, <2>2, <2>3 DEF WithKeys, EntityRow
<1>5. \A e \in Ids : Active(e)' <=> Active(e) /\ e \notin absorbed
  BY <1>2, <1>4 DEF Active
<1>6. LinksStand'
  <2>1. SUFFICES ASSUME NEW r \in Records, Linked(r)'
                 PROVE  /\ Active(link[r].entity)'
                        /\ keysOf[r] \subseteq entity'[link'[r].entity].keys
    BY DEF LinksStand
  <2>2. Linked(r)
    BY <1>1, <1>3, <2>1 DEF Linked
  <2>3. Active(link[r].entity) /\ keysOf[r] \subseteq entity[link[r].entity].keys
    BY <1>1, <2>2 DEF LinksStand
  <2>4. CASE link[r].entity \in absorbed
    <3>1. link'[r].entity = surviving /\ Active(surviving)'
      BY <1>3, <1>5, <2>4
    <3>2. QED
      BY <1>4, <2>3, <2>4, <3>1 DEF Active
  <2>5. CASE link[r].entity \notin absorbed
    <3>1. link'[r].entity = link[r].entity /\ link[r].entity \in Ids
      BY <1>3, <2>3, <2>5 DEF Active
    <3>2. Active(link[r].entity)' /\ keysOf[r] \subseteq entity'[link[r].entity].keys
      BY <1>4, <1>5, <2>3, <2>5, <3>1 DEF Active
    <3>3. QED
      BY <3>1, <3>2 DEF Active
  <2>6. QED
    BY <2>4, <2>5
<1>7. EntitiesAreObserved'
  <2>1. SUFFICES ASSUME NEW e \in Ids, Active(e)'
                 PROVE  \E r \in Records : link'[r].entity = e
    BY <1>2 DEF EntitiesAreObserved, RecordsOf
  <2>2. Active(e) /\ e \notin absorbed
    BY <1>5, <2>1
  <2>3. PICK r \in Records : link[r].entity = e
    BY <1>1, <2>2 DEF EntitiesAreObserved, RecordsOf
  <2>4. QED
    BY <1>3, <2>2, <2>3
<1>8. QED
  BY <1>6, <1>7

LEMMA RuleKeepsFresh ==
  ASSUME SerialInv, NEW s \in Stewards, Rule(s), Inv', OneAtATime'
  PROVE  SerialInv'
<1>1. PICK d \in desk[s] :
        IF d.verdict = "accepted" /\ d.merged # d.surviving
        THEN MergeEntities({d.merged}, d.surviving)
        ELSE UNCHANGED <<entity, link, merges>>
  BY DEF Rule
<1>2. UNCHANGED <<keysOf, run>> /\ desk' = [desk EXCEPT ![s] = {}]
  BY DEF Rule
<1>3. desk \in [Stewards -> SUBSET Ruling]
  BY DEF SerialInv, Inv, TypeOK
<1>4. /\ \A p \in Runs : run[p].pc = "idle"
      /\ \A t \in Stewards \ {s} : desk[t] = {}
  BY <1>1, OthersAreIdle DEF SerialInv
<1>5. LinksStand' /\ EntitiesAreObserved'
  <2>1. CASE d.verdict = "accepted" /\ d.merged # d.surviving
    <3>1. Active(d.merged) /\ Active(d.surviving)
      BY <2>1 DEF SerialInv, RulingsAreFresh
    <3>2. {d.merged} \in SUBSET Ids /\ d.surviving \in Ids \ {d.merged}
      BY <2>1, <3>1 DEF Active
    <3>3. MergeEntities({d.merged}, d.surviving)
      BY <1>1, <2>1
    <3>4. QED
      BY <1>2, <3>1, <3>2, <3>3, MergingStands
  <2>2. CASE ~(d.verdict = "accepted" /\ d.merged # d.surviving)
    BY <1>1, <1>2, <2>2, StandingKept
  <2>3. QED
    BY <2>1, <2>2
<1>6. RunsAreFresh' /\ RulingsAreFresh'
  BY <1>2, <1>3, <1>4 DEF RunsAreFresh, RulingsAreFresh
<1>7. QED
  BY <1>5, <1>6 DEF SerialInv

\* When a record names one of the entities absorbed, the survivor has at least as many
\* records, so it stands; a group that its predecessors emptied moves nothing.
LEMMA SweepGroupKeepsFresh ==
  ASSUME SerialInv, NEW g \in sweep, SweepGroup(g), Inv', OneAtATime'
  PROVE  SerialInv'
<1>1. PICK absorbed \in SUBSET Ids :
        /\ absorbed \subseteq g
        /\ Survivor(g) \in Ids \ absorbed
        /\ \A e \in g : Observed(e) <= Observed(Survivor(g))
        /\ MergeEntities(absorbed, Survivor(g))
  BY SweepMerges DEF SerialInv
<1>2. UNCHANGED <<keysOf, run, desk>>
  BY DEF SweepGroup
<1>3. /\ \A p \in Runs : run[p].pc = "idle"
      /\ \A t \in Stewards : desk[t] = {}
  BY OthersAreIdle DEF SerialInv
<1>4. ASSUME NEW r \in Records, link[r].entity \in absorbed
      PROVE  Active(Survivor(g))
  <2>1. RecordsOf(link[r].entity) # {}
    BY DEF RecordsOf
  <2>2. RecordsOf(Survivor(g)) # {}
    BY <1>1, <1>4, <2>1, ObservedIsNumber
  <2>3. PICK x \in Records : link[x].entity = Survivor(g)
    BY <2>2 DEF RecordsOf
  <2>4. Linked(x)
    BY <1>1, <2>3, EntitiesAreRows DEF SerialInv, Inv, Linked
  <2>5. QED
    BY <2>3, <2>4 DEF SerialInv, LinksStand
<1>5. LinksStand' /\ EntitiesAreObserved'
  BY <1>1, <1>2, <1>4, MergingStands
<1>6. RunsAreFresh' /\ RulingsAreFresh'
  BY <1>2, <1>3 DEF RunsAreFresh, RulingsAreFresh
<1>7. QED
  BY <1>5, <1>6 DEF SerialInv

LEMMA SerialInvHoldsInitially == Init => SerialInv
<1>1. SUFFICES ASSUME Init PROVE SerialInv
  OBVIOUS
<1>2. /\ Ids = {}
      /\ \A r \in Records : ~Linked(r)
      /\ \A p \in Runs : run[p].pc = "idle"
      /\ \A s \in Stewards : desk[s] = {}
      /\ sweep = {}
  BY <1>1 DEF Init, Ids, Linked, Unlinked, Idle
<1>3. OneAtATime
  BY <1>2 DEF OneAtATime, Busy
<1>4. QED
  BY <1>1, <1>2, <1>3, InvHoldsInitially
     DEF SerialInv, LinksStand, EntitiesAreObserved, RunsAreFresh, RulingsAreFresh

LEMMA SerialInvIsInductive == SerialInv /\ [Next /\ OneAtATime']_vars => SerialInv'
<1>1. SUFFICES ASSUME SerialInv, [Next /\ OneAtATime']_vars PROVE SerialInv'
  OBVIOUS
<1>2. Inv'
  BY <1>1, InvIsInductive DEF SerialInv
<1>3. run \in [Runs -> [pc : {"idle", "deciding", "writing"}, todo : SUBSET Records,
                        found : SUBSET Decision]]
  BY <1>1 DEF SerialInv, Inv, TypeOK
<1>4. CASE UNCHANGED vars
  <2>1. UNCHANGED <<keysOf, entity, link, run, desk, sweep>>
    BY <1>4 DEF vars, rows
  <2>2. OneAtATime'
    BY <1>1, <2>1 DEF SerialInv, OneAtATime, Busy
  <2>3. QED
    BY <1>1, <1>2, <2>1, <2>2, FreshKept
<1>5. CASE Next /\ OneAtATime'
  <2>1. CASE \E r \in Records : Release(r)
    <3>1. UNCHANGED <<keysOf, entity, link, run, desk>>
      BY <2>1 DEF Release, rows
    <3>2. QED
      BY <1>1, <1>2, <1>5, <3>1, FreshKept
  <2>2. CASE \E p \in Runs, b \in Batches : StartRun(p, b)
    BY <1>1, <1>2, <1>5, <2>2, StartRunKeepsFresh
  <2>3. CASE \E p \in Runs : Lookup(p) \/ Write(p)
    BY <1>1, <1>2, <1>5, <2>3, LookupKeepsFresh, WriteKeepsFresh
  <2>4. CASE \E p \in Runs : Crash(p)
    <3>1. PICK p \in Runs : Crash(p)
      BY <2>4
    <3>2. UNCHANGED <<keysOf, entity, link, desk>> /\ run' = [run EXCEPT ![p] = Idle]
      BY <3>1 DEF Crash, rows
    <3>3. \A q \in Runs : run'[q] = run[q] \/ run'[q].pc = "idle"
      BY <1>3, <3>2 DEF Idle
    <3>4. QED
      BY <1>1, <1>2, <1>5, <3>2, <3>3, FreshKept
  <2>5. CASE \E s \in Stewards, c \in cand, verdict \in {"accepted", "rejected"} :
               ReadCandidate(s, c, verdict)
    BY <1>1, <1>2, <1>5, <2>5, ReadCandidateKeepsFresh
  <2>6. CASE \E s \in Stewards : Rule(s)
    BY <1>1, <1>2, <1>5, <2>6, RuleKeepsFresh
  <2>7. CASE StartSweep \/ StopSweep
    <3>1. UNCHANGED <<keysOf, entity, link, run, desk>>
      BY <2>7 DEF StartSweep, StopSweep, rows
    <3>2. QED
      BY <1>1, <1>2, <1>5, <3>1, FreshKept
  <2>8. CASE \E g \in sweep : SweepGroup(g)
    BY <1>1, <1>2, <1>5, <2>8, SweepGroupKeepsFresh
  <2>9. QED
    BY <1>5, <2>1, <2>2, <2>3, <2>4, <2>5, <2>6, <2>7, <2>8 DEF Next, Resolution, Reblock
<1>6. QED
  BY <1>1, <1>4, <1>5

LEMMA SerialInvHolds == SerialSpec => []SerialInv
<1>1. Init => SerialInv
  BY SerialInvHoldsInitially
<1>2. SerialInv /\ [Next /\ OneAtATime']_vars => SerialInv'
  BY SerialInvIsInductive
<1>3. QED
  BY <1>1, <1>2, PTL DEF SerialSpec

\* One command at a time, no link names a tombstone and no entity that stands is without
\* a record, however the groups that reblock merges overlap.
THEOREM LinksNameEntities == SerialSpec => []LinksAndEntitiesAgree
<1>1. SerialInv => LinksAndEntitiesAgree
  BY DEF SerialInv, LinksStand, EntitiesAreObserved, LinksAndEntitiesAgree
<1>2. QED
  BY <1>1, SerialInvHolds, PTL

\* One command at a time, every key a record built finds the entity its link leads to.
THEOREM RecordsAreFindable == SerialSpec => []SurvivorHasRecordKeys
<1>1. SerialInv => SurvivorHasRecordKeys
  <2>1. SUFFICES ASSUME SerialInv, NEW r \in Records, Linked(r), NEW k \in keysOf[r]
                 PROVE  Resolve(link[r].entity) \in FindEntities(k)
    BY DEF SurvivorHasRecordKeys
  <2>2. Active(link[r].entity) /\ k \in entity[link[r].entity].keys
    BY <2>1 DEF SerialInv, LinksStand
  <2>3. Resolve(link[r].entity) = link[r].entity
    BY <2>2, ActiveResolves
  <2>4. QED
    BY <2>2, <2>3 DEF FindEntities, Active
<1>2. QED
  BY <1>1, SerialInvHolds, PTL

-----------------------------------------------------------------------------
(* With one steward and without the tool, every id leads to an entity that *)
(* stands: a merge makes one entity that stands a tombstone of another, so *)
(* a chain is no longer than the number of decisions.                      *)

\* walk follows next from e for n steps.
Follows(walk, S, e, next, n) ==
  walk \in [0..n -> S] /\ walk[0] = e /\ \A i \in 1..n : walk[i] = next[walk[i - 1]]

\* A function can be followed for any number of steps.
LEMMA Iteration ==
  ASSUME NEW S, NEW e \in S, NEW next \in [S -> S], NEW N \in Nat
  PROVE  \E walk : Follows(walk, S, e, next, N)
<1> DEFINE Far == {n \in Nat : ~ \E f : Follows(f, S, e, next, n)}
<1>1. SUFFICES ASSUME Far # {} PROVE FALSE
  OBVIOUS
<1>2. PICK m \in Far : \A n \in Far : m <= n
  BY <1>1, LeastNumber
<1>3. CASE m = 0
  <2>1. PICK f : f = [i \in 0..0 |-> e]
    OBVIOUS
  <2>2. f \in [0..0 -> S] /\ f[0] = e /\ 1..0 = {}
    BY <2>1
  <2>3. Follows(f, S, e, next, 0)
    BY <2>2 DEF Follows
  <2>4. QED
    BY <1>2, <1>3, <2>3
<1>4. CASE m # 0
  <2>1. m \in Nat /\ m - 1 \in Nat /\ ~(m <= m - 1)
    BY <1>2, <1>4
  <2>2. PICK f : Follows(f, S, e, next, m - 1)
    BY <1>2, <2>1
  <2>3. /\ f \in [0..(m - 1) -> S] /\ f[0] = e
        /\ \A i \in 1..(m - 1) : f[i] = next[f[i - 1]]
    BY <2>2 DEF Follows
  <2>4. m - 1 \in 0..(m - 1)
    BY <2>1
  <2>5. PICK last \in S : last = next[f[m - 1]]
    BY <2>3, <2>4
  <2>6. PICK g : g = [i \in 0..m |-> IF i = m THEN last ELSE f[i]]
    OBVIOUS
  <2>7. \A i \in 0..m : i # m => i \in 0..(m - 1)
    BY <2>1
  <2>8. g \in [0..m -> S]
    BY <2>3, <2>5, <2>6, <2>7
  <2>9. 0 \in 0..m /\ 0 # m
    BY <2>1, <1>4
  <2>10. g[0] = e
    BY <2>3, <2>6, <2>9
  <2>11. ASSUME NEW i \in 1..m PROVE g[i] = next[g[i - 1]]
    <3>1. i - 1 \in 0..(m - 1) /\ i \in 0..m /\ i - 1 \in 0..m /\ i - 1 # m
      BY <2>1
    <3>2. g[i - 1] = f[i - 1]
      BY <2>6, <3>1
    <3>3. CASE i = m
      BY <2>5, <2>6, <3>1, <3>2, <3>3
    <3>4. CASE i # m
      <4>1. i \in 1..(m - 1)
        BY <2>1, <3>4
      <4>2. f[i] = next[f[i - 1]]
        BY <2>3, <4>1
      <4>3. g[i] = f[i]
        BY <2>6, <3>1, <3>4
      <4>4. QED
        BY <3>2, <4>2, <4>3
    <3>5. QED
      BY <3>3, <3>4
  <2>12. Follows(g, S, e, next, m)
    BY <2>8, <2>10, <2>11 DEF Follows
  <2>13. QED
    BY <1>2, <2>12
<1>5. QED
  BY <1>3, <1>4

\* high counts down along the tombstones, from n at most to 0 where an entity stands.
Slope(high, n) ==
  /\ high \in [Ids -> 0..n]
  /\ \A e \in Ids : IF Active(e) THEN high[e] = 0
                    ELSE entity[e].into \in Ids /\ high[entity[e].into] < high[e]

Slopes(n) == \E high : Slope(high, n)

\* A walk of fewer steps than HopLimit ends where an entity stands.
LEMMA SlopesResolve ==
  ASSUME TypeOK, NEW n \in Nat, n < HopLimit, Slopes(n), NEW e \in Ids
  PROVE  Resolve(e) # NoEntity
<1> DEFINE Step(f) == [i \in 0..HopLimit |->
             IF i = 0 THEN e
             ELSE LET previous == f[i - 1]
                  IN IF Active(previous) THEN previous ELSE entity[previous].into]
           at == CHOOSE f : f = Step(f)
<1>1. PICK high : Slope(high, n)
  BY DEF Slopes
<1>2. /\ high \in [Ids -> 0..n]
      /\ \A x \in Ids : Active(x) => high[x] = 0
      /\ \A x \in Ids : ~Active(x) => entity[x].into \in Ids /\ high[entity[x].into] < high[x]
  BY <1>1 DEF Slope
<1>3. PICK next : next = [x \in Ids |-> IF Active(x) THEN x ELSE entity[x].into]
  OBVIOUS
<1>4. next \in [Ids -> Ids]
  BY <1>2, <1>3
<1>5. PICK walk : Follows(walk, Ids, e, next, HopLimit)
  <2>1. HopLimit \in Nat
    BY DEF HopLimit
  <2>2. QED
    BY <1>4, <2>1, Iteration
<1>6. /\ walk \in [0..HopLimit -> Ids] /\ walk[0] = e
      /\ \A i \in 1..HopLimit : walk[i] = next[walk[i - 1]]
  BY <1>5 DEF Follows
<1>7. ASSUME NEW i \in 0..HopLimit PROVE walk[i] = Step(walk)[i]
  <2>1. CASE i = 0
    BY <1>6, <2>1
  <2>2. CASE i # 0
    <3>1. i \in 1..HopLimit /\ i - 1 \in 0..HopLimit
      BY <2>2 DEF HopLimit
    <3>2. walk[i] = next[walk[i - 1]] /\ walk[i - 1] \in Ids
      BY <1>6, <3>1
    <3>3. QED
      BY <1>3, <2>2, <3>2
  <2>3. QED
    BY <2>1, <2>2
<1>8. walk = Step(walk)
  BY <1>6, <1>7
<1>9. at = Step(at)
  BY <1>8
<1> HIDE DEF at
<1>10. at[0] = e /\ \A i \in 1..HopLimit :
          at[i] = IF Active(at[i - 1]) THEN at[i - 1] ELSE entity[at[i - 1]].into
  BY <1>9 DEF HopLimit
<1> DEFINE Near(i) == at[i] \in Ids /\ (Active(at[i]) \/ high[at[i]] + i <= n)
           Astray == {i \in 0..(HopLimit - 1) : ~Near(i)}
<1>11. Near(0)
  BY <1>2, <1>10
<1>12. ASSUME NEW i \in 1..(HopLimit - 1), Near(i - 1) PROVE Near(i)
  <2>1. PICK x \in Ids : x = at[i - 1]
    BY <1>12
  <2>2. i \in 1..HopLimit /\ i \in Nat
    BY DEF HopLimit
  <2>3. CASE Active(x)
    <3>1. at[i] = x
      BY <1>10, <2>1, <2>2, <2>3
    <3>2. QED
      BY <2>3, <3>1
  <2>4. CASE ~Active(x)
    <3>1. PICK y \in Ids : y = entity[x].into
      BY <1>2, <2>4
    <3>2. at[i] = y
      BY <1>10, <2>1, <2>2, <2>4, <3>1
    <3>3. high[y] < high[x] /\ high[x] \in Nat /\ high[y] \in Nat
      BY <1>2, <2>4, <3>1
    <3>4. high[x] + (i - 1) <= n
      BY <1>12, <2>1, <2>4
    <3>5. high[y] + i <= n
      BY <2>2, <3>3, <3>4
    <3>6. QED
      BY <3>2, <3>5
  <2>5. QED
    BY <2>3, <2>4
<1> HIDE DEF Near
<1>13. Astray = {}
  <2>1. SUFFICES ASSUME Astray # {} PROVE FALSE
    OBVIOUS
  <2>2. Astray \in SUBSET Nat
    BY DEF HopLimit
  <2>3. PICK m \in Astray : \A i \in Astray : m <= i
    BY <2>1, <2>2, LeastNumber
  <2>4. m \in 0..(HopLimit - 1) /\ ~Near(m) /\ m # 0
    BY <1>11, <2>3
  <2>5. m \in 1..(HopLimit - 1) /\ m - 1 \in 0..(HopLimit - 1) /\ ~(m <= m - 1)
    BY <2>4 DEF HopLimit
  <2>6. Near(m - 1)
    BY <2>3, <2>5
  <2>7. QED
    BY <1>12, <2>4, <2>5, <2>6
<1>14. Near(HopLimit - 1)
  <2>1. HopLimit - 1 \in 0..(HopLimit - 1)
    BY DEF HopLimit
  <2>2. QED
    BY <1>13, <2>1
<1>15. PICK x \in Ids : x = at[HopLimit - 1] /\ (Active(x) \/ high[x] + (HopLimit - 1) <= n)
  BY <1>14 DEF Near
<1>16. Active(x)
  <2>1. SUFFICES ASSUME ~Active(x) PROVE FALSE
    OBVIOUS
  <2>2. high[x] + (HopLimit - 1) <= n /\ high[x] \in Nat
    BY <1>2, <1>15, <2>1
  <2>3. high[x] = 0
    BY <2>2 DEF HopLimit
  <2>4. high[entity[x].into] < high[x] /\ high[entity[x].into] \in Nat
    BY <1>2, <2>1
  <2>5. QED
    BY <2>3, <2>4
<1>17. Resolve(e) = x
  BY <1>15, <1>16 DEF Resolve, at
<1>18. QED
  BY <1>15, <1>17, EntitiesAreRows

\* New entities stand, and a step that leaves status and survivor of the others alone
\* keeps the slope.
LEMMA SlopeKept ==
  ASSUME NEW n \in Nat, Slopes(n), Ids \subseteq Ids',
         \A e \in Ids : /\ entity'[e].status = entity[e].status
                        /\ entity'[e].into = entity[e].into,
         \A e \in Ids' \ Ids : Active(e)'
  PROVE  Slopes(n)'
<1>1. PICK high : Slope(high, n)
  BY DEF Slopes
<1>2. PICK after : after = [e \in Ids' |-> IF e \in Ids THEN high[e] ELSE 0]
  OBVIOUS
<1>3. after \in [Ids' -> 0..n]
  BY <1>1, <1>2 DEF Slope
<1>4. ASSUME NEW e \in Ids'
      PROVE  IF Active(e)' THEN after[e] = 0
             ELSE entity'[e].into \in Ids' /\ after[entity'[e].into] < after[e]
  <2>1. CASE e \in Ids
    <3>1. Active(e)' <=> Active(e)
      BY <2>1 DEF Active
    <3>2. after[e] = high[e]
      BY <1>2, <2>1
    <3>3. CASE Active(e)
      BY <1>1, <2>1, <3>1, <3>2, <3>3 DEF Slope
    <3>4. CASE ~Active(e)
      <4>1. PICK y \in Ids : y = entity[e].into /\ high[y] < high[e]
        BY <1>1, <2>1, <3>4 DEF Slope
      <4>2. after[y] = high[y] /\ y \in Ids' /\ entity'[e].into = y
        BY <1>2, <2>1, <4>1
      <4>3. QED
        BY <3>1, <3>2, <3>4, <4>1, <4>2
    <3>5. QED
      BY <3>3, <3>4
  <2>2. CASE e \notin Ids
    BY <1>2, <2>2
  <2>3. QED
    BY <2>1, <2>2
<1>5. Slope(after, n)'
  BY <1>3, <1>4 DEF Slope
<1>6. QED
  BY <1>5 DEF Slopes

\* A merge of one entity that stands into another makes the slope one higher.
LEMMA MergeRaisesSlope ==
  ASSUME TypeOK, RowsAreSound, NEW n \in Nat, Slopes(n),
         NEW m, Active(m), NEW t, Active(t), m # t,
         MergeEntities({m}, t)
  PROVE  Slopes(n + 1)' /\ Ids' = Ids
<1>1. PICK high : Slope(high, n)
  BY DEF Slopes
<1>2. /\ high \in [Ids -> 0..n]
      /\ \A e \in Ids : Active(e) => high[e] = 0
      /\ \A e \in Ids : ~Active(e) => entity[e].into \in Ids /\ high[entity[e].into] < high[e]
  BY <1>1 DEF Slope
<1>3. /\ m \in Ids /\ t \in Ids /\ Ids' = Ids
      /\ \A e \in Ids : entity[e] \in EntityRow
      /\ \A e \in Ids : e # m => /\ entity'[e].status = entity[e].status
                                 /\ entity'[e].into = entity[e].into
      /\ entity'[m].status = "merged" /\ entity'[m].into = t
  <2>1. PICK keys, strong :
          entity' = [e \in Ids |->
            IF e = t THEN WithKeys(entity[e], keys, strong)
            ELSE IF e \in {m} THEN [entity[e] EXCEPT !.status = "merged", !.into = t]
            ELSE entity[e]]
    BY DEF MergeEntities
  <2>2. m \in Ids /\ t \in Ids /\ \A e \in Ids : entity[e] \in EntityRow
    BY EntitiesAreRows DEF Active
  <2>3. Ids' = Ids
    <3>1. {m} \in SUBSET Ids /\ t \notin {m}
      BY <2>2
    <3>2. QED
      BY <2>2, <3>1, MergeIsSound
  <2>4. /\ WithKeys(entity[t], keys, strong).status = entity[t].status
        /\ WithKeys(entity[t], keys, strong).into = entity[t].into
    BY <2>2 DEF WithKeys, EntityRow
  <2>5. entity'[t] = WithKeys(entity[t], keys, strong)
    BY <2>1, <2>2
  <2>6. \A e \in Ids : e # t /\ e # m => entity'[e] = entity[e]
    BY <2>1
  <2>7. entity'[m] = [entity[m] EXCEPT !.status = "merged", !.into = t]
    BY <2>1, <2>2
  <2>8. entity'[m].status = "merged" /\ entity'[m].into = t
    BY <2>2, <2>7 DEF EntityRow
  <2>9. ASSUME NEW e \in Ids, e # m
        PROVE  entity'[e].status = entity[e].status /\ entity'[e].into = entity[e].into
    BY <2>4, <2>5, <2>6, <2>9
  <2>10. QED
    BY <2>2, <2>3, <2>8, <2>9
<1>4. \A e \in Ids : Active(e)' <=> Active(e) /\ e # m
  BY <1>3 DEF Active
<1>5. PICK after : after = [e \in Ids |-> IF Active(e) /\ e # m THEN 0 ELSE high[e] + 1]
  OBVIOUS
<1>6. after \in [Ids -> 0..(n + 1)]
  BY <1>2, <1>5
<1>7. \A e \in Ids : high[e] \in Nat
  BY <1>2
<1>8. ASSUME NEW e \in Ids
      PROVE  IF Active(e)' THEN after[e] = 0
             ELSE entity'[e].into \in Ids /\ after[entity'[e].into] < after[e]
  <2>1. CASE Active(e) /\ e # m
    BY <1>4, <1>5, <2>1
  <2>2. CASE e = m
    <3>1. entity'[e].into = t /\ after[t] = 0
      BY <1>3, <1>5, <2>2
    <3>2. after[e] = high[e] + 1
      BY <1>5, <2>2
    <3>3. ~Active(e)'
      BY <1>4, <2>2
    <3>4. QED
      BY <1>3, <1>7, <3>1, <3>2, <3>3
  <2>3. CASE ~Active(e) /\ e # m
    <3>1. PICK y \in Ids : y = entity[e].into /\ high[y] < high[e]
      BY <1>2, <2>3
    <3>2. entity'[e].into = y /\ ~Active(e)' /\ after[e] = high[e] + 1
      BY <1>3, <1>4, <1>5, <2>3, <3>1
    <3>3. after[y] = 0 \/ after[y] = high[y] + 1
      BY <1>5
    <3>4. after[y] < after[e]
      BY <1>7, <3>1, <3>2, <3>3
    <3>5. QED
      BY <3>1, <3>2, <3>4
  <2>4. QED
    BY <2>1, <2>2, <2>3
<1>9. Slope(after, n + 1)'
  BY <1>3, <1>6, <1>8 DEF Slope
<1>10. QED
  BY <1>3, <1>9 DEF Slopes

\* One merge at most for each decision that has been read, and one that is pending may
\* still bring another.
Terraced(s) ==
  \E n \in Nat : Slopes(n) /\ n + (IF desk[s] = {} THEN 0 ELSE 1) + budget.decide <= MaxDecisions

StewardInv(s) == Inv /\ RulingsAreFresh /\ Terraced(s)

\* Steps of runs and releases leave the desk alone and merge nothing.
LEMMA OthersKeepTerraces ==
  ASSUME NEW s \in Stewards, Stewards = {s}, StewardInv(s), Inv',
         UNCHANGED <<desk, budget.decide>>, Ids \subseteq Ids',
         \A e \in Ids : /\ entity'[e].status = entity[e].status
                        /\ entity'[e].into = entity[e].into,
         \A e \in Ids' \ Ids : Active(e)'
  PROVE  StewardInv(s)'
<1>1. RulingsAreFresh'
  <2>1. \A e : Active(e) => Active(e)'
    BY DEF Active
  <2>2. QED
    BY <2>1 DEF StewardInv, RulingsAreFresh
<1>2. PICK n \in Nat :
        Slopes(n) /\ n + (IF desk[s] = {} THEN 0 ELSE 1) + budget.decide <= MaxDecisions
  BY DEF StewardInv, Terraced
<1>3. Slopes(n)'
  BY <1>2, SlopeKept
<1>4. Terraced(s)'
  BY <1>2, <1>3 DEF Terraced
<1>5. QED
  BY <1>1, <1>4 DEF StewardInv

\* What Write does to the rows of entities that exist, and to those it adds.
LEMMA WriteKeepsStatus ==
  ASSUME Inv, NEW p \in Runs, Write(p)
  PROVE  /\ Ids \subseteq Ids'
         /\ \A e \in Ids : /\ entity'[e].status = entity[e].status
                           /\ entity'[e].into = entity[e].into
         /\ \A e \in Ids' \ Ids : Active(e)'
<1>1. PICK d \in run[p].found : JoinEntity(d) \/ FoundEntity(d)
  BY DEF Write
<1>2. entity \in Seq(EntityRow) /\ Len(entity) \in Nat /\ \A e \in Ids : entity[e] \in EntityRow
  BY EntitiesAreRows DEF Inv, TypeOK
<1>3. CASE JoinEntity(d)
  <2>1. PICK keys, strong : entity' = [entity EXCEPT ![d.match] = WithKeys(@, keys, strong)]
    BY <1>3 DEF JoinEntity
  <2>2. d.match \in Ids
    BY <1>1, <1>3 DEF JoinEntity, Inv, PendingIsSound
  <2>3. Ids' = Ids
    BY <1>2, <2>1 DEF Ids
  <2>4. \A e \in Ids : entity'[e] = IF e = d.match THEN WithKeys(entity[e], keys, strong) ELSE entity[e]
    BY <1>2, <2>1 DEF Ids
  <2>5. ASSUME NEW e \in Ids
        PROVE  entity'[e].status = entity[e].status /\ entity'[e].into = entity[e].into
    <3>1. /\ WithKeys(entity[e], keys, strong).status = entity[e].status
          /\ WithKeys(entity[e], keys, strong).into = entity[e].into
      BY <1>2 DEF WithKeys, EntityRow
    <3>2. QED
      BY <2>4, <3>1
  <2>6. QED
    BY <2>3, <2>5
<1>4. CASE FoundEntity(d)
  <2>1. PICK row : entity' = Append(entity, row) /\ row.status = "active"
    BY <1>4 DEF FoundEntity
  <2>2. /\ Len(entity') = Len(entity) + 1
        /\ \A e \in 1..Len(entity) : entity'[e] = entity[e]
        /\ entity'[Len(entity) + 1] = row
    BY <1>2, <2>1
  <2>3. QED
    BY <1>2, <2>1, <2>2 DEF Ids, Active
<1>5. QED
  BY <1>1, <1>3, <1>4

\* What a steward has read of both sides stands.
LEMMA ReadKeepsTerraces ==
  ASSUME NEW s \in Stewards, Stewards = {s}, StewardInv(s), Inv', NEW c \in cand,
         NEW verdict \in {"accepted", "rejected"}, ReadCandidate(s, c, verdict)
  PROVE  StewardInv(s)'
<1> DEFINE merged == IF verdict = "accepted" THEN Resolve(link[c.record].entity) ELSE NoEntity
           surviving == IF verdict = "accepted" THEN Resolve(c.entity) ELSE NoEntity
           d == [record |-> c.record, entity |-> c.entity, verdict |-> verdict,
                 merged |-> merged, surviving |-> surviving]
<1>1. /\ desk[s] = {} /\ budget.decide > 0
      /\ verdict = "accepted" => merged # NoEntity /\ surviving # NoEntity
      /\ desk' = [desk EXCEPT ![s] = {d}]
      /\ budget' = [budget EXCEPT !.decide = @ - 1]
      /\ UNCHANGED entity
  BY DEF ReadCandidate, rows
<1>2. desk \in [Stewards -> SUBSET Ruling] /\ budget \in Budget
  BY DEF StewardInv, Inv, TypeOK
<1>3. verdict = "accepted" => Active(merged) /\ Active(surviving)
  BY <1>1, ResolveIsActive
<1>4. \A e : Active(e)' <=> Active(e)
  BY <1>1 DEF Active, Ids
<1> HIDE DEF merged, surviving
<1>5. desk'[s] = {d}
  BY <1>1, <1>2
<1>6. RulingsAreFresh'
  <2>1. SUFFICES ASSUME NEW x \in desk'[s], x.verdict = "accepted"
                 PROVE  Active(x.merged)' /\ Active(x.surviving)'
    BY DEF RulingsAreFresh
  <2>2. x = d
    BY <1>5, <2>1
  <2>3. verdict = "accepted" /\ x.merged = merged /\ x.surviving = surviving
    BY <2>1, <2>2
  <2>4. QED
    BY <1>3, <1>4, <2>3
<1> HIDE DEF d
<1>7. PICK n \in Nat : Slopes(n) /\ n + 0 + budget.decide <= MaxDecisions
  BY <1>1 DEF StewardInv, Terraced
<1>8. Slopes(n)'
  <2>1. Ids' = Ids
    BY <1>1 DEF Ids
  <2>2. QED
    BY <1>1, <1>7, <2>1, SlopeKept
<1>9. budget'.decide = budget.decide - 1 /\ budget.decide \in Nat
  BY <1>1, <1>2 DEF Budget
<1>10. n + 1 + budget'.decide <= MaxDecisions
  BY <1>7, <1>9, BoundAssumption
<1>11. desk'[s] # {}
  BY <1>5
<1>12. Terraced(s)'
  BY <1>8, <1>10, <1>11 DEF Terraced
<1>13. QED
  BY <1>6, <1>12 DEF StewardInv

\* The decision is written: what it merges still stands, since nobody else merges.
LEMMA RuleKeepsTerraces ==
  ASSUME NEW s \in Stewards, Stewards = {s}, StewardInv(s), Inv', Rule(s)
  PROVE  StewardInv(s)'
<1>1. PICK d \in desk[s] :
        IF d.verdict = "accepted" /\ d.merged # d.surviving
        THEN MergeEntities({d.merged}, d.surviving)
        ELSE UNCHANGED <<entity, link, merges>>
  BY DEF Rule
<1>2. UNCHANGED budget /\ desk' = [desk EXCEPT ![s] = {}]
  BY DEF Rule
<1>3. desk \in [Stewards -> SUBSET Ruling] /\ TypeOK /\ RowsAreSound /\ budget.decide \in Nat
  BY DEF StewardInv, Inv, TypeOK, Budget
<1>4. desk'[s] = {}
  BY <1>2, <1>3
<1>5. RulingsAreFresh'
  BY <1>4 DEF RulingsAreFresh
<1>6. PICK n \in Nat : Slopes(n) /\ n + 1 + budget.decide <= MaxDecisions
  BY <1>1 DEF StewardInv, Terraced
<1>7. CASE d.verdict = "accepted" /\ d.merged # d.surviving
  <2>1. Active(d.merged) /\ Active(d.surviving)
    BY <1>1, <1>7 DEF StewardInv, RulingsAreFresh
  <2>2. Slopes(n + 1)'
    BY <1>1, <1>3, <1>6, <1>7, <2>1, MergeRaisesSlope
  <2>3. n + 1 \in Nat /\ (n + 1) + 0 + budget'.decide <= MaxDecisions
    BY <1>2, <1>3, <1>6, BoundAssumption
  <2>4. QED
    BY <1>4, <1>5, <2>2, <2>3 DEF StewardInv, Terraced
<1>8. CASE ~(d.verdict = "accepted" /\ d.merged # d.surviving)
  <2>1. UNCHANGED entity
    BY <1>1, <1>8
  <2>2. Ids' = Ids
    BY <2>1 DEF Ids
  <2>3. Slopes(n)'
    BY <1>6, <2>1, <2>2, SlopeKept
  <2>4. n + 0 + budget'.decide <= MaxDecisions
    BY <1>2, <1>3, <1>6, BoundAssumption
  <2>5. QED
    BY <1>4, <1>5, <2>3, <2>4 DEF StewardInv, Terraced
<1>9. QED
  BY <1>7, <1>8

LEMMA StewardInvIsInductive ==
  ASSUME NEW s \in Stewards, Stewards = {s}
  PROVE  StewardInv(s) /\ [Resolution]_vars => StewardInv(s)'
<1>1. SUFFICES ASSUME StewardInv(s), [Resolution]_vars PROVE StewardInv(s)'
  OBVIOUS
<1>2. Inv'
  BY <1>1, InvIsInductive DEF StewardInv, Next
<1>3. ASSUME UNCHANGED entity, UNCHANGED desk, budget'.decide = budget.decide
      PROVE  StewardInv(s)'
  <2>1. Ids' = Ids
    BY <1>3 DEF Ids
  <2>2. QED
    BY <1>1, <1>2, <1>3, <2>1, OthersKeepTerraces
<1>4. ASSUME NEW r \in Records, Release(r) PROVE StewardInv(s)'
  BY <1>3, <1>4 DEF Release, rows
<1>5. ASSUME NEW p \in Runs, NEW b \in Batches, StartRun(p, b) PROVE StewardInv(s)'
  <2>1. UNCHANGED <<entity, desk>> /\ budget' = [budget EXCEPT !.run = @ - 1]
    BY <1>5 DEF StartRun, rows
  <2>2. budget \in Budget
    BY <1>1 DEF StewardInv, Inv, TypeOK
  <2>3. budget'.decide = budget.decide
    BY <2>1, <2>2 DEF Budget
  <2>4. QED
    BY <1>3, <2>1, <2>3
<1>6. ASSUME NEW p \in Runs, Lookup(p) PROVE StewardInv(s)'
  BY <1>3, <1>6 DEF Lookup, rows
<1>7. ASSUME NEW p \in Runs, Crash(p) PROVE StewardInv(s)'
  BY <1>3, <1>7 DEF Crash, rows
<1>8. ASSUME NEW p \in Runs, Write(p) PROVE StewardInv(s)'
  <2>1. UNCHANGED <<desk, budget.decide>>
    BY <1>8 DEF Write
  <2>2. Inv
    BY <1>1 DEF StewardInv
  <2>3. QED
    BY <1>1, <1>2, <1>8, <2>1, <2>2, WriteKeepsStatus, OthersKeepTerraces
<1>9. ASSUME NEW t \in Stewards, NEW c \in cand, NEW verdict \in {"accepted", "rejected"},
             ReadCandidate(t, c, verdict)
      PROVE  StewardInv(s)'
  BY <1>1, <1>2, <1>9, ReadKeepsTerraces
<1>10. ASSUME NEW t \in Stewards, Rule(t) PROVE StewardInv(s)'
  BY <1>1, <1>2, <1>10, RuleKeepsTerraces
<1>11. CASE UNCHANGED vars
  BY <1>3, <1>11 DEF vars
<1>12. QED
  BY <1>1, <1>4, <1>5, <1>6, <1>7, <1>8, <1>9, <1>10, <1>11 DEF Resolution

\* "Any id already handed out downstream still resolves": with any number of runs at
\* once, one steward and no reblock, as long as the decisions are fewer than the
\* tombstones that resolve_entity_id will follow.
THEOREM IdsResolve ==
  ASSUME NEW s \in Stewards, Stewards = {s}, MaxDecisions < HopLimit
  PROVE  ResolutionSpec => []EveryIdResolves
<1>1. Init => StewardInv(s)
  <2>1. SUFFICES ASSUME Init PROVE StewardInv(s)
    OBVIOUS
  <2>2. RulingsAreFresh /\ desk[s] = {} /\ budget.decide = MaxDecisions /\ Ids = {}
    BY <2>1 DEF Init, RulingsAreFresh, Ids
  <2>3. PICK high : high = [e \in {} |-> 0]
    OBVIOUS
  <2>4. Slope(high, 0)
    BY <2>2, <2>3 DEF Slope
  <2>5. Slopes(0)
    BY <2>4 DEF Slopes
  <2>6. 0 \in Nat /\ 0 + 0 + budget.decide <= MaxDecisions
    BY <2>2, BoundAssumption
  <2>7. Terraced(s)
    BY <2>2, <2>5, <2>6 DEF Terraced
  <2>8. QED
    BY <2>1, <2>2, <2>7, InvHoldsInitially DEF StewardInv
<1>2. StewardInv(s) => EveryIdResolves
  <2>1. SUFFICES ASSUME StewardInv(s), NEW e \in Ids PROVE Resolve(e) # NoEntity
    BY DEF EveryIdResolves
  <2>2. TypeOK /\ budget.decide \in Nat
    BY <2>1 DEF StewardInv, Inv, TypeOK, Budget
  <2>3. PICK n \in Nat :
          Slopes(n) /\ n + (IF desk[s] = {} THEN 0 ELSE 1) + budget.decide <= MaxDecisions
    BY <2>1 DEF StewardInv, Terraced
  <2>4. n < HopLimit
    BY <2>2, <2>3, BoundAssumption DEF HopLimit
  <2>5. QED
    BY <2>2, <2>3, <2>4, SlopesResolve
<1>3. StewardInv(s) /\ [Resolution]_vars => StewardInv(s)'
  BY StewardInvIsInductive
<1>4. QED
  BY <1>1, <1>2, <1>3, PTL DEF ResolutionSpec

=============================================================================
