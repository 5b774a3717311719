---------------------------- MODULE MappingProofs ----------------------------
(***************************************************************************)
(* Proofs about SchemaMapping, for every vocabulary, every evidence, all    *)
(* mappers, normalizers, batches and records, and every bound.             *)
(***************************************************************************)
EXTENDS SchemaMapping, WellFoundedInduction, TLAPS

---------------------------------------------------------------------------
(* The inductive invariants.                                               *)

Label == [field : FieldNames \cup {NoField}, subject : {Self, "employer"},
          status : Statuses \cup {"none"}]

RunType(n) ==
  run[n] = Idle \/ /\ run[n].mapping \in MappingType
                   /\ run[n].asof \in 0..reviews
                   /\ run[n].todo \subseteq RowsOf(run[n].batch)

Types ==
  /\ names \in Layouts /\ values \in Samples
  /\ reviews \in Nat
  /\ schema \in MappingType \cup {NoSchema}
  /\ DOMAIN mapper = Mappers
  /\ \A p \in Mappers : mapper[p] = Idle \/ mapper[p].mapping \in MappingType
  /\ label \in [Records -> [Columns -> [Indices -> Label]]]
  /\ DOMAIN run = Normalizers
  /\ \A n \in Normalizers : RunType(n)
  /\ normalized \in [Batches -> -1..reviews]

\* Whatever the engine confirmed in m by itself, it confirmed for one column.
Apart(m) ==
  \A c, d \in Columns :
    /\ c # d
    /\ m[c].status \in Accepted /\ m[d].status \in Accepted
    /\ m[c].field = m[d].field /\ m[c].subject = m[d].subject
    => m[c].method = "manual" \/ m[d].method = "manual"

AllApart ==
  /\ schema # NoSchema => Apart(schema)
  /\ \A p \in Mappers : mapper[p] # Idle => Apart(mapper[p].mapping)

\* The answers that a label or a mapping in use gives are on record.
AllConfirmed ==
  /\ schema # NoSchema => Confirms(schema) \subseteq confirmed
  /\ \A n \in Normalizers : run[n] # Idle => Confirms(run[n].mapping) \subseteq confirmed
  /\ LabelsWereConfirmed

\* The cells of r are labelled as m says.
Shows(r, m) ==
  \A c \in Columns : \A i \in Parts(r, c, m[c]) : label[r][c][i] = Labelled(m[c])

\* A run that knows every decision writes what the mapping says, and no batch is ahead
\* of the run that is under way.
RunAgrees(n) ==
  run[n] # Idle =>
    /\ schema # NoSchema
    /\ run[n].asof = reviews => run[n].mapping = schema
    /\ \A b \in Batches : normalized[b] <= run[n].asof
    /\ \A r \in RowsOf(run[n].batch) \ run[n].todo : Shows(r, run[n].mapping)

BatchAgrees(b) ==
  normalized[b] = reviews => \A r \in RowsOf(b) : Shows(r, schema)

AllAgree ==
  /\ schema = NoSchema => \A b \in Batches : normalized[b] = -1
  /\ \A n \in Normalizers : RunAgrees(n)
  /\ \A b \in Batches : BatchAgrees(b)

\* The consumer of normalization is the only one that normalizes.
OneNormalizer == \A m, n \in Normalizers : m = n

---------------------------------------------------------------------------
(* What the engine derives.                                                *)

\* The evidence that a column can have.
Possible(e) ==
  /\ e.similar \in [Fields -> 0..100]
  /\ \A f \in Fields :
       Vocabulary[f].detector # NoDetector => e.ratio[Vocabulary[f].detector] \in 0..100

Methods == {"exact_alias", "corroborated", "ambiguous_alias", "similarity",
            "value_analysis", "none"}

LEMMA MethodsAreRanked == DOMAIN MethodRank = Methods
BY DEF MethodRank, Methods

LEMMA LeastNumber ==
  ASSUME NEW T \in SUBSET Nat, T # {}
  PROVE  \E x \in T : \A y \in T : x <= y
<1>1. PICK x \in T : \A y \in T : ~(<<y, x>> \in OpToRel(<, Nat))
  BY NatLessThanWellFounded, WFMin
<1>2. \A y \in T : ~(y < x)
  BY <1>1 DEF OpToRel
<1>3. QED
  BY <1>2

LEMMA RatiosArePercentages ==
  ASSUME NEW e, Possible(e), NEW f \in Fields
  PROVE  Ratio(e, f) \in 0..100
BY DEF Possible, Ratio

\* Every candidate is for a field of the vocabulary, with the confidence that a review
\* needs, and it has a place in the list.
LEMMA CandidatesAreForFields ==
  ASSUME NEW e, Possible(e), NEW x \in Candidates(e)
  PROVE  /\ x.spec \in Fields
         /\ x.method \in Methods
         /\ x.confidence \in 60..100
         /\ \E k \in 1..4 : x.place = <<k, x.spec>>
<1>1. CASE x \in AliasCandidates(e)
  BY <1>1 DEF AliasCandidates, Candidate, Methods, AmbiguousAliasConfidence
<1>2. ASSUME NEW y \in SimilarityCandidates(e)
      PROVE  /\ y.spec \in Fields /\ y.method = "similarity"
             /\ y.confidence \in 60..100 /\ y.place = <<2, y.spec>>
  <2>1. PICK f \in Fields : e.similar[f] >= 60 /\ y = Candidate(2, f, "similarity", e.similar[f])
    BY <1>2 DEF SimilarityCandidates, ReviewThreshold
  <2>2. e.similar[f] \in 60..100
    BY <2>1 DEF Possible
  <2>3. QED
    BY <2>1, <2>2 DEF Candidate
<1>3. CASE x \in SimilarityCandidates(e)
  BY <1>2, <1>3 DEF Methods
<1>4. CASE x \in ValueCandidates(e)
  <2>1. PICK f \in Originating(e) :
          x = Candidate(3, f, "value_analysis", Smaller(ValueAnalysisCap, Ratio(e, f)))
    BY <1>4 DEF ValueCandidates
  <2>2. f \in Fields /\ Ratio(e, f) >= 60
    BY <2>1 DEF Originating, SupportedByValues, ValueAnalysisMinRatio
  <2>3. Smaller(ValueAnalysisCap, Ratio(e, f)) \in 60..100
    BY <2>2, RatiosArePercentages DEF Smaller, ValueAnalysisCap
  <2>4. QED
    BY <2>1, <2>2, <2>3 DEF Candidate, Methods
<1>5. CASE x \in CorroboratedCandidates(e)
  <2>1. PICK y \in SimilarityCandidates(e) :
          x = Candidate(4, y.spec, "corroborated",
                        Smaller(CorroborationCap, y.confidence + CorroborationBoost))
    BY <1>5 DEF CorroboratedCandidates
  <2>2. y.spec \in Fields /\ y.confidence \in 60..100
    BY <1>2
  <2>3. Smaller(CorroborationCap, y.confidence + CorroborationBoost) \in 60..100
    BY <2>2 DEF Smaller, CorroborationCap, CorroborationBoost
  <2>4. QED
    BY <2>1, <2>2, <2>3 DEF Candidate, Methods
<1>6. QED
  BY <1>1, <1>3, <1>4, <1>5 DEF Candidates

\* A place has one candidate: the sort has no ties to break by chance.
LEMMA OneCandidateAtAPlace ==
  ASSUME NEW e, Possible(e), NEW x \in Candidates(e), NEW y \in Candidates(e),
         x.place = y.place
  PROVE  x = y
<1> DEFINE From(k, z) ==
      \/ k = 1 /\ z \in AliasCandidates(e)
      \/ k = 2 /\ z \in SimilarityCandidates(e)
      \/ k = 3 /\ z \in ValueCandidates(e)
      \/ k = 4 /\ z \in CorroboratedCandidates(e)
<1>1. ASSUME NEW z \in Candidates(e)
      PROVE  \E k \in 1..4 : From(k, z) /\ z.place = <<k, z.spec>>
  <2>1. CASE z \in AliasCandidates(e)
    BY <2>1 DEF AliasCandidates, Candidate
  <2>2. CASE z \in SimilarityCandidates(e)
    BY <2>2 DEF SimilarityCandidates, Candidate
  <2>3. CASE z \in ValueCandidates(e)
    BY <2>3 DEF ValueCandidates, Candidate
  <2>4. CASE z \in CorroboratedCandidates(e)
    BY <2>4 DEF CorroboratedCandidates, Candidate
  <2>5. QED
    BY <2>1, <2>2, <2>3, <2>4 DEF Candidates
<1>2. PICK k \in 1..4 : From(k, x) /\ x.place = <<k, x.spec>>
  BY <1>1
<1>3. PICK j \in 1..4 : From(j, y) /\ y.place = <<j, y.spec>>
  BY <1>1
<1>4. k = j /\ x.spec = y.spec
  <2>1. <<k, x.spec>> = <<j, y.spec>>
    BY <1>2, <1>3
  <2>2. QED
    BY <2>1
<1>5. CASE k = 1
  BY <1>2, <1>3, <1>4, <1>5 DEF AliasCandidates, Candidate
<1>6. ASSUME NEW u \in SimilarityCandidates(e), NEW v \in SimilarityCandidates(e),
             u.spec = v.spec
      PROVE  u = v
  BY <1>6 DEF SimilarityCandidates, Candidate
<1>7. CASE k = 2
  BY <1>2, <1>3, <1>4, <1>6, <1>7
<1>8. CASE k = 3
  BY <1>2, <1>3, <1>4, <1>8 DEF ValueCandidates, Candidate
<1>9. CASE k = 4
  <2>1. x \in CorroboratedCandidates(e) /\ y \in CorroboratedCandidates(e)
    BY <1>2, <1>3, <1>4, <1>9
  <2>2. PICK u \in SimilarityCandidates(e) :
          x = Candidate(4, u.spec, "corroborated",
                        Smaller(CorroborationCap, u.confidence + CorroborationBoost))
    BY <2>1 DEF CorroboratedCandidates
  <2>3. PICK v \in SimilarityCandidates(e) :
          y = Candidate(4, v.spec, "corroborated",
                        Smaller(CorroborationCap, v.confidence + CorroborationBoost))
    BY <2>1 DEF CorroboratedCandidates
  <2>4. u.spec = v.spec
    BY <1>4, <2>2, <2>3 DEF Candidate
  <2>5. u = v
    BY <1>6, <2>4
  <2>6. QED
    BY <2>2, <2>3, <2>5
<1>10. QED
  BY <1>5, <1>7, <1>8, <1>9

\* The best candidate of a column that has any is one of its candidates.
LEMMA BestIsACandidate ==
  ASSUME NEW e, Possible(e), Candidates(e) # {}
  PROVE  Best(Candidates(e)) \in Candidates(e)
<1> DEFINE S == Candidates(e)
           Doubts == {100 - x.confidence : x \in S}
<1>1. \A x \in S : /\ x.confidence \in 60..100
                   /\ x.place[1] \in Nat /\ x.place[2] \in Nat
                   /\ x.place = <<x.place[1], x.place[2]>>
  <2>1. Fields \subseteq Nat
    BY VocabularyAssumption
  <2>2. TAKE x \in S
  <2>3. x.confidence \in 60..100 /\ x.spec \in Fields
    BY CandidatesAreForFields
  <2>4. PICK k \in 1..4 : x.place = <<k, x.spec>>
    BY CandidatesAreForFields
  <2>5. x.place[1] = k /\ x.place[2] = x.spec
    BY <2>4
  <2>6. x.place[1] \in Nat /\ x.place[2] \in Nat
    <3>1. k \in Nat
      OBVIOUS
    <3>2. x.spec \in Fields
      BY <2>3
    <3>3. x.spec \in Nat
      BY <2>1, <3>2, Zenon
    <3>4. QED
      BY <2>5, <3>1, <3>3
  <2>7. x.place = <<x.place[1], x.place[2]>>
    BY <2>4, <2>5
  <2>8. QED
    BY <2>3, <2>6, <2>7
<1>2. PICK surest \in S : \A x \in S : x.confidence <= surest.confidence
  <2>1. Doubts \in SUBSET Nat /\ Doubts # {}
    BY <1>1
  <2>2. PICK n \in Doubts : \A m \in Doubts : n <= m
    BY <2>1, LeastNumber
  <2>3. PICK x \in S : n = 100 - x.confidence
    BY <2>2
  <2>4. \A y \in S : 100 - x.confidence <= 100 - y.confidence
    BY <2>2, <2>3
  <2>5. \A y \in S : y.confidence <= x.confidence
    BY <1>1, <2>4
  <2>6. QED
    BY <2>5
<1> DEFINE top == {x \in S : x.confidence = surest.confidence}
           Blocks == {x.place[1] : x \in top}
<1>3. PICK first \in top : \A x \in top : first.place[1] <= x.place[1]
  <2>1. Blocks \in SUBSET Nat /\ Blocks # {}
    BY <1>1, <1>2
  <2>2. PICK n \in Blocks : \A m \in Blocks : n <= m
    BY <2>1, LeastNumber
  <2>3. QED
    BY <2>2
<1> DEFINE early == {x \in top : x.place[1] = first.place[1]}
           Specs == {x.place[2] : x \in early}
<1>4. PICK best \in early : \A x \in early : best.place[2] <= x.place[2]
  <2>1. Specs \in SUBSET Nat /\ Specs # {}
    BY <1>1, <1>3
  <2>2. PICK n \in Specs : \A m \in Specs : n <= m
    BY <2>1, LeastNumber
  <2>3. QED
    BY <2>2
<1>5. best \in S /\ best.confidence = surest.confidence /\ best.place[1] = first.place[1]
  BY <1>3, <1>4
<1>6. ASSUME NEW d \in S \ {best}
      PROVE  \/ d.confidence < best.confidence
             \/ d.confidence = best.confidence /\ Before(best.place, d.place)
  <2>1. CASE d.confidence # best.confidence
    <3>1. d.confidence <= best.confidence
      BY <1>2, <1>5
    <3>2. QED
      BY <1>1, <1>5, <2>1, <3>1
  <2>2. CASE d.confidence = best.confidence
    <3>1. d \in top
      BY <1>5, <2>2
    <3>2. best.place[1] <= d.place[1]
      BY <1>3, <1>5, <3>1
    <3>3. best.place # d.place
      BY <1>5, OneCandidateAtAPlace
    <3>4. best.place[1] \in Nat /\ d.place[1] \in Nat /\ best.place[2] \in Nat
          /\ d.place[2] \in Nat
      BY <1>1, <1>5
    <3>5. best.place = <<best.place[1], best.place[2]>> /\ d.place = <<d.place[1], d.place[2]>>
      BY <1>1, <1>5
    <3>6. d.place[1] = best.place[1] => best.place[2] <= d.place[2]
      BY <1>4, <1>5, <3>1
    <3>7. d.place[1] = best.place[1] => best.place[2] # d.place[2]
      BY <3>3, <3>5
    <3>8. Before(best.place, d.place)
      BY <3>2, <3>4, <3>6, <3>7 DEF Before
    <3>9. QED
      BY <2>2, <3>8
  <2>3. QED
    BY <2>1, <2>2
<1>7. \E x \in S : \A d \in S \ {x} :
          \/ d.confidence < x.confidence
          \/ d.confidence = x.confidence /\ Before(x.place, d.place)
  BY <1>5, <1>6
<1>8. QED
  BY <1>7 DEF Best

\* One entry of a mapping that nobody has reviewed.
Derived == [field : FieldNames \cup {NoField}, subject : {Self, "employer"},
            method : Methods, status : {"auto_accepted", "needs_review", "unmapped"}]

\* The engine answers with a field of the vocabulary and the subject it is about, and
\* confirms nothing for a column it has no field for.
LEMMA ColumnIsMapped ==
  ASSUME NEW e, Possible(e)
  PROVE  /\ MapColumn(e) \in Derived
         /\ MapColumn(e).status = "auto_accepted" => MapColumn(e).field # NoField
<1>1. CASE Candidates(e) = {}
  <2>1. MapColumn(e) = Unmapped
    BY <1>1 DEF MapColumn
  <2>2. QED
    BY <2>1 DEF Unmapped, Derived, Methods
<1>2. CASE Candidates(e) # {}
  <2>1. PICK best \in Candidates(e) : best = Best(Candidates(e))
    BY <1>2, BestIsACandidate
  <2>2. best.spec \in Fields /\ best.method \in Methods /\ best.confidence \in 60..100
    BY CandidatesAreForFields
  <2>3. PICK status : status = IF best.method = "ambiguous_alias" THEN "needs_review"
                               ELSE StatusFor(best.confidence)
    OBVIOUS
  <2>4. status \in {"auto_accepted", "needs_review"}
    BY <2>2, <2>3 DEF StatusFor, ReviewThreshold
  <2>5. MapColumn(e) = [field |-> Vocabulary[best.spec].name,
                        subject |-> Vocabulary[best.spec].subject,
                        method |-> best.method, status |-> status]
    BY <1>2, <2>1, <2>3 DEF MapColumn
  <2>6. /\ Vocabulary[best.spec].name \in FieldNames \ {NoField}
        /\ Vocabulary[best.spec].subject \in {Self, "employer"}
    BY <2>2, VocabularyAssumption DEF FieldNames
  <2>7. QED
    BY <2>2, <2>4, <2>5, <2>6 DEF Derived
<1>3. QED
  BY <1>1, <1>2

\* A settled entry is what the column was mapped to, or nobody's, or a question.
LEMMA SettledEntry ==
  ASSUME NEW m, NEW c \in Columns, m[c] \in Derived
  PROVE  /\ Settled(m, c) \in Derived
         /\ Settled(m, c).status = "auto_accepted" =>
              /\ Settled(m, c) = m[c]
              /\ m[c].field = NoField \/ Claimants(m, c) = {c} \/ Winners(m, c) = {c}
<1>1. PICK t : t = m[c]
  OBVIOUS
<1>2. t \in Derived
  BY <1>1
<1>3. PICK u \in Derived : u = Unmapped
  BY DEF Unmapped, Derived, Methods
<1>4. u.status = "unmapped"
  BY <1>3 DEF Unmapped
<1>5. PICK q \in Derived : q = [t EXCEPT !.status = "needs_review"]
  BY <1>2 DEF Derived
<1>6. q.status = "needs_review"
  BY <1>2, <1>5 DEF Derived
<1>7. \/ Settled(m, c) = t /\ (t.field = NoField \/ Claimants(m, c) = {c})
      \/ Settled(m, c) = u
      \/ Settled(m, c) = q
      \/ Settled(m, c) = t /\ (Winners(m, c) = {c} \/ t.status # "auto_accepted")
  BY <1>1, <1>3, <1>5 DEF Settled
<1>8. QED
  BY <1>1, <1>2, <1>4, <1>6, <1>7

\* Among the columns of any layout, with any values, the engine confirms at most one for
\* a field of a subject.
LEMMA EngineIsApart ==
  ASSUME NEW evidence, \A c \in Columns : Possible(evidence[c])
  PROVE  /\ MapColumns(evidence) \in [Columns -> Derived]
         /\ Apart(MapColumns(evidence))
<1> DEFINE m == [c \in Columns |-> MapColumn(evidence[c])]
           s == MapColumns(evidence)
<1>1. \A c \in Columns : m[c] \in Derived
                        /\ (m[c].status = "auto_accepted" => m[c].field # NoField)
  BY ColumnIsMapped
<1>2. s = [c \in Columns |-> Settled(m, c)]
  BY DEF MapColumns, ResolveCollisions
<1> HIDE DEF m, s
<1>3. \A c \in Columns :
        /\ Settled(m, c) \in Derived
        /\ Settled(m, c).status = "auto_accepted" =>
             /\ Settled(m, c) = m[c]
             /\ m[c].field = NoField \/ Claimants(m, c) = {c} \/ Winners(m, c) = {c}
  BY <1>1, SettledEntry
<1>4. s \in [Columns -> Derived]
  BY <1>2, <1>3
<1>5. \A c \in Columns : s[c].status \in Accepted => s[c].status = "auto_accepted"
  BY <1>4 DEF Derived, Accepted
<1>6. \A c \in Columns :
        s[c].status \in Accepted =>
          /\ s[c] = m[c] /\ m[c].field # NoField
          /\ Claimants(m, c) = {c} \/ Winners(m, c) = {c}
  BY <1>1, <1>2, <1>3, <1>5
<1>7. ASSUME NEW c \in Columns, NEW d \in Columns, c # d,
             s[c].status \in Accepted, s[d].status \in Accepted,
             s[c].field = s[d].field, s[c].subject = s[d].subject
      PROVE  FALSE
  <2>1. /\ m[c].field # NoField /\ m[c].field = m[d].field
        /\ m[c].subject = m[d].subject
    BY <1>6, <1>7
  <2>2. Claimants(m, c) = Claimants(m, d)
    BY <2>1 DEF Claimants
  <2>3. c \in Claimants(m, c) /\ d \in Claimants(m, c)
    BY <2>1 DEF Claimants
  <2>4. Winners(m, c) = Winners(m, d)
    BY <2>2 DEF Winners
  <2>5. Winners(m, c) = {c} /\ Winners(m, d) = {d}
    BY <1>6, <1>7, <2>2, <2>3
  <2>6. QED
    BY <1>7, <2>4, <2>5
<1>8. Apart(s)
  BY <1>7 DEF Apart
<1>9. QED
  BY <1>4, <1>8 DEF s

---------------------------------------------------------------------------
(* Types.                                                                  *)

Entry == [field : FieldNames \cup {NoField}, subject : {Self, "employer"},
          method : Methods \cup {"manual"}, status : Statuses]

LEMMA MappingsHaveEntries == MappingType = [Columns -> Entry]
BY MethodsAreRanked DEF MappingType, Entry

LEMMA DerivedIsEntry == Derived \subseteq Entry
BY DEF Derived, Entry, Statuses

LEMMA LabelledIsLabel ==
  ASSUME NEW entry \in Entry
  PROVE  /\ Labelled(entry) \in Label
         /\ Labelled(entry).field # NoField =>
              /\ entry.status \in Accepted
              /\ Labelled(entry).field = entry.field
              /\ Labelled(entry).subject = entry.subject
BY DEF Entry, Label, Labelled, Statuses

\* A mapping confirms at least the answers of the columns it accepts.
LEMMA AcceptedIsConfirmed ==
  ASSUME NEW m, NEW c \in Columns, m[c].status \in Accepted
  PROVE  <<c, m[c].field, m[c].subject>> \in Confirms(m)
BY DEF Confirms

LEMMA UpsertedCells ==
  ASSUME NEW r \in Records, NEW m, NEW c \in Columns, NEW i \in Indices
  PROVE  Upserted(r, m)[c][i]
           = IF i \in Parts(r, c, m[c]) THEN Labelled(m[c]) ELSE label[r][c][i]
BY DEF Upserted

LEMMA UpsertedType ==
  ASSUME Types, NEW r \in Records, NEW m \in MappingType
  PROVE  Upserted(r, m) \in [Columns -> [Indices -> Label]]
<1>1. m \in [Columns -> Entry]
  BY MappingsHaveEntries
<1>2. \A c \in Columns : Labelled(m[c]) \in Label
  BY <1>1, LabelledIsLabel
<1>3. label \in [Records -> [Columns -> [Indices -> Label]]]
  BY DEF Types
<1>4. ASSUME NEW c \in Columns
      PROVE  [i \in Indices |-> IF i \in Parts(r, c, m[c]) THEN Labelled(m[c])
                                ELSE label[r][c][i]] \in [Indices -> Label]
  BY <1>2, <1>3
<1>5. QED
  BY <1>4 DEF Upserted

LEMMA EvidenceIsPossible ==
  ASSUME Types, NEW b \in Batches, NEW c \in Columns
  PROVE  Possible(Evidence(b)[c])
<1>1. PICK e : e = Evidence(b)[c]
  OBVIOUS
<1>2. e.similar = names[c].similar /\ e.ratio = values[b][c]
  BY <1>1 DEF Evidence
<1>3. names[c].similar \in [Fields -> 0..100]
  BY EvidenceAssumption DEF Types
<1>4. \A f \in Fields :
        Vocabulary[f].detector # NoDetector => values[b][c][Vocabulary[f].detector] \in 0..100
  BY EvidenceAssumption DEF Types
<1>5. Possible(e)
  BY <1>2, <1>3, <1>4 DEF Possible
<1>6. QED
  BY <1>1, <1>5

LEMMA DerivationIsApart ==
  ASSUME Types, NEW b \in Batches
  PROVE  MapColumns(Evidence(b)) \in MappingType /\ Apart(MapColumns(Evidence(b)))
<1>1. \A c \in Columns : Possible(Evidence(b)[c])
  BY EvidenceIsPossible
<1>2. MapColumns(Evidence(b)) \in [Columns -> Derived] /\ Apart(MapColumns(Evidence(b)))
  BY <1>1, EngineIsApart
<1>3. QED
  BY <1>2, DerivedIsEntry, MappingsHaveEntries

\* What a person decides about a column, and that the others stay.
LEMMA DecisionEffect ==
  ASSUME Types, NEW c \in Columns, NEW field \in FieldNames \cup {NoField},
         NEW status \in {"approved", "rejected"}, Decide(c, field, status)
  PROVE  /\ schema \in MappingType /\ schema' \in MappingType
         /\ schema'[c].method = "manual"
         /\ \A d \in Columns \ {c} : schema'[d] = schema[d]
<1>1. schema \in [Columns -> Entry]
  BY MappingsHaveEntries DEF Types, Decide
<1>2. PICK t \in Entry : t = schema[c]
  BY <1>1
<1>3. PICK u : u = [t EXCEPT !.field = field, !.status = status, !.method = "manual"]
  OBVIOUS
<1>4. u \in Entry /\ u.method = "manual"
  BY <1>2, <1>3 DEF Entry, Statuses
<1>5. schema' = [schema EXCEPT ![c] = u]
  BY <1>1, <1>2, <1>3 DEF Decide
<1>6. schema' \in [Columns -> Entry] /\ schema'[c] = u
      /\ \A d \in Columns \ {c} : schema'[d] = schema[d]
  BY <1>1, <1>4, <1>5
<1>7. QED
  BY <1>1, <1>4, <1>6, MappingsHaveEntries

\* A decision is the only thing that changes a mapping that exists.
LEMMA DecisionsAreReviews ==
  ASSUME Next
  PROVE  \/ UNCHANGED <<schema, reviews>>
         \/ schema = NoSchema /\ UNCHANGED reviews
         \/ \E c \in Columns, field \in FieldNames \cup {NoField},
               status \in {"approved", "rejected"} : Decide(c, field, status)
<1>1. ASSUME NEW c \in Columns, Approve(c) \/ Reject(c)
      PROVE  \E field \in FieldNames \cup {NoField}, status \in {"approved", "rejected"} :
               Decide(c, field, status)
  BY <1>1 DEF Approve, Reject
<1>2. QED
  BY <1>1 DEF Next, Derive, Create, CreateRefused, StartNormalization, WriteObservations,
              FinishNormalization, NormalizationDies

LEMMA InitTypes == Init => Types
<1> SUFFICES ASSUME Init PROVE Types
  OBVIOUS
<1>1. NoLabel \in Label
  BY DEF NoLabel, Label
<1>2. QED
  BY <1>1 DEF Init, Types, RunType

LEMMA StepTypes ==
  ASSUME Types, [Next]_vars
  PROVE  Types'
<1> USE DEF RunType
<1>1. ASSUME NEW q \in Mappers, NEW b \in Batches, Derive(q, b)
      PROVE  Types'
  <2>1. PICK t : t.mapping \in MappingType /\ mapper' = [mapper EXCEPT ![q] = t]
    BY <1>1, DerivationIsApart DEF Derive
  <2>2. QED
    BY <1>1, <2>1 DEF Derive, Types, inputs
<1>2. ASSUME NEW q \in Mappers, Create(q)
      PROVE  Types'
  BY <1>2 DEF Create, Types, inputs
<1>3. ASSUME NEW q \in Mappers, CreateRefused(q)
      PROVE  Types'
  BY <1>3 DEF CreateRefused, Types, inputs
<1>4. ASSUME NEW c \in Columns, NEW field \in FieldNames \cup {NoField},
             NEW status \in {"approved", "rejected"}, Decide(c, field, status)
      PROVE  Types'
  <2>1. schema' \in MappingType /\ reviews' = reviews + 1
    BY <1>4, DecisionEffect DEF Decide
  <2>2. reviews \in Nat /\ normalized \in [Batches -> -1..reviews]
    BY DEF Types
  <2>3. 0..reviews \subseteq 0..(reviews + 1) /\ -1..reviews \subseteq -1..(reviews + 1)
    BY <2>2
  <2>4. \A n \in Normalizers : RunType(n)'
    BY <1>4, <2>1, <2>3 DEF Decide, Types, RowsOf
  <2>5. normalized' \in [Batches -> -1..reviews'] /\ reviews' \in Nat
    BY <1>4, <2>1, <2>2, <2>3 DEF Decide
  <2>6. QED
    BY <1>4, <2>1, <2>4, <2>5 DEF Decide, Types, inputs
<1>5. ASSUME NEW n \in Normalizers, NEW b \in Batches, StartNormalization(n, b)
      PROVE  Types'
  <2>1. PICK t : /\ t.mapping = schema /\ t.asof = reviews /\ t.todo = RowsOf(t.batch)
                 /\ run' = [run EXCEPT ![n] = t]
    BY <1>5 DEF StartNormalization, Context
  <2>2. reviews \in 0..reviews /\ schema \in MappingType
    BY <1>5 DEF Types, StartNormalization
  <2>3. \A x \in Normalizers : RunType(x)'
    BY <1>5, <2>1, <2>2 DEF StartNormalization, Types, RowsOf
  <2>4. QED
    BY <1>5, <2>1, <2>3 DEF StartNormalization, Types, inputs
<1>6. ASSUME NEW n \in Normalizers, WriteObservations(n)
      PROVE  Types'
  <2>1. PICK r \in run[n].todo :
          /\ label' = [label EXCEPT ![r] = Upserted(r, run[n].mapping)]
          /\ run' = [run EXCEPT ![n].todo = @ \ {r}]
    BY <1>6 DEF WriteObservations
  <2>2. PICK t : t = run[n]
    OBVIOUS
  <2>3. PICK u : u = [t EXCEPT !.todo = t.todo \ {r}]
    OBVIOUS
  <2>4. run' = [run EXCEPT ![n] = u]
    BY <2>1, <2>2, <2>3
  <2>5. t.mapping \in MappingType /\ t.asof \in 0..reviews /\ t.todo \subseteq RowsOf(t.batch)
    BY <1>6, <2>2 DEF WriteObservations, Types
  <2>6. u.mapping = t.mapping /\ u.asof = t.asof /\ u.batch = t.batch
        /\ u.todo \subseteq t.todo
    BY <1>6, <2>1, <2>2, <2>3 
  <2>7. r \in Records
    BY <2>1, <2>2, <2>5 DEF RowsOf
  <2>8. label' \in [Records -> [Columns -> [Indices -> Label]]]
    BY <2>1, <2>2, <2>5, <2>7, UpsertedType DEF Types
  <2>9. \A x \in Normalizers : RunType(x)'
    BY <1>6, <2>4, <2>5, <2>6 DEF WriteObservations, Types, RowsOf
  <2>10. QED
    BY <1>6, <2>4, <2>8, <2>9 DEF WriteObservations, Types, inputs
<1>7. ASSUME NEW n \in Normalizers, FinishNormalization(n)
      PROVE  Types'
  <2>1. run[n].asof \in 0..reviews /\ reviews \in Nat
    BY <1>7 DEF FinishNormalization, Types
  <2>2. run[n].asof \in -1..reviews
    BY <2>1
  <2>3. normalized' \in [Batches -> -1..reviews]
    BY <1>7, <2>2 DEF FinishNormalization, Types
  <2>4. QED
    BY <1>7, <2>3 DEF FinishNormalization, Types, inputs, RowsOf
<1>8. ASSUME NEW n \in Normalizers, NormalizationDies(n)
      PROVE  Types'
  BY <1>8 DEF NormalizationDies, Types, inputs, RowsOf
<1>9. CASE UNCHANGED vars
  BY <1>9 DEF vars, Types, RowsOf
<1>10. ASSUME NEW c \in Columns, Approve(c) \/ Reject(c)
       PROVE  Types'
  BY <1>4, <1>10 DEF Approve, Reject
<1>11. QED
  BY <1>1, <1>2, <1>3, <1>5, <1>6, <1>7, <1>8, <1>9, <1>10 DEF Next

\* The tables and the copies that mappers and normalizers hold keep their types, whatever
\* the vocabulary and the files: find_source_schema, map_columns, create_source_schema,
\* review-mappings and the normalization of batches in every order.
THEOREM TypeCorrect == Spec => []TypeOK
<1>1. Types => TypeOK
  BY DEF Types, TypeOK, RunType, Label
<1>2. QED
  BY InitTypes, StepTypes, <1>1, PTL DEF Spec

---------------------------------------------------------------------------
(* Fields are kept apart.                                                  *)

LEMMA StepApart ==
  ASSUME Types, AllApart, [Next]_vars
  PROVE  AllApart'
<1>1. ASSUME NEW q \in Mappers, NEW b \in Batches, Derive(q, b)
      PROVE  AllApart'
  <2>1. PICK t : Apart(t.mapping) /\ mapper' = [mapper EXCEPT ![q] = t]
    BY <1>1, DerivationIsApart DEF Derive
  <2>2. QED
    BY <1>1, <2>1 DEF Derive, Types, AllApart, Apart
<1>2. ASSUME NEW q \in Mappers, Create(q)
      PROVE  AllApart'
  BY <1>2 DEF Create, Types, AllApart, Apart
<1>3. ASSUME NEW q \in Mappers, CreateRefused(q)
      PROVE  AllApart'
  BY <1>3 DEF CreateRefused, Types, AllApart, Apart
<1>4. ASSUME NEW c \in Columns, NEW field \in FieldNames \cup {NoField},
             NEW status \in {"approved", "rejected"}, Decide(c, field, status)
      PROVE  AllApart'
  <2>1. /\ schema'[c].method = "manual"
        /\ \A d \in Columns \ {c} : schema'[d] = schema[d]
    BY <1>4, DecisionEffect
  <2>2. Apart(schema)
    BY <1>4 DEF Decide, AllApart
  <2>3. Apart(schema)'
    BY <2>1, <2>2 DEF Apart
  <2>4. QED
    BY <1>4, <2>3 DEF Decide, AllApart, Apart
<1>5. CASE UNCHANGED <<schema, mapper>>
  BY <1>5 DEF AllApart, Apart
<1>6. ASSUME NEW c \in Columns, Approve(c) \/ Reject(c)
      PROVE  AllApart'
  BY <1>4, <1>6 DEF Approve, Reject
<1>7. QED
  BY <1>1, <1>2, <1>3, <1>5, <1>6 DEF Next, StartNormalization, WriteObservations,
       FinishNormalization, NormalizationDies, vars

\* Whatever names and values the columns have and whichever mapper wins, two columns are
\* never both taken for one field of one subject unless a person said so of one of them
\* (resolve_collisions, and create_source_schema that never replaces a mapping).
THEOREM FieldsStayApart == Spec => []EngineKeepsFieldsApart
<1>1. Init => AllApart
  BY DEF Init, AllApart
<1>2. AllApart => EngineKeepsFieldsApart
  <2>1. SUFFICES ASSUME AllApart, schema # NoSchema, NEW c \in Columns, NEW d \in Columns,
                        c # d, {schema[c].status, schema[d].status} \subseteq Accepted,
                        schema[c].field = schema[d].field,
                        schema[c].subject = schema[d].subject
                 PROVE  "manual" \in {schema[c].method, schema[d].method}
    BY DEF EngineKeepsFieldsApart
  <2>2. Apart(schema)
    BY <2>1 DEF AllApart
  <2>3. QED
    BY <2>1, <2>2 DEF Apart
<1>3. QED
  BY InitTypes, StepTypes, StepApart, <1>1, <1>2, PTL DEF Spec

\* A decision about a column is the last word until the next decision: no mapper that
\* began before it and no later batch puts a derived mapping in its place
\* (create_source_schema against review-mappings set).
THEOREM DecisionsStand == Spec => DecisionStands
<1>1. ASSUME [Next]_vars
      PROVE  [\A c \in Columns :
                (schema # NoSchema /\ schema[c].method = "manual" /\ schema'[c] # schema[c])
                  => reviews' = reviews + 1]_vars
  <2>1. CASE UNCHANGED vars
    BY <2>1
  <2>2. CASE Next
    BY <2>2, DecisionsAreReviews DEF Decide
  <2>3. QED
    BY <1>1, <2>1, <2>2
<1>2. QED
  BY <1>1, PTL DEF Spec, DecisionStands

---------------------------------------------------------------------------
(* Labels are confirmed answers.                                           *)

LEMMA StepConfirmed ==
  ASSUME Types, AllConfirmed, [Next]_vars
  PROVE  AllConfirmed'
<1>1. ASSUME NEW q \in Mappers, Create(q)
      PROVE  AllConfirmed'
  BY <1>1 DEF Create, AllConfirmed, LabelsWereConfirmed, Confirms
<1>2. ASSUME NEW c \in Columns, NEW field \in FieldNames \cup {NoField},
             NEW status \in {"approved", "rejected"}, Decide(c, field, status)
      PROVE  AllConfirmed'
  BY <1>2 DEF Decide, AllConfirmed, LabelsWereConfirmed, Confirms
<1>3. ASSUME NEW n \in Normalizers, NEW b \in Batches, StartNormalization(n, b)
      PROVE  AllConfirmed'
  <2>1. PICK t : t.mapping = schema /\ run' = [run EXCEPT ![n] = t]
    BY <1>3 DEF StartNormalization, Context
  <2>2. QED
    BY <1>3, <2>1 DEF StartNormalization, Types, AllConfirmed, LabelsWereConfirmed, Confirms
<1>4. ASSUME NEW n \in Normalizers, WriteObservations(n)
      PROVE  AllConfirmed'
  <2>1. PICK r \in run[n].todo :
          /\ label' = [label EXCEPT ![r] = Upserted(r, run[n].mapping)]
          /\ run' = [run EXCEPT ![n].todo = @ \ {r}]
    BY <1>4 DEF WriteObservations
  <2>2. PICK m : m = run[n].mapping
    OBVIOUS
  <2>3. m \in MappingType /\ run[n].todo \subseteq RowsOf(run[n].batch)
    BY <1>4, <2>2 DEF WriteObservations, Types, RunType
  <2>4. m \in [Columns -> Entry] /\ r \in Records
    BY <2>1, <2>3, MappingsHaveEntries DEF RowsOf
  <2>5. Confirms(m) \subseteq confirmed
    BY <1>4, <2>2 DEF WriteObservations, AllConfirmed
  <2>6. /\ label'[r] = Upserted(r, m)
        /\ \A s \in Records \ {r} : label'[s] = label[s]
    BY <2>1, <2>2, <2>4 DEF Types
  <2>7. ASSUME NEW c \in Columns, NEW i \in Indices, label'[r][c][i].field # NoField
        PROVE  <<c, label'[r][c][i].field, label'[r][c][i].subject>> \in confirmed
    <3>1. label'[r][c][i] = IF i \in Parts(r, c, m[c]) THEN Labelled(m[c]) ELSE label[r][c][i]
      BY <2>4, <2>6, UpsertedCells
    <3>2. CASE i \in Parts(r, c, m[c])
      <4>1. label'[r][c][i] = Labelled(m[c])
        BY <3>1, <3>2
      <4>2. /\ m[c].status \in Accepted
            /\ label'[r][c][i].field = m[c].field /\ label'[r][c][i].subject = m[c].subject
        BY <2>4, <2>7, <4>1, LabelledIsLabel
      <4>3. QED
        BY <2>5, <4>2, AcceptedIsConfirmed
    <3>3. CASE i \notin Parts(r, c, m[c])
      <4>1. label'[r][c][i] = label[r][c][i]
        BY <3>1, <3>3
      <4>2. QED
        BY <2>4, <2>7, <4>1 DEF AllConfirmed, LabelsWereConfirmed
    <3>4. QED
      BY <3>2, <3>3
  <2>8. LabelsWereConfirmed'
    BY <1>4, <2>6, <2>7 DEF WriteObservations, AllConfirmed, LabelsWereConfirmed
  <2>9. PICK t : t = run[n]
    OBVIOUS
  <2>10. PICK u : u = [t EXCEPT !.todo = t.todo \ {r}]
    OBVIOUS
  <2>11. u.mapping = m /\ run' = [run EXCEPT ![n] = u]
    BY <2>1, <2>2, <2>9, <2>10
  <2>12. \A x \in Normalizers : run'[x] # Idle => Confirms(run'[x].mapping) \subseteq confirmed
    BY <1>4, <2>5, <2>11 DEF WriteObservations, Types, AllConfirmed
  <2>13. QED
    BY <1>4, <2>8, <2>12 DEF WriteObservations, AllConfirmed, Confirms
<1>5. ASSUME NEW n \in Normalizers, FinishNormalization(n) \/ NormalizationDies(n)
      PROVE  AllConfirmed'
  BY <1>5 DEF FinishNormalization, NormalizationDies, Types, AllConfirmed,
              LabelsWereConfirmed, Confirms
<1>6. CASE UNCHANGED <<schema, run, label, confirmed>>
  BY <1>6 DEF AllConfirmed, LabelsWereConfirmed, Confirms
<1>7. ASSUME NEW c \in Columns, Approve(c) \/ Reject(c)
      PROVE  AllConfirmed'
  BY <1>2, <1>7 DEF Approve, Reject
<1>8. QED
  BY <1>1, <1>3, <1>4, <1>5, <1>6, <1>7 DEF Next, Derive, CreateRefused, vars

\* A value is presented as a field only if its column was at some time confirmed to be
\* that field of that subject, however many normalizers still hold a mapping that a
\* person has since corrected (observations_for, insert_observations).
THEOREM LabelsAreAnswers == Spec => []LabelsWereConfirmed
<1>1. Init => AllConfirmed
  BY DEF Init, AllConfirmed, LabelsWereConfirmed, NoLabel
<1>2. AllConfirmed => LabelsWereConfirmed
  BY DEF AllConfirmed
<1>3. QED
  BY InitTypes, StepTypes, StepConfirmed, <1>1, <1>2, PTL DEF Spec

---------------------------------------------------------------------------
(* Reviews reach the observations.                                         *)

LEMMA StepAgrees ==
  ASSUME OneNormalizer, Types, AllAgree, [Next]_vars
  PROVE  AllAgree'
<1> USE DEF RunAgrees, BatchAgrees
<1>1. ASSUME NEW q \in Mappers, Create(q)
      PROVE  AllAgree'
  <2>1. \A n \in Normalizers : run[n] = Idle
    BY <1>1 DEF Create, AllAgree
  <2>2. \A b \in Batches : normalized[b] = -1
    BY <1>1 DEF Create, AllAgree
  <2>3. reviews \in Nat
    BY DEF Types
  <2>4. \A b \in Batches : normalized[b] # reviews
    BY <2>2, <2>3
  <2>5. QED
    BY <1>1, <2>1, <2>2, <2>4 DEF Create, AllAgree
<1>2. ASSUME NEW c \in Columns, NEW field \in FieldNames \cup {NoField},
             NEW status \in {"approved", "rejected"}, Decide(c, field, status)
      PROVE  AllAgree'
  <2>1. schema' # NoSchema
    BY <1>2, DecisionEffect, NoSchemaAssumption
  <2>2. reviews' = reviews + 1 /\ reviews \in Nat
    BY <1>2 DEF Decide, Types
  <2>3. \A b \in Batches : normalized[b] \in -1..reviews
    BY DEF Types
  <2>4. \A b \in Batches : normalized[b] # reviews'
    BY <2>2, <2>3
  <2>5. \A n \in Normalizers : run[n] # Idle => run[n].asof # reviews'
    <3>1. \A n \in Normalizers : run[n] # Idle => run[n].asof \in 0..reviews
      BY DEF Types, RunType
    <3>2. QED
      BY <2>2, <3>1
  <2>6. \A n \in Normalizers : RunAgrees(n)'
    BY <1>2, <2>1, <2>5 DEF Decide, AllAgree, Shows, RowsOf
  <2>7. QED
    BY <1>2, <2>1, <2>4, <2>6 DEF Decide, AllAgree
<1>3. ASSUME NEW n \in Normalizers, NEW b \in Batches, StartNormalization(n, b)
      PROVE  AllAgree'
  <2>1. PICK t : /\ t.mapping = schema /\ t.asof = reviews /\ t.todo = RowsOf(t.batch)
                 /\ run' = [run EXCEPT ![n] = t]
    BY <1>3 DEF StartNormalization, Context
  <2>2. run'[n] = t /\ \A x \in Normalizers \ {n} : run'[x] = run[x]
    BY <2>1 DEF Types
  <2>3. \A d \in Batches : normalized[d] <= t.asof
    <3>1. reviews \in Nat /\ \A d \in Batches : normalized[d] \in -1..reviews
      BY DEF Types
    <3>2. QED
      BY <2>1, <3>1
  <2>4. RunAgrees(n)'
    BY <1>3, <2>1, <2>2, <2>3 DEF StartNormalization, RowsOf
  <2>5. \A x \in Normalizers \ {n} : RunAgrees(x)'
    BY <1>3, <2>2 DEF StartNormalization, AllAgree, Shows, RowsOf
  <2>6. QED
    BY <1>3, <2>4, <2>5 DEF StartNormalization, AllAgree, Shows, RowsOf
<1>4. ASSUME NEW n \in Normalizers, WriteObservations(n)
      PROVE  AllAgree'
  <2>1. PICK r \in run[n].todo :
          /\ label' = [label EXCEPT ![r] = Upserted(r, run[n].mapping)]
          /\ run' = [run EXCEPT ![n].todo = @ \ {r}]
    BY <1>4 DEF WriteObservations
  <2>2. PICK t : t = run[n]
    OBVIOUS
  <2>3. /\ t.todo \subseteq RowsOf(t.batch) /\ t.asof \in 0..reviews /\ reviews \in Nat
        /\ \A b \in Batches : normalized[b] \in -1..reviews
    BY <1>4, <2>2 DEF WriteObservations, Types, RunType
  <2>4. /\ schema # NoSchema /\ (t.asof = reviews => t.mapping = schema)
        /\ \A b \in Batches : normalized[b] <= t.asof
        /\ \A s \in RowsOf(t.batch) \ t.todo : Shows(s, t.mapping)
    BY <1>4, <2>2 DEF WriteObservations, AllAgree
  <2>5. r \in Records
    BY <2>1, <2>2, <2>3 DEF RowsOf
  <2>6. /\ label'[r] = Upserted(r, t.mapping)
        /\ \A s \in Records \ {r} : label'[s] = label[s]
    BY <2>1, <2>2, <2>5 DEF Types
  <2>7. Shows(r, t.mapping)'
    <3>1. PICK m : m = t.mapping
      OBVIOUS
    <3>2. \A c \in Columns : \A i \in Parts(r, c, m[c]) : i \in Indices
      BY DEF Parts, Indices
    <3>3. \A c \in Columns : \A i \in Parts(r, c, m[c]) : label'[r][c][i] = Labelled(m[c])
      BY <2>5, <2>6, <3>1, <3>2, UpsertedCells
    <3>4. QED
      BY <3>1, <3>3 DEF Shows
  <2>8. \A s \in Records \ {r} : Shows(s, t.mapping) => Shows(s, t.mapping)'
    BY <2>6 DEF Shows
  <2>9. PICK u : u = [t EXCEPT !.todo = t.todo \ {r}]
    OBVIOUS
  <2>10. /\ u.mapping = t.mapping /\ u.asof = t.asof /\ u.batch = t.batch
         /\ u.todo = t.todo \ {r}
    BY <1>4, <2>1, <2>2, <2>9
  <2>11. run' = [run EXCEPT ![n] = u]
    BY <2>1, <2>2, <2>9
  <2>12. run'[n] = u
    BY <2>11 DEF Types
  <2>13. \A s \in RowsOf(u.batch) \ u.todo : Shows(s, u.mapping)'
    BY <2>4, <2>7, <2>8, <2>10 DEF RowsOf
  <2>14. UNCHANGED <<schema, reviews, normalized>>
    BY <1>4 DEF WriteObservations
  <2>15. RunAgrees(n)'
    BY <2>4, <2>10, <2>12, <2>13, <2>14 DEF Shows, RowsOf
  <2>16. \A x \in Normalizers : RunAgrees(x)'
    BY <2>15 DEF OneNormalizer
  <2>17. ASSUME NEW b \in Batches, normalized[b] = reviews
         PROVE  \A s \in RowsOf(b) : Shows(s, schema)'
    <3>1. normalized[b] <= t.asof /\ t.asof \in 0..reviews
      BY <2>3, <2>4
    <3>2. t.asof = reviews
      BY <2>3, <2>17, <3>1
    <3>3. t.mapping = schema
      BY <2>4, <3>2
    <3>4. \A s \in RowsOf(b) : Shows(s, t.mapping)
      BY <2>17, <3>3 DEF AllAgree
    <3>5. \A s \in RowsOf(b) : Shows(s, t.mapping)'
      BY <2>7, <2>8, <3>4 DEF RowsOf
    <3>6. QED
      BY <2>14, <3>3, <3>5 DEF Shows
  <2>18. \A b \in Batches : BatchAgrees(b)'
    BY <2>14, <2>17 DEF RowsOf
  <2>19. QED
    BY <2>4, <2>14, <2>16, <2>18 DEF AllAgree
<1>5. ASSUME NEW n \in Normalizers, FinishNormalization(n)
      PROVE  AllAgree'
  <2>1. PICK t : t = run[n]
    OBVIOUS
  <2>2. /\ schema # NoSchema /\ (t.asof = reviews => t.mapping = schema)
        /\ \A s \in RowsOf(t.batch) : Shows(s, t.mapping)
    BY <1>5, <2>1 DEF FinishNormalization, AllAgree
  <2>3. \A b \in Batches : normalized'[b] = IF b = t.batch THEN t.asof ELSE normalized[b]
    BY <1>5, <2>1 DEF FinishNormalization, Types
  <2>4. UNCHANGED <<schema, label, reviews>> /\ run'[n] = Idle
    BY <1>5 DEF FinishNormalization, Types
  <2>5. \A x \in Normalizers : RunAgrees(x)'
    BY <2>4 DEF OneNormalizer
  <2>6. ASSUME NEW b \in Batches, normalized'[b] = reviews
        PROVE  \A s \in RowsOf(b) : Shows(s, schema)
    BY <2>2, <2>3, <2>6 DEF AllAgree
  <2>7. QED
    BY <2>2, <2>4, <2>5, <2>6 DEF AllAgree, Shows, RowsOf
<1>6. ASSUME NEW n \in Normalizers, NormalizationDies(n)
      PROVE  AllAgree'
  <2>1. UNCHANGED <<schema, label, reviews, normalized>> /\ run'[n] = Idle
    BY <1>6 DEF NormalizationDies, Types
  <2>2. \A x \in Normalizers : RunAgrees(x)'
    BY <2>1 DEF OneNormalizer
  <2>3. QED
    BY <2>1, <2>2 DEF AllAgree, Shows, RowsOf
<1>7. CASE UNCHANGED <<schema, run, label, normalized, reviews>>
  BY <1>7 DEF AllAgree, Shows, RowsOf
<1>8. ASSUME NEW c \in Columns, Approve(c) \/ Reject(c)
      PROVE  AllAgree'
  BY <1>2, <1>8 DEF Approve, Reject
<1>9. QED
  BY <1>1, <1>3, <1>4, <1>5, <1>6, <1>7, <1>8 DEF Next, Derive, CreateRefused, vars

\* With one normalizer, a batch whose last complete run knew of every decision shows in
\* every value its cells are split into what the mapping says, the runs that began
\* before a decision and the runs that died half way notwithstanding (normalize_batch,
\* insert_observations).  With two, a run that holds the older mapping can write last.
THEOREM ReviewsReach ==
  ASSUME OneNormalizer
  PROVE  Spec => []ReviewReachesObservations
<1>1. Init => AllAgree
  <2>1. SUFFICES ASSUME Init PROVE AllAgree
    OBVIOUS
  <2>2. \A b \in Batches : normalized[b] = -1 /\ normalized[b] # reviews
    BY <2>1 DEF Init
  <2>3. \A n \in Normalizers : run[n] = Idle
    BY <2>1 DEF Init
  <2>4. QED
    BY <2>2, <2>3 DEF AllAgree, RunAgrees, BatchAgrees
<1>2. AllAgree => ReviewReachesObservations
  BY DEF AllAgree, BatchAgrees, Shows, ReviewReachesObservations, UpToDate
<1>3. AllAgree /\ Types /\ [Next]_vars => AllAgree'
  BY StepAgrees
<1>4. QED
  BY InitTypes, StepTypes, <1>1, <1>2, <1>3, PTL DEF Spec
=============================================================================
