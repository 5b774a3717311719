---------------------------- MODULE SchemaMapping ----------------------------
(***************************************************************************)
(* The stored mapping of one column layout of one source, from the first   *)
(* batch that has it: mappers (the mapping consumer, map-schema, a run of  *)
(* process) that derive it or reuse it, reviewers who correct it, and      *)
(* normalizers that label every cell of a batch with what it says.         *)
(***************************************************************************)
EXTENDS ColumnMapping

CONSTANTS
  Batches, Records, BatchOf,
  Mappers, Normalizers,
  NoSchema,
  Layouts,        \* what the names of the columns may be: [alias, similar] each
  Samples,        \* what the values of each batch and column may be: detector ratios
  Several,        \* the cells, as <<record, column>>, with several values behind ; or |
  MaxReviews,     \* bound: decisions of reviewers
  MaxNormalizations  \* bound: runs of normalization

ASSUME MappingAssumption ==
  /\ BatchOf \in [Records -> Batches]
  /\ Several \subseteq Records \X Columns
  /\ MaxReviews \in Nat
  /\ MaxNormalizations \in Nat

\* Similarities and shares of values are in hundredths.
ASSUME EvidenceAssumption ==
  /\ \A l \in Layouts, c \in Columns : l[c].similar \in [Fields -> 0..100]
  /\ \A s \in Samples, b \in Batches, c \in Columns, f \in Fields :
       Vocabulary[f].detector # NoDetector => s[b][c][Vocabulary[f].detector] \in 0..100

VARIABLES
  names,      \* per column: the evidence of its name
  values,     \* per batch and column: the evidence of its values
  schema,     \* source_schema and its column_mapping rows, or NoSchema
  mapper,     \* per mapper: what it has derived
  label,      \* attribute_observation: per record, column and value_index, from 1
  run,        \* per normalizer: its batch, its copy of the mapping, what is left
  normalized, \* per batch: the decisions that its last complete run knew of
  reviews,    \* decisions so far
  starts,     \* normalizations so far
  confirmed   \* history: every confirmed answer that a column ever had

vars == <<names, values, schema, mapper, label, run, normalized, reviews, starts, confirmed>>

inputs == <<names, values>>

Idle == [pc |-> "idle"]

Evidence(b) ==
  [c \in Columns |-> [alias |-> names[c].alias, similar |-> names[c].similar,
                      ratio |-> values[b][c]]]

Accepted == {"auto_accepted", "approved"}

\* The (column, field, subject) triples that a mapping confirms.
Confirms(m) ==
  {<<c, m[c].field, m[c].subject>> : c \in {d \in Columns : m[d].status \in Accepted}}

NoLabel == [field |-> NoField, subject |-> Self, status |-> "none"]

\* Faulty: a guess is presented as truth.
FaultyLabelled(entry) ==
  [field |-> entry.field, subject |-> entry.subject, status |-> entry.status]

\* What one cell is recorded as: only a confirmed mapping names a field.
Labelled(entry) ==
  IF entry.status \in Accepted
  THEN [field |-> entry.field, subject |-> entry.subject, status |-> entry.status]
  ELSE [field |-> NoField, subject |-> Self, status |-> entry.status]

\* split_values: a cell is split by the type of the field it is labelled as, and
\* stays whole when it is labelled as none.
Indices == 1..2

Parts(r, c, entry) ==
  IF /\ <<r, c>> \in Several
     /\ \E f \in Fields : /\ Vocabulary[f].name = Labelled(entry).field
                          /\ Vocabulary[f].subject = Labelled(entry).subject
                          /\ Vocabulary[f].splits
  THEN Indices ELSE {1}

Init ==
  /\ names \in Layouts
  /\ values \in Samples
  /\ schema = NoSchema
  /\ mapper = [p \in Mappers |-> Idle]
  /\ label = [r \in Records |-> [c \in Columns |-> [i \in Indices |-> NoLabel]]]
  /\ run = [n \in Normalizers |-> Idle]
  /\ normalized = [b \in Batches |-> -1]
  /\ reviews = 0 /\ starts = 0
  /\ confirmed = {}

-----------------------------------------------------------------------------
(* Mappers.                                                                *)

\* find_source_schema finds nothing, and the mapping is derived from samples
\* of this batch.
Derive(p, b) ==
  /\ mapper[p] = Idle
  /\ schema = NoSchema
  /\ mapper' = [mapper EXCEPT ![p] = [pc |-> "derived", mapping |-> MapColumns(Evidence(b))]]
  /\ UNCHANGED <<inputs, schema, label, run, normalized, reviews, starts, confirmed>>

\* The layout and its rows are inserted in one transaction.
Create(p) ==
  /\ mapper[p] # Idle
  /\ schema = NoSchema
  /\ schema' = mapper[p].mapping
  /\ confirmed' = confirmed \cup Confirms(schema')
  /\ mapper' = [mapper EXCEPT ![p] = Idle]
  /\ UNCHANGED <<inputs, label, run, normalized, reviews, starts>>

\* Faulty: the last mapper wins, as with ON CONFLICT DO UPDATE.
FaultyCreateRefused(p) ==
  /\ mapper[p] # Idle
  /\ schema # NoSchema
  /\ schema' = mapper[p].mapping
  /\ confirmed' = confirmed \cup Confirms(schema')
  /\ mapper' = [mapper EXCEPT ![p] = Idle]
  /\ UNCHANGED <<inputs, label, run, normalized, reviews, starts>>

\* Another mapper was first: the unique index refuses the layout, the
\* consumer restarts and finds it.
CreateRefused(p) ==
  /\ mapper[p] # Idle
  /\ schema # NoSchema
  /\ mapper' = [mapper EXCEPT ![p] = Idle]
  /\ UNCHANGED <<inputs, schema, label, run, normalized, reviews, starts, confirmed>>

-----------------------------------------------------------------------------
(* Reviewers: review-mappings set.  It looks at no other column, and it    *)
(* leaves the subject as it is.                                            *)

FieldNames == {Vocabulary[f].name : f \in Fields}

Decide(c, field, status) ==
  /\ schema # NoSchema
  /\ reviews < MaxReviews
  /\ reviews' = reviews + 1
  /\ schema' = [schema EXCEPT ![c].field = field, ![c].status = status,
                              ![c].method = "manual"]
  /\ confirmed' = confirmed \cup Confirms(schema')
  /\ UNCHANGED <<inputs, mapper, label, run, normalized, starts>>

Approve(c) == \E field \in FieldNames : Decide(c, field, "approved")

Reject(c) == Decide(c, NoField, "rejected")

-----------------------------------------------------------------------------
(* Normalizers: the mapping is read once, observations are written and     *)
(* committed a part at a time.                                             *)

RowsOf(b) == {r \in Records : BatchOf[r] = b}

\* Faulty: streams every record and not those of the batch.
FaultyContext(b) ==
  [pc |-> "writing", batch |-> b, mapping |-> schema, asof |-> reviews, todo |-> Records]

\* What a run works out once for all its records.
Context(b) ==
  [pc |-> "writing", batch |-> b, mapping |-> schema, asof |-> reviews, todo |-> RowsOf(b)]

StartNormalization(n, b) ==
  /\ run[n] = Idle
  /\ schema # NoSchema
  /\ starts < MaxNormalizations
  /\ starts' = starts + 1
  /\ run' = [run EXCEPT ![n] = Context(b)]
  /\ UNCHANGED <<inputs, schema, mapper, label, normalized, reviews, confirmed>>

\* Faulty: ON CONFLICT DO NOTHING, as the consumer's docstring still says.
FaultyUpserted(r, m) ==
  [c \in Columns |->
     [i \in Indices |->
        IF i \in Parts(r, c, m[c]) /\ label[r][c][i] = NoLabel THEN Labelled(m[c])
        ELSE label[r][c][i]]]

\* insert_observations: what is derived is refreshed on conflict, and a value
\* that the cell is no longer split into is left as it is.
Upserted(r, m) ==
  [c \in Columns |->
     [i \in Indices |->
        IF i \in Parts(r, c, m[c]) THEN Labelled(m[c]) ELSE label[r][c][i]]]

WriteObservations(n) ==
  /\ run[n] # Idle
  /\ \E r \in run[n].todo :
       /\ label' = [label EXCEPT ![r] = Upserted(r, run[n].mapping)]
       /\ run' = [run EXCEPT ![n].todo = @ \ {r}]
  /\ UNCHANGED <<inputs, schema, mapper, normalized, reviews, starts, confirmed>>

FinishNormalization(n) ==
  /\ run[n] # Idle
  /\ run[n].todo = {}
  /\ normalized' = [normalized EXCEPT ![run[n].batch] = run[n].asof]
  /\ run' = [run EXCEPT ![n] = Idle]
  /\ UNCHANGED <<inputs, schema, mapper, label, reviews, starts, confirmed>>

NormalizationDies(n) ==
  /\ run[n] # Idle
  /\ run' = [run EXCEPT ![n] = Idle]
  /\ UNCHANGED <<inputs, schema, mapper, label, normalized, reviews, starts, confirmed>>

Next ==
  \/ \E p \in Mappers, b \in Batches : Derive(p, b)
  \/ \E p \in Mappers : Create(p) \/ CreateRefused(p)
  \/ \E c \in Columns : Approve(c) \/ Reject(c)
  \/ \E n \in Normalizers, b \in Batches : StartNormalization(n, b)
  \/ \E n \in Normalizers :
       WriteObservations(n) \/ FinishNormalization(n) \/ NormalizationDies(n)

Spec == Init /\ [][Next]_vars
-----------------------------------------------------------------------------
(* Properties.                                                             *)

Statuses == {"auto_accepted", "needs_review", "unmapped", "approved", "rejected"}

MappingType ==
  [Columns -> [field : FieldNames \cup {NoField}, subject : {Self, "employer"},
               method : DOMAIN MethodRank \cup {"manual"}, status : Statuses]]

ASSUME NoSchemaAssumption == NoSchema \notin MappingType

\* The tables and the copies that processes hold have their types, and no run
\* knows of decisions that were not made.
TypeOK ==
  /\ schema \in MappingType \cup {NoSchema}
  /\ \A p \in Mappers : mapper[p] = Idle \/ mapper[p].mapping \in MappingType
  /\ label \in [Records -> [Columns -> [Indices ->
                  [field : FieldNames \cup {NoField}, subject : {Self, "employer"},
                   status : Statuses \cup {"none"}]]]]
  /\ \A n \in Normalizers :
       run[n] = Idle \/ /\ run[n].mapping \in MappingType
                        /\ run[n].asof \in 0..reviews
                        /\ run[n].todo \subseteq RowsOf(run[n].batch)
  /\ normalized \in [Batches -> -1..reviews]

\* Two columns are never both taken for one field of one subject unless a
\* person said so: what the engine confirms by itself stays apart, whatever
\* the names and values of the columns are and whichever batch came first.
EngineKeepsFieldsApart ==
  schema # NoSchema =>
    \A c, d \in Columns :
      /\ c # d
      /\ {schema[c].status, schema[d].status} \subseteq Accepted
      /\ schema[c].field = schema[d].field
      /\ schema[c].subject = schema[d].subject
      => "manual" \in {schema[c].method, schema[d].method}

\* A person's decision about a column is the last word until a person speaks
\* again: no later batch of the layout, and no mapper that began before the
\* decision, puts a derived mapping in its place.
DecisionStands ==
  [][\A c \in Columns :
       (schema # NoSchema /\ schema[c].method = "manual" /\ schema'[c] # schema[c])
         => reviews' = reviews + 1]_vars

\* A value is presented as a field only if its column was at some time confirmed
\* to be that field of that subject: no guess becomes an observation.
LabelsWereConfirmed ==
  \A r \in Records, c \in Columns, i \in Indices :
    label[r][c][i].field # NoField =>
      <<c, label[r][c][i].field, label[r][c][i].subject>> \in confirmed

\* The last complete run of b knew of every decision, and no other is under way.
UpToDate(b) == normalized[b] = reviews /\ \A n \in Normalizers : run[n] = Idle

\* A review reaches the batches that were normalized before it: when b is up to
\* date, the values that its cells are split into are labelled as the mapping says.
ReviewReachesObservations ==
  \A b \in Batches : UpToDate(b) =>
    \A r \in RowsOf(b), c \in Columns :
      \A i \in Parts(r, c, schema[c]) : label[r][c][i] = Labelled(schema[c])

\* "Everything else here is derived, and must be refreshable" (insert_observations):
\* when b is up to date, every observation of a column is labelled as its mapping
\* says, the ones that earlier runs left included.
ReviewReachesEveryValue ==
  \A b \in Batches : UpToDate(b) =>
    \A r \in RowsOf(b), c \in Columns, i \in Indices :
      label[r][c][i] \in {NoLabel, Labelled(schema[c])}

=============================================================================
