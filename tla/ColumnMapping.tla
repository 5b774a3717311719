---------------------------- MODULE ColumnMapping ----------------------------
(***************************************************************************)
(* The decision which canonical field a source column is: candidates from  *)
(* its name and its values, the best of them, and the settlement between   *)
(* columns that claim one field of one subject.                            *)
(*                                                                         *)
(* A field here is a specification of the vocabulary: its name together    *)
(* with the subject it is about.  Strings are abstracted to what matching  *)
(* yields: evidence is, for each field, whether the column's name is one   *)
(* of its aliases and how similar it is, and for each detector, how many   *)
(* of the values it matches.  Confidences are in hundredths.               *)
(***************************************************************************)
EXTENDS Integers, Sequences, FiniteSets

CONSTANTS
  Columns,
  Vocabulary,  \* sequence of [name, subject, detector, splits], in the order of fields_for
  NoField,     \* an unmapped column
  NoDetector   \* a field whose values have no shape

Self == "self"

AutoAcceptThreshold == 90
ReviewThreshold == 60
ValueAnalysisCap == 75
ValueAnalysisMinRatio == 60
CorroborationBoost == 15
CorroborationCap == 95
AmbiguousAliasConfidence == 85

Fields == DOMAIN Vocabulary

ASSUME VocabularyAssumption ==
  /\ Fields \subseteq Nat
  /\ \A f \in Fields : /\ Vocabulary[f].name # NoField
                       /\ Vocabulary[f].subject \in {Self, "employer"}

\* Detectors that narrow which field a column is, and how far.
DetectorSpecificity == [linkedin |-> 2, email |-> 2, url |-> 1]

Discriminating == DOMAIN DetectorSpecificity

Smaller(a, b) == IF a < b THEN a ELSE b

-----------------------------------------------------------------------------
(* Candidates.  A candidate's place is its position in the list that the   *)
(* code sorts, which decides between equal confidences.                    *)

Candidate(block, f, method, confidence) ==
  [place |-> <<block, f>>, spec |-> f, method |-> method, confidence |-> confidence]

AliasCandidates(e) ==
  {Candidate(1, f, "exact_alias", 100) : f \in {g \in Fields : e.alias[g] = "exact"}}
  \cup {Candidate(1, f, "ambiguous_alias", AmbiguousAliasConfidence) :
          f \in {g \in Fields : e.alias[g] = "ambiguous"}}

SimilarityCandidates(e) ==
  {Candidate(2, f, "similarity", e.similar[f]) :
     f \in {g \in Fields : e.similar[g] >= ReviewThreshold}}

Ratio(e, f) ==
  IF Vocabulary[f].detector = NoDetector THEN 0 ELSE e.ratio[Vocabulary[f].detector]

\* The fields that the values speak for.
SupportedByValues(e) == {f \in Fields : Ratio(e, f) >= ValueAnalysisMinRatio}

\* Values propose a field only if they tell it from others, only for the
\* record itself, and only the narrowest kind that matched.
Originating(e) ==
  LET eligible ==
        {f \in SupportedByValues(e) :
           Vocabulary[f].detector \in Discriminating /\ Vocabulary[f].subject = Self}
      Narrowness(f) == DetectorSpecificity[Vocabulary[f].detector]
  IN  {f \in eligible : \A g \in eligible : Narrowness(g) <= Narrowness(f)}

ValueCandidates(e) ==
  {Candidate(3, f, "value_analysis", Smaller(ValueAnalysisCap, Ratio(e, f))) :
     f \in Originating(e)}

\* Name and values agree.  An ambiguous alias is not helped by values.
CorroboratedCandidates(e) ==
  {Candidate(4, c.spec, "corroborated",
             Smaller(CorroborationCap, c.confidence + CorroborationBoost)) :
     c \in {d \in SimilarityCandidates(e) : d.spec \in SupportedByValues(e)}}

Candidates(e) ==
  AliasCandidates(e) \cup SimilarityCandidates(e) \cup ValueCandidates(e)
    \cup CorroboratedCandidates(e)

Before(p, q) == p[1] < q[1] \/ (p[1] = q[1] /\ p[2] < q[2])

\* The head of the list after the stable sort by confidence.
Best(candidates) ==
  CHOOSE c \in candidates : \A d \in candidates \ {c} :
    \/ d.confidence < c.confidence
    \/ d.confidence = c.confidence /\ Before(c.place, d.place)

StatusFor(confidence) ==
  IF confidence >= AutoAcceptThreshold THEN "auto_accepted"
  ELSE IF confidence >= ReviewThreshold THEN "needs_review" ELSE "unmapped"

Unmapped == [field |-> NoField, subject |-> Self, method |-> "none", status |-> "unmapped"]

\* map_column.  An ambiguous alias asks a human, whatever its score.
MapColumn(e) ==
  IF Candidates(e) = {} THEN Unmapped
  ELSE LET best == Best(Candidates(e))
       IN  [field |-> Vocabulary[best.spec].name, subject |-> Vocabulary[best.spec].subject,
            method |-> best.method,
            status |-> IF best.method = "ambiguous_alias" THEN "needs_review"
                       ELSE StatusFor(best.confidence)]

-----------------------------------------------------------------------------
(* Collisions: m is a mapping of every column.                             *)

MethodRank ==
  [exact_alias |-> 3, corroborated |-> 2, ambiguous_alias |-> 1, similarity |-> 1,
   value_analysis |-> 0, none |-> 0]

\* Whoever answers the same field of the same subject.
Claimants(m, c) ==
  {d \in Columns : m[d].field # NoField /\ m[d].field = m[c].field
                                        /\ m[d].subject = m[c].subject}

Winners(m, c) ==
  {d \in Claimants(m, c) :
     \A x \in Claimants(m, c) : MethodRank[m[x].method] <= MethodRank[m[d].method]}

\* Faulty: columns of equal rank are settled by the order of the file.
FaultySettled(m, c) ==
  IF m[c].field = NoField \/ Claimants(m, c) = {c} THEN m[c]
  ELSE IF c \in Winners(m, c) THEN m[c]
  ELSE Unmapped

\* A sole winner holds the field; winners of equal rank go to a human; the
\* others are recorded as unmapped.
Settled(m, c) ==
  IF m[c].field = NoField \/ Claimants(m, c) = {c} THEN m[c]
  ELSE IF c \notin Winners(m, c) THEN Unmapped
  ELSE IF Winners(m, c) # {c} /\ m[c].status = "auto_accepted"
       THEN [m[c] EXCEPT !.status = "needs_review"]
       ELSE m[c]

ResolveCollisions(m) == [c \in Columns |-> Settled(m, c)]

\* map_columns: evidence is that of every column.
MapColumns(evidence) ==
  ResolveCollisions([c \in Columns |-> MapColumn(evidence[c])])
=============================================================================
