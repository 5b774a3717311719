----------------------------- MODULE MatchScore -----------------------------
(***************************************************************************)
(* What a match between a record and the entities that share identity keys *)
(* with it is worth, and what is decided on it.  An overlap is a function  *)
(* from those entities to the keys that each shares with the record.       *)
(***************************************************************************)
EXTENDS Naturals, FiniteSets

CONSTANTS
    Keys,           \* identity keys
    KeyType,        \* KeyType[k]: the key_type of k
    Weight          \* Weight[k]: KEY_WEIGHTS of its type, in hundredths

ASSUME KeysAreFinite == IsFiniteSet(Keys)
ASSUME WeightAssumption == Weight \in [Keys -> 0..99]

AutoLinkThreshold == 90
ReviewThreshold == 60
CorroborationBoost == 4
MaxConfidence == 99

\* Entities are numbered from 1; 0 stands for no entity.
NoEntity == 0

Lesser(a, b) == IF a < b THEN a ELSE b

\* Faulty: no ceiling on what moderate keys are worth.
ConfidenceUncapped(best, matched, strong) ==
    LET extra == Cardinality({KeyType[k] : k \in matched} \ {KeyType[best]})
    IN Lesser(MaxConfidence, Weight[best] + CorroborationBoost * extra)

\* The confidence of a match whose heaviest key is best.
Confidence(best, matched, strong) ==
    LET extra == Cardinality({KeyType[k] : k \in matched} \ {KeyType[best]})
        raw == Weight[best] + CorroborationBoost * extra
    IN Lesser(MaxConfidence,
              IF best \in strong THEN raw ELSE Lesser(raw, AutoLinkThreshold - 1))

Heaviest(matched) == {k \in matched : \A other \in matched : Weight[other] <= Weight[k]}

\* decide(): every outcome that the row order of the lookup can lead to.  The sort
\* is by weight alone, so top picks one of the heaviest keys of each entity.
Decide(overlap, strong, top) ==
    LET score == [e \in DOMAIN overlap |-> Confidence(top[e], overlap[e], strong[e])]
        best == {e \in DOMAIN overlap : \A f \in DOMAIN overlap : score[f] <= score[e]}
        kind(m) == IF score[m] >= AutoLinkThreshold /\ best = {m} THEN "link"
                   ELSE IF score[m] >= ReviewThreshold THEN "review" ELSE "new_entity"
    IN {[kind |-> kind(m), match |-> m] : m \in best}

Tops(overlap) ==
    {top \in [DOMAIN overlap -> Keys] : \A e \in DOMAIN overlap : top[e] \in Heaviest(overlap[e])}

Outcomes(overlap, strong) ==
    IF DOMAIN overlap = {} THEN {[kind |-> "new_entity", match |-> NoEntity]}
    ELSE UNION {Decide(overlap, strong, top) : top \in Tops(overlap)}
=============================================================================
