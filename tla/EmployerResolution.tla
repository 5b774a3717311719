------------------------- MODULE EmployerResolution -------------------------
(***************************************************************************)
(* Two subjects in one row.  A record is linked to an entity of its own    *)
(* type and, when it is about a person and names an employer that can be   *)
(* identified, to that company; the record asserts that the one works at   *)
(* the other.  Stewards accept (merge) or reject the doubtful matches of   *)
(* either subject.                                                         *)
(*                                                                         *)
(* A record and a steward's command are one transaction each and follow    *)
(* one another; what overlapping ones do is the subject of                 *)
(* EntityResolution and GoldenRecord.  A key is of a person or of a        *)
(* company, and lookups see the keys of the type they ask for.             *)
(***************************************************************************)
EXTENDS MatchScore, Sequences

CONSTANTS
    NumRecords,     \* records 1 to NumRecords, in the order they are resolved
    StrongKeys,     \* keys whose type is strong
    DemotedKeys,    \* keys whose type a location source or a role mailbox demotes
    Statements,     \* what a record may say
    MaxDecisions    \* bound: candidates decided

Kinds == {"person", "company"}
Roles == {"self", "employer"}
Records == 1..NumRecords

\* An employer as the row tells it: whether there is a name that is one, whether
\* something beside it identifies a company, and the keys that can be built.  A row
\* is demoting when its source lists premises or its e-mail is that of a function.
Employer == [named : BOOLEAN, corroborated : BOOLEAN, keys : SUBSET Keys]
Statement == [kind : Kinds, keys : SUBSET Keys, demoting : BOOLEAN, employer : Employer]

ASSUME StatementAssumption ==
    /\ Statements \subseteq Statement
    /\ \A said \in Statements : said.kind = "company" =>
          said.employer = [named |-> FALSE, corroborated |-> FALSE, keys |-> {}]

\* A key is of a person or of a company: identity_key rows are looked up by the
\* entity type that they were built for.
KeysOf(kind) ==
    UNION ({said.keys : said \in {x \in Statements : x.kind = kind}}
           \cup IF kind = "company" THEN {said.employer.keys : said \in Statements} ELSE {})

\* A strong key reaches the auto-link threshold on its own (KEY_WEIGHTS).
ASSUME KeyAssumption ==
    /\ KeysOf("person") \cap KeysOf("company") = {}
    /\ StrongKeys \subseteq Keys /\ DemotedKeys \subseteq Keys
    /\ \A k \in StrongKeys : Weight[k] >= AutoLinkThreshold
ASSUME BoundAssumption == NumRecords \in Nat /\ MaxDecisions \in Nat

VARIABLES
    says,       \* says[r]: what record r says
    done,       \* the records resolved so far
    entity,     \* entity rows and their identity keys, in order of creation
    link,       \* link[r][role]: record_entity_link
    cand,       \* match_candidate rows, keyed by record and entity
    employed,   \* entity_relationship rows, keyed by the entities they relate
    decisions,  \* decisions so far
    crossed,    \* history: an entity was merged into one of the other type
    doubted     \* history: decisive keys of subjects whose lookup was not clear

vars == <<says, done, entity, link, cand, employed, decisions, crossed, doubted>>

---------------------------------------------------------------------------
Ids(rows) == DOMAIN rows

Active(rows, e) == rows[e].into = NoEntity

\* resolve_entity_id: follow the tombstones.
Resolve(rows, e) ==
    LET at[n \in 0..Len(rows)] ==
            IF n = 0 THEN e
            ELSE LET previous == at[n - 1]
                 IN IF Active(rows, previous) THEN previous ELSE rows[previous].into
    IN at[Len(rows)]

\* keys_for: the keys of a subject, and those that are decisive for it.  An employer is
\* an organisation, however the source is catalogued.
KindSaid(r, role) == IF role = "self" THEN says[r].kind ELSE "company"
KeysSaid(r, role) == IF role = "self" THEN says[r].keys ELSE says[r].employer.keys
StrongSaid(r, role) ==
    (KeysSaid(r, role) \cap StrongKeys)
    \ (IF role = "self" /\ says[r].demoting THEN DemotedKeys ELSE {})

\* candidates_for: what the keys lead to, and what of it is decisive for the subject
\* and for the entity.
Overlaps(rows, keys) ==
    [e \in {x \in Ids(rows) : Active(rows, x) /\ keys \cap rows[x].keys # {}} |->
        keys \cap rows[e].keys]

Decisions(rows, keys, strong) ==
    LET overlap == Overlaps(rows, keys)
    IN Outcomes(overlap, [e \in DOMAIN overlap |-> overlap[e] \cap strong \cap rows[e].strong])

\* add_keys: a key that the entity has already keeps the strength it was stored with.
WithKeys(row, keys, strong) ==
    [row EXCEPT !.keys = @ \cup keys, !.strong = @ \cup (strong \ row.keys)]

\* Some subject with one of these decisive keys is linked to e.
Claims(t, e, strong) ==
    \E q \in Records, part \in Roles :
        t.link[q][part] = e /\ StrongSaid(q, part) \cap strong # {}

\* The lookup is not clear: subjects with these decisive keys are two entities already,
\* or the heaviest key that leads to the one is not decisive for both.
Unclear(t, keys, strong) ==
    \E e \in Ids(t.entity) :
        /\ Claims(t, e, strong)
        /\ \/ \E f \in Ids(t.entity) \ {e} : Claims(t, f, strong)
           \/ /\ strong \cap t.entity[e].keys # {}
              /\ ~(Heaviest(keys \cap t.entity[e].keys) \subseteq strong \cap t.entity[e].strong)

\* What apply_decision leaves of the tables: a match is joined, and anything less
\* founds an entity of the given type, beside a candidate when a person is asked.
Applied(t, r, role, d) ==
    LET keys == KeysSaid(r, role)
        strong == StrongSaid(r, role)
        new == Len(t.entity) + 1
        joined == d.kind = "link"
        asked == \E c \in t.cand : c.record = r /\ c.entity = d.match
    IN [entity |-> IF joined
                   THEN [t.entity EXCEPT ![d.match] = WithKeys(@, keys, strong)]
                   ELSE Append(t.entity, [kind |-> KindSaid(r, role), into |-> NoEntity,
                                          keys |-> keys, strong |-> strong]),
        link |-> [t.link EXCEPT ![r][role] = IF joined THEN d.match ELSE new],
        cand |-> IF d.kind = "review" /\ ~asked
                 THEN t.cand \cup {[record |-> r, entity |-> d.match, status |-> "open"]}
                 ELSE t.cand,
        employed |-> t.employed,
        doubted |-> t.doubted \cup (IF Unclear(t, keys, strong) THEN strong ELSE {})]

---------------------------------------------------------------------------
\* employer_identity and the keys: who is worth an entity of its own.
Identified(employer) ==
    employer.named /\ employer.corroborated /\ employer.keys # {}

\* Faulty: relates the person to the company that was looked up, and not to the one
\* that the record was linked to.
AssertedOfMatch(t, r, d) ==
    LET from == t.link[r]["self"]
        to == IF d.match = NoEntity THEN t.link[r]["employer"] ELSE d.match
    IN IF from = to \/ \E x \in t.employed : x.from = from /\ x.to = to THEN t
       ELSE [t EXCEPT !.employed = @ \cup {[from |-> from, to |-> to, record |-> r]}]

\* Faulty: the two ends change places.
AssertedBackwards(t, r, d) ==
    LET from == t.link[r]["employer"]
        to == t.link[r]["self"]
    IN IF from = to \/ \E x \in t.employed : x.from = from /\ x.to = to THEN t
       ELSE [t EXCEPT !.employed = @ \cup {[from |-> from, to |-> to, record |-> r]}]

\* assert_relationship: one row for two entities, with the record that said so first.
Asserted(t, r, d) ==
    LET from == t.link[r]["self"]
        to == t.link[r]["employer"]
    IN IF from = to \/ \E x \in t.employed : x.from = from /\ x.to = to THEN t
       ELSE [t EXCEPT !.employed = @ \cup {[from |-> from, to |-> to, record |-> r]}]

\* resolve_employer: what it may leave of the tables t.
EmployerResolved(t, r) ==
    LET employer == says[r].employer
    IN IF ~Identified(employer) THEN {t}
       ELSE {Asserted(Applied(t, r, "employer", d), r, d) :
               d \in Decisions(t.entity, employer.keys, StrongSaid(r, "employer"))}

Tables == [entity |-> entity, link |-> link, cand |-> cand, employed |-> employed,
           doubted |-> doubted]

\* resolve_record, and the part of process that does the same: the record's own
\* entity and then its employer.
ResolveRecord(r) ==
    /\ r = done + 1
    /\ r <= NumRecords
    /\ \E d \in Decisions(entity, says[r].keys, StrongSaid(r, "self")) :
         \E t \in EmployerResolved(Applied(Tables, r, "self", d), r) :
            /\ entity' = t.entity
            /\ link' = t.link
            /\ cand' = t.cand
            /\ employed' = t.employed
            /\ doubted' = t.doubted
    /\ done' = r
    /\ UNCHANGED <<says, decisions, crossed>>

---------------------------------------------------------------------------
\* get_candidate joins the link of the record itself, whichever subject the
\* candidate is about.
EntityOfRecord(c) == link[c.record]["self"]

\* Faulty: the keys of the absorbed entity stay behind.
MergedWithoutKeys(merged, surviving) ==
    [entity EXCEPT ![merged].into = surviving]

\* merge_entities: keys are copied, and the absorbed entity points at the survivor.
Merged(merged, surviving) ==
    [entity EXCEPT ![surviving] = WithKeys(@, entity[merged].keys, entity[merged].strong),
                   ![merged].into = surviving]

Close(c, status) == (cand \ {c}) \cup {[c EXCEPT !.status = status]}

Decided(c, status) ==
    /\ c.status = "open"
    /\ decisions < MaxDecisions
    /\ decisions' = decisions + 1
    /\ cand' = Close(c, status)
    /\ UNCHANGED <<says, done, employed, doubted>>

\* accept_candidate: the links of the absorbed entity move; relationships do not.
Accept(c) ==
    LET merged == Resolve(entity, EntityOfRecord(c))
        surviving == Resolve(entity, c.entity)
    IN /\ Decided(c, "accepted")
       /\ IF merged = surviving THEN UNCHANGED <<entity, link, crossed>>
          ELSE /\ entity' = Merged(merged, surviving)
               /\ link' = [r \in Records |-> [role \in Roles |->
                             IF link[r][role] = merged THEN surviving ELSE link[r][role]]]
               /\ crossed' = (crossed \/ entity[merged].kind # entity[surviving].kind)

Reject(c) == Decided(c, "rejected") /\ UNCHANGED <<entity, link, crossed>>

Init ==
    /\ says \in [Records -> Statements]
    /\ done = 0
    /\ entity = <<>>
    /\ link = [r \in Records |-> [role \in Roles |-> NoEntity]]
    /\ cand = {}
    /\ employed = {}
    /\ decisions = 0
    /\ crossed = FALSE
    /\ doubted = {}

Next ==
    \/ \E r \in Records : ResolveRecord(r)
    \/ \E c \in cand : Accept(c) \/ Reject(c)

Spec == Init /\ [][Next]_vars

---------------------------------------------------------------------------
\* entity_relationships, read from either end: where e works and who works there.
Shown(e) == {x \in employed : Resolve(entity, e) \in {x.from, x.to}}

KindOf(e) == entity[e].kind
Linked(r, role) == link[r][role] # NoEntity

\* "link role always matches the entity it points at" (verify.sql, check 7): a record
\* is linked to an entity of its own type, and its employer to a company.
LinkRoleMatchesEntity ==
    \A r \in Records :
        /\ Linked(r, "self") => KindOf(link[r]["self"]) = says[r].kind
        /\ Linked(r, "employer") => KindOf(link[r]["employer"]) = "company"

\* "employment always runs person -> company" (verify.sql, check 8).
EmploymentRunsToCompany ==
    \A x \in employed : KindOf(x.from) = "person" /\ KindOf(x.to) = "company"

\* Every variable holds a value of its kind, every id is that of a row, and checks 7
\* and 8 of verify.sql hold unless entities of two types were merged.
TypeOK ==
    LET id == 1..Len(entity)
    IN /\ says \in [Records -> Statements]
       /\ done \in 0..NumRecords
       /\ entity \in Seq([kind : Kinds, into : id \cup {NoEntity}, keys : SUBSET Keys,
                        strong : SUBSET StrongKeys])
       /\ link \in [Records -> [Roles -> id \cup {NoEntity}]]
       /\ cand \subseteq [record : Records, entity : id,
                          status : {"open", "accepted", "rejected"}]
       /\ employed \subseteq [from : id, to : id, record : Records]
       /\ decisions \in 0..MaxDecisions
       /\ crossed \in BOOLEAN /\ doubted \subseteq StrongKeys
       /\ crossed \/ (LinkRoleMatchesEntity /\ EmploymentRunsToCompany)

\* "The relationship is asserted by a record, not by the system" (employer.py):
\* through any sequence of merges, the record that an employment cites still links
\* the survivors of its two ends, and every employer link has its employment.
EmploymentIsBacked ==
    /\ \A x \in employed :
          /\ Resolve(entity, x.from) = link[x.record]["self"]
          /\ Resolve(entity, x.to) = link[x.record]["employer"]
    /\ \A r \in Records : Linked(r, "employer") =>
          \/ link[r]["self"] = link[r]["employer"]
          \/ \E x \in employed : /\ Resolve(entity, x.from) = link[r]["self"]
                                 /\ Resolve(entity, x.to) = link[r]["employer"]

\* "An employer named in a person row and a company loaded from a company file must
\* land on the same entity, or the two halves of what is known about a company never
\* meet" (employer.py): two subjects that share a key which is decisive for both are
\* one entity, whichever rows they are and whatever stewards merged in between, unless
\* the lookup of a subject with that key was not clear.
HalvesMeet ==
    \A r, q \in Records : \A role, part \in Roles :
        /\ Linked(r, role) /\ Linked(q, part)
        /\ (StrongSaid(r, role) \cap StrongSaid(q, part)) \ doubted # {}
        => link[r][role] = link[q][part]

\* "A strong key can carry a link on its own" (keys.py): the same, however clear the
\* lookups were.
HalvesAlwaysMeet ==
    \A r, q \in Records : \A role, part \in Roles :
        /\ Linked(r, role) /\ Linked(q, part)
        /\ StrongSaid(r, role) \cap StrongSaid(q, part) # {}
        => link[r][role] = link[q][part]

\* "One stored row answers both questions, read from either end" (routers/entities.py):
\* asked for either end of an employment, by an id that was ever handed out, the
\* system names that employment.
EmploymentSeenFromBothEnds ==
    crossed \/ \A x \in employed : x \in Shown(x.from) /\ x \in Shown(x.to)

===========================================================================
