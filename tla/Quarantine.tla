---------------------------- MODULE Quarantine ----------------------------
(***************************************************************************)
(* The quarantine lifecycle of one completed batch: validation runs that   *)
(* snapshot the standing items once and then flush verdicts and            *)
(* transitions in chunks, the per-record path that writes a record with    *)
(* its verdict, reviewers who read an item and decide on what they read,   *)
(* and the resolvable_record view that entity resolution reads.            *)
(*                                                                         *)
(* A record's failures are the error-severity rules its observations fail  *)
(* under the mappings and the ruleset of the moment; Revise changes them.  *)
(* Only a rule of RecordRules makes the record invalid: an attribute error *)
(* condemns a value, not the row.                                          *)
(*                                                                         *)
(* A history entry is dated by now(), which is when the transaction that   *)
(* writes it began and not when it commits, and a history is shown in the  *)
(* order of those dates.  The clock therefore numbers transactions as they *)
(* begin, and a run's or a reviewer's transaction stays open across steps. *)
(***************************************************************************)
EXTENDS Naturals, FiniteSets

CONSTANTS
    Records,        \* raw records of the batch
    Rules,          \* error-severity rule ids
    RecordRules,    \* those that judge the record rather than one value
    Validators,     \* processes running validate_batch: consumer or CLI
    Reviewers,      \* people running the quarantine CLI
    System,         \* the actor of a machine decision
    FlushSize,      \* RECORD_FLUSH_SIZE
    MaxRevisions,   \* bound: changes of mapping or ruleset
    MaxRuns,        \* bound: validation runs started
    MaxDecisions    \* bound: decisions written by reviewers

ASSUME RulesAssumption == RecordRules \subseteq Rules
ASSUME ActorAssumption == System \notin Reviewers /\ Validators \cap Reviewers = {}
ASSUME BoundAssumption ==
    /\ FlushSize \in Nat \ {0}
    /\ MaxRevisions \in Nat
    /\ MaxRuns \in Nat
    /\ MaxDecisions \in Nat

VARIABLES
    stored,     \* records in raw_record, with their observations
    failures,   \* failures[r]: the error rules r fails as things stand now
    verdict,    \* verdict[r]: its record_validation row, if known, and its errors
    item,       \* item[r]: its quarantine_item row
    events,     \* events[r]: its quarantine_event rows
    run,        \* run[v]: the local state of a validation run
    desk,       \* desk[h]: the decision a reviewer's command is about to write
    clock,      \* the number of the last transaction that began
    budget      \* what the bounds leave

vars == <<stored, failures, verdict, item, events, run, desk, clock, budget>>

---------------------------------------------------------------------------
Standing == {"open", "released", "rejected", "resolved"}
NoItem == [status |-> "none", reasons |-> {}]
NoVerdict == [known |-> FALSE, errors |-> {}]
Verdict == [known : BOOLEAN, errors : SUBSET Rules]
Item == [status : Standing \cup {"none"}, reasons : SUBSET Rules]
Actions == {"quarantined", "released", "rejected", "resolved", "reopened",
            "reasons_changed"}
Event == [action : Actions, from : Standing \cup {"none"}, to : Standing,
          reasons : SUBSET Rules, actor : Reviewers \cup {System}, at : Nat]

Decision == [record : Records, action : {"released", "rejected", "reopened"},
             read : Item, began : Nat]

Budget == [revise : Nat, run : Nat, decide : Nat]
RunState == [pc : {"idle", "begun", "snapshot", "streaming"}, began : Nat,
             existing : [Records -> Item], seen : [Records -> SUBSET Rules],
             todo : SUBSET Records]

NoTransaction == 0
IdleRun == [pc |-> "idle", began |-> NoTransaction,
            existing |-> [r \in Records |-> NoItem],
            seen |-> [r \in Records |-> {}], todo |-> {}]


IsInvalid(errors) == errors \cap RecordRules # {}

KnownInvalid(r) == IsInvalid(verdict[r].errors)

\* The view's WHERE clause: rejection first, then a clean verdict or a release.
Resolvable(r) ==
    /\ verdict[r].known
    /\ item[r].status # "rejected"
    /\ KnownInvalid(r) => item[r].status = "released"

---------------------------------------------------------------------------
NoAction == "none"

\* Faulty routes, for the mutation runs: a rejection that validation reopens, a
\* release that any failure reopens, one that covers every failure, and a record
\* that is quarantined only the first time it fails.
RouteActionReopensRejection(errors, current) ==
    IF ~IsInvalid(errors)
    THEN IF current.status \in {"none", "resolved"} THEN NoAction ELSE "resolved"
    ELSE IF current.status \in {"none", "resolved"} THEN "quarantined"
    ELSE IF current.reasons = errors THEN NoAction ELSE "reopened"

RouteActionReopensRelease(errors, current) ==
    IF current.status = "rejected" THEN NoAction
    ELSE IF ~IsInvalid(errors)
         THEN IF current.status \in {"open", "released"} THEN "resolved" ELSE NoAction
    ELSE IF current.status \in {"none", "resolved"} THEN "quarantined"
    ELSE IF current.status = "released" THEN "reopened" ELSE "reasons_changed"

RouteActionForgivesAll(errors, current) ==
    IF current.status \in {"rejected", "released"} /\ IsInvalid(errors) THEN NoAction
    ELSE IF current.status = "rejected" THEN NoAction
    ELSE IF ~IsInvalid(errors)
         THEN IF current.status \in {"open", "released"} THEN "resolved" ELSE NoAction
    ELSE IF current.status \in {"none", "resolved"} THEN "quarantined" ELSE "reasons_changed"

RouteActionOnce(errors, current) ==
    IF current.status \in {"rejected", "resolved"} THEN NoAction
    ELSE IF ~IsInvalid(errors)
         THEN IF current.status \in {"open", "released"} THEN "resolved" ELSE NoAction
    ELSE IF current.status = "none" THEN "quarantined"
    ELSE IF current.reasons = errors THEN NoAction
    ELSE IF current.status = "released" THEN "reopened" ELSE "reasons_changed"

\* The action route() decides on for these errors, given the item it is shown.
RouteAction(errors, current) ==
    IF current.status = "rejected" THEN NoAction
    ELSE IF ~IsInvalid(errors)
         THEN IF current.status \in {"open", "released"} THEN "resolved" ELSE NoAction
    ELSE IF current.status \in {"none", "resolved"} THEN "quarantined"
    ELSE IF current.reasons = errors THEN NoAction
    ELSE IF current.status = "released" THEN "reopened"
    ELSE "reasons_changed"

\* Faulty: the status column takes the action's name.
RoutedAsAction(action, errors) ==
    [status |-> action, reasons |-> IF action = "resolved" THEN {} ELSE errors]

\* The item a routed action leaves: status and reason codes are both replaced.
Routed(action, errors) ==
    IF action = "resolved" THEN [status |-> "resolved", reasons |-> {}]
                           ELSE [status |-> "open", reasons |-> errors]

RouteEvent(action, errors, current, began) ==
    [action |-> action, from |-> current.status, to |-> Routed(action, errors).status,
     reasons |-> Routed(action, errors).reasons, actor |-> System, at |-> began]

\* Verdicts and transitions of the records in chunk, written in the transaction
\* that began then.  The upsert does not look at the row it replaces.
ApplyVerdicts(chunk, seen, existing, began) ==
    LET act == [r \in chunk |-> RouteAction(seen[r], existing[r])]
        moved == {r \in chunk : act[r] # NoAction}
    IN /\ verdict' = [r \in Records |-> IF r \in chunk THEN [known |-> TRUE, errors |-> seen[r]]
                                      ELSE verdict[r]]
       /\ item' = [r \in Records |->
                     IF r \in moved THEN Routed(act[r], seen[r]) ELSE item[r]]
       /\ events' = [r \in Records |->
                       IF r \in moved
                       THEN events[r] \cup {RouteEvent(act[r], seen[r], existing[r], began)}
                       ELSE events[r]]

---------------------------------------------------------------------------
Init ==
    /\ stored \in SUBSET Records
    /\ failures \in [Records -> SUBSET Rules]
    /\ verdict = [r \in Records |-> NoVerdict]
    /\ item = [r \in Records |-> NoItem]
    /\ events = [r \in Records |-> {}]
    /\ run = [v \in Validators |-> IdleRun]
    /\ desk = [h \in Reviewers |-> {}]
    /\ clock = 0
    /\ budget = [revise |-> MaxRevisions, run |-> MaxRuns, decide |-> MaxDecisions]

\* A mapping is corrected and the batch re-normalized, or the ruleset changes.
Revise(r, errors) ==
    /\ budget.revise > 0
    /\ failures[r] # errors
    /\ failures' = [failures EXCEPT ![r] = errors]
    /\ budget' = [budget EXCEPT !.revise = @ - 1]
    /\ UNCHANGED <<stored, verdict, item, events, run, desk, clock>>

\* A transaction begins.
Tick == clock' = clock + 1

\* The per-record path: a new record lands with its verdict and its routing.
ProcessRecord(r) ==
    /\ r \notin stored
    /\ stored' = stored \cup {r}
    /\ Tick
    /\ ApplyVerdicts({r}, failures, [x \in Records |-> NoItem], clock')
    /\ UNCHANGED <<failures, run, desk, budget>>

\* validate_batch opens its first transaction by reading the batch ...
StartRun(v) ==
    /\ run[v].pc = "idle"
    /\ stored # {}
    /\ budget.run > 0
    /\ Tick
    /\ run' = [run EXCEPT ![v] = [@ EXCEPT !.pc = "begun", !.began = clock']]
    /\ budget' = [budget EXCEPT !.run = @ - 1]
    /\ UNCHANGED <<stored, failures, verdict, item, events, desk>>

\* ... and in it reads the standing items of the whole batch, once, up front.
ReadStanding(v) ==
    /\ run[v].pc = "begun"
    /\ run' = [run EXCEPT ![v] = [@ EXCEPT !.pc = "snapshot", !.existing = item]]
    /\ UNCHANGED <<stored, failures, verdict, item, events, desk, clock, budget>>

\* Then it opens the stream of observations on a second connection.
OpenStream(v) ==
    /\ run[v].pc = "snapshot"
    /\ run' = [run EXCEPT ![v] = [@ EXCEPT !.pc = "streaming", !.seen = failures,
                                            !.todo = stored]]
    /\ UNCHANGED <<stored, failures, verdict, item, events, desk, clock, budget>>

\* One flush: up to FlushSize records, all of them when fewer are left.
Chunks(todo) ==
    {chunk \in SUBSET todo : \/ Cardinality(chunk) = FlushSize
                             \/ chunk = todo /\ Cardinality(chunk) < FlushSize}

\* A flush commits.  The first one in the transaction the run began with, so it
\* dates its entries before anything that happened since; every later one in a
\* transaction that its own first insert begins.
BeginFlush(v) ==
    /\ run[v].pc = "streaming"
    /\ run[v].began = NoTransaction
    /\ Tick
    /\ run' = [run EXCEPT ![v].began = clock']
    /\ UNCHANGED <<stored, failures, verdict, item, events, desk, budget>>

Flushed(q, chunk) == [q EXCEPT !.todo = @ \ chunk, !.began = NoTransaction]

Flush(v) ==
    /\ run[v].pc = "streaming"
    /\ run[v].began # NoTransaction
    /\ \E chunk \in Chunks(run[v].todo) :
        /\ ApplyVerdicts(chunk, run[v].seen, run[v].existing, run[v].began)
        /\ run' = IF chunk = run[v].todo
                  THEN [run EXCEPT ![v] = IdleRun]
                  ELSE [run EXCEPT ![v] = Flushed(@, chunk)]
    /\ UNCHANGED <<stored, failures, desk, clock, budget>>

\* The process dies: what it has not flushed is lost, a later run starts over.
Crash(v) ==
    /\ run[v].pc # "idle"
    /\ run' = [run EXCEPT ![v] = IdleRun]
    /\ UNCHANGED <<stored, failures, verdict, item, events, desk, clock, budget>>

\* review(): which decisions a standing item admits, and what they lead to.
Reviewable(action, current) ==
    IF action = "reopened" THEN current.status # "open"
    ELSE current.status \notin {"resolved", action}

ReviewedStatus(action) == IF action = "reopened" THEN "open" ELSE action

\* The CLI command reads the item, which begins its transaction, and takes its
\* decision on that reading ...
ReadItem(h, r, action) ==
    /\ desk[h] = {}
    /\ item[r].status # "none"
    /\ Reviewable(action, item[r])
    /\ budget.decide > 0
    /\ Tick
    /\ desk' = [desk EXCEPT ![h] = {[record |-> r, action |-> action, read |-> item[r],
                                     began |-> clock']}]
    /\ budget' = [budget EXCEPT !.decide = @ - 1]
    /\ UNCHANGED <<stored, failures, verdict, item, events, run>>

\* Faulty: the decision is written without its history entry.
RecordReviewSilently(h) ==
    \E d \in desk[h] :
        /\ item' = [item EXCEPT ![d.record].status = ReviewedStatus(d.action)]
        /\ desk' = [desk EXCEPT ![h] = {}]
        /\ UNCHANGED <<stored, failures, verdict, events, run, clock, budget>>

\* ... and record_review writes it by id: the status, not the reason codes,
\* with an event that carries the status and the reasons that were read.
RecordReview(h) ==
    \E d \in desk[h] :
        LET to == ReviewedStatus(d.action)
        IN /\ item' = [item EXCEPT ![d.record].status = to]
           /\ events' = [events EXCEPT ![d.record] = @ \cup
                           {[action |-> d.action, from |-> d.read.status, to |-> to,
                             reasons |-> d.read.reasons, actor |-> h, at |-> d.began]}]
           /\ desk' = [desk EXCEPT ![h] = {}]
           /\ UNCHANGED <<stored, failures, verdict, run, clock, budget>>

Next ==
    \/ \E r \in Records, errors \in SUBSET Rules : Revise(r, errors)
    \/ \E r \in Records : ProcessRecord(r)
    \/ \E v \in Validators : \/ StartRun(v) \/ ReadStanding(v) \/ OpenStream(v)
                             \/ BeginFlush(v) \/ Flush(v) \/ Crash(v)
    \/ \E h \in Reviewers, r \in Records, action \in {"released", "rejected", "reopened"} :
          ReadItem(h, r, action)
    \/ \E h \in Reviewers : RecordReview(h)

\* Every interleaving of runs, reviews and record processing.
Spec == Init /\ [][Next]_vars

\* One command at a time: a run or a review starts when no other is under way,
\* and no record lands in the middle of one.
Busy == {v \in Validators : run[v].pc # "idle"} \cup {h \in Reviewers : desk[h] # {}}
OneAtATime == \A p, q \in Busy : p = q

SerialNext ==
    /\ Next
    /\ OneAtATime'
    /\ stored' # stored => Busy = {}

SerialSpec == Init /\ [][SerialNext]_vars

---------------------------------------------------------------------------
\* Every variable holds a value of its kind, and a row that refers to a record
\* has one: a verdict only for a stored record, an item only with a verdict.
TypeOK ==
    /\ stored \in SUBSET Records
    /\ failures \in [Records -> SUBSET Rules]
    /\ verdict \in [Records -> Verdict]
    /\ item \in [Records -> Item]
    /\ events \in [Records -> SUBSET Event]
    /\ run \in [Validators -> RunState]
    /\ desk \in [Reviewers -> SUBSET Decision]
    /\ clock \in Nat
    /\ budget \in Budget
    /\ \A r \in Records : verdict[r].known => r \in stored
    /\ \A r \in Records : item[r].status # "none" => verdict[r].known

\* A history as it is shown: in the order of its dates.
IsLatest(e, history) == e \in history /\ \A f \in history : f.at <= e.at

LeadsTo(history, status) ==
    IF history = {} THEN status = "none"
    ELSE \E e \in history : IsLatest(e, history) /\ e.to = status

\* "The item and its history entry can never diverge" (_APPLY_TRANSITION): the
\* history shown by date is an unbroken chain, each entry starting at the status
\* the one before it led to, and the latest one leads to the item's status.
\* True one command at a time; a run or a reviewer whose transaction began before
\* somebody else's decision dates its entry before that decision.
HistoryMatchesItem ==
    \A r \in Records :
        /\ LeadsTo(events[r], item[r].status)
        /\ \A e \in events[r] : LeadsTo({f \in events[r] : f.at < e.at}, e.from)

\* "There is never a moment when a record is known-invalid but not yet
\* quarantined" (flush in validate_batch): an invalid verdict has an item that is
\* open for review or that a person has decided on, never a resolved one.
QuarantinedWhileInvalid ==
    \A r \in Records : KnownInvalid(r) =>
        item[r].status \in {"open", "released", "rejected"}

\* This step is a reviewer's decision on r.
DecidedBySomeone(r) ==
    \E h \in Reviewers : desk'[h] = {} /\ \E d \in desk[h] : d.record = r

\* "A human's rejection is terminal" (route): only a person's decision takes an
\* item out of rejected.
RejectionIsTerminal ==
    [][\A r \in Records :
         item[r].status = "rejected" /\ item'[r].status # "rejected" =>
            DecidedBySomeone(r)]_vars

\* "It survives the same failure recurring" (README, Quarantine): validation
\* takes a release away only for a verdict without errors or with reasons that
\* differ from the ones released.
ReleaseSurvivesSameFailure ==
    [][\A r \in Records :
         item[r].status = "released" /\ item'[r].status # "released" =>
            \/ DecidedBySomeone(r)
            \/ ~KnownInvalid(r)'
            \/ verdict'[r].errors # item[r].reasons]_vars

\* "They signed off on one problem, not on any future one" (README): while a
\* release is what makes an invalid record resolvable, the errors of its verdict
\* are exactly the reasons it was released with, for a record nobody rejected.
ReleaseCoversVerdict ==
    \A r \in Records :
        /\ item[r].status = "released"
        /\ KnownInvalid(r)
        /\ \A e \in events[r] : e.to # "rejected"
        => /\ verdict[r].errors = item[r].reasons
           /\ \E e \in events[r] : IsLatest(e, events[r]) /\ e.reasons = item[r].reasons

===========================================================================
