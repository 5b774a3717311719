------------------------- MODULE QuarantineProofs -------------------------
(***************************************************************************)
(* Proofs about Quarantine, for every set of records, rules, validators    *)
(* and reviewers and for every bound.                                      *)
(***************************************************************************)
EXTENDS Quarantine, TLAPS

---------------------------------------------------------------------------
(* What route() and the upsert it feeds return.                            *)

\* route() names one of the actions quarantine_event admits, or nothing.
LEMMA RouteActionType ==
    ASSUME NEW errors \in SUBSET Rules, NEW current \in Item
    PROVE  RouteAction(errors, current) \in Actions \cup {NoAction}
BY DEF RouteAction, Actions, NoAction

\* A routed item is open with the errors as reasons, or resolved with none.
LEMMA RoutedType ==
    ASSUME NEW action, NEW errors \in SUBSET Rules
    PROVE  /\ Routed(action, errors) \in Item
           /\ Routed(action, errors).status \in {"open", "resolved"}
           /\ action # "resolved" => Routed(action, errors).status = "open"
BY DEF Routed, Item, Standing

\* The event of a routed action is a row the table admits.
LEMMA RouteEventType ==
    ASSUME NEW errors \in SUBSET Rules, NEW current \in Item, NEW began \in Nat,
           RouteAction(errors, current) # NoAction
    PROVE  RouteEvent(RouteAction(errors, current), errors, current, began) \in Event
<1>1. RouteAction(errors, current) \in Actions
    BY RouteActionType
<1>2. Routed(RouteAction(errors, current), errors) \in Item
    BY RoutedType
<1>3. Routed(RouteAction(errors, current), errors).status \in Standing
    BY RoutedType DEF Standing
<1> QED
    BY <1>1, <1>2, <1>3 DEF RouteEvent, Event, Item

\* The step adds this entry to the history of r.
Enters(r, ev) == events'[r] = events[r] \cup {ev}

RowKept(r) == verdict'[r] = verdict[r] /\ item'[r] = item[r] /\ events'[r] = events[r]

\* One row of ApplyVerdicts: what becomes of the record r.
LEMMA ApplyRow ==
    ASSUME NEW chunk \in SUBSET Records,
           NEW seen \in [Records -> SUBSET Rules],
           NEW existing \in [Records -> Item], NEW began \in Nat,
           ApplyVerdicts(chunk, seen, existing, began),
           NEW r \in Records
    PROVE  /\ r \notin chunk => RowKept(r)
           /\ r \in chunk => verdict'[r] = [known |-> TRUE, errors |-> seen[r]]
           /\ r \in chunk /\ RouteAction(seen[r], existing[r]) = NoAction =>
                 item'[r] = item[r] /\ events'[r] = events[r]
           /\ r \in chunk /\ RouteAction(seen[r], existing[r]) # NoAction =>
                 /\ item'[r] = Routed(RouteAction(seen[r], existing[r]), seen[r])
                 /\ Enters(r, RouteEvent(RouteAction(seen[r], existing[r]), seen[r],
                                         existing[r], began))
BY DEF ApplyVerdicts, Enters, RowKept

\* A record of the chunk that the routing leaves alone, and one that it moves.
LEMMA ApplyQuiet ==
    ASSUME NEW chunk \in SUBSET Records,
           NEW seen \in [Records -> SUBSET Rules],
           NEW existing \in [Records -> Item], NEW began \in Nat,
           ApplyVerdicts(chunk, seen, existing, began),
           NEW r \in Records, r \in chunk, RouteAction(seen[r], existing[r]) = NoAction
    PROVE  item'[r] = item[r] /\ events'[r] = events[r]
BY DEF ApplyVerdicts

LEMMA ApplyRouted ==
    ASSUME NEW chunk \in SUBSET Records,
           NEW seen \in [Records -> SUBSET Rules],
           NEW existing \in [Records -> Item], NEW began \in Nat,
           ApplyVerdicts(chunk, seen, existing, began),
           NEW r \in Records, r \in chunk, RouteAction(seen[r], existing[r]) # NoAction
    PROVE  /\ item'[r] = Routed(RouteAction(seen[r], existing[r]), seen[r])
           /\ Enters(r, RouteEvent(RouteAction(seen[r], existing[r]), seen[r],
                                   existing[r], began))
BY ApplyRow

\* The entries it adds are dated as the transaction.
LEMMA ApplyDates ==
    ASSUME NEW chunk \in SUBSET Records,
           NEW seen \in [Records -> SUBSET Rules],
           NEW existing \in [Records -> Item], NEW began \in Nat,
           ApplyVerdicts(chunk, seen, existing, began),
           NEW r \in Records, NEW e \in events'[r]
    PROVE  e \in events[r] \/ e.at = began
<1> DEFINE ev == RouteEvent(RouteAction(seen[r], existing[r]), seen[r], existing[r], began)
<1>1. ev.at = began
    BY DEF RouteEvent
<1>2. CASE r \notin chunk
    BY <1>2, ApplyRow DEF RowKept
<1>3. CASE r \in chunk /\ RouteAction(seen[r], existing[r]) = NoAction
    BY <1>3, ApplyQuiet
<1>4. CASE r \in chunk /\ RouteAction(seen[r], existing[r]) # NoAction
    <2>1. Enters(r, ev)
        BY <1>4, ApplyRouted
    <2> HIDE DEF ev
    <2> QED
        BY <1>1, <2>1 DEF Enters
<1> QED
    BY <1>2, <1>3, <1>4

\* The same of the verdict and the item alone.
LEMMA ApplyItem ==
    ASSUME NEW chunk \in SUBSET Records,
           NEW seen \in [Records -> SUBSET Rules],
           NEW existing \in [Records -> Item], NEW began \in Nat,
           ApplyVerdicts(chunk, seen, existing, began),
           NEW r \in Records
    PROVE  /\ r \notin chunk => verdict'[r] = verdict[r] /\ item'[r] = item[r]
           /\ r \in chunk => verdict'[r] = [known |-> TRUE, errors |-> seen[r]]
           /\ r \in chunk /\ RouteAction(seen[r], existing[r]) = NoAction =>
                 item'[r] = item[r]
           /\ r \in chunk /\ RouteAction(seen[r], existing[r]) # NoAction =>
                 item'[r] = Routed(RouteAction(seen[r], existing[r]), seen[r])
BY DEF ApplyVerdicts

\* ApplyVerdicts keeps the three tables functions over the records.
LEMMA ApplyType ==
    ASSUME NEW chunk \in SUBSET Records,
           NEW seen \in [Records -> SUBSET Rules],
           NEW existing \in [Records -> Item], NEW began \in Nat,
           verdict \in [Records -> Verdict], item \in [Records -> Item],
           events \in [Records -> SUBSET Event],
           ApplyVerdicts(chunk, seen, existing, began)
    PROVE  /\ verdict' \in [Records -> Verdict]
           /\ item' \in [Records -> Item]
           /\ events' \in [Records -> SUBSET Event]
<1>1. /\ verdict' = [r \in Records |-> verdict'[r]]
      /\ item' = [r \in Records |-> item'[r]]
      /\ events' = [r \in Records |-> events'[r]]
    BY DEF ApplyVerdicts
<1>2. ASSUME NEW r \in Records
      PROVE  verdict'[r] \in Verdict /\ item'[r] \in Item /\ events'[r] \in SUBSET Event
    <2> DEFINE act == RouteAction(seen[r], existing[r])
    <2>1. CASE r \notin chunk
        <3>1. verdict'[r] = verdict[r] /\ item'[r] = item[r] /\ events'[r] = events[r]
            BY <2>1, ApplyRow DEF RowKept
        <3> QED
            BY <3>1
    <2>2. CASE r \in chunk /\ act = NoAction
        <3>1. /\ verdict'[r] = [known |-> TRUE, errors |-> seen[r]]
              /\ item'[r] = item[r]
              /\ events'[r] = events[r]
            BY <2>2, ApplyRow
        <3> QED
            BY <3>1 DEF Verdict
    <2>3. CASE r \in chunk /\ act # NoAction
        <3>1. Routed(act, seen[r]) \in Item
            BY RoutedType
        <3>2. RouteEvent(act, seen[r], existing[r], began) \in Event
            BY <2>3, RouteEventType
        <3>3. /\ verdict'[r] = [known |-> TRUE, errors |-> seen[r]]
              /\ item'[r] = Routed(act, seen[r])
              /\ Enters(r, RouteEvent(act, seen[r], existing[r], began))
            BY <2>3, ApplyRow
        <3> HIDE DEF act
        <3> QED
            BY <3>1, <3>2, <3>3 DEF Verdict, Enters
    <2> QED
        BY <2>1, <2>2, <2>3
<1> QED
    BY <1>1, <1>2

---------------------------------------------------------------------------
(* Type correctness.  TypeOK alone is not inductive: a flush must know that *)
(* the records it has left to write are stored, and a reviewer's command    *)
(* that the item it read is still there (items are never deleted).          *)

RunReadsStored == \A v \in Validators : run[v].todo \subseteq stored

DeskHoldsItem ==
    \A h \in Reviewers : \A d \in desk[h] : item[d.record].status # "none"

TypeInv == TypeOK /\ RunReadsStored /\ DeskHoldsItem

LEMMA IdleRunType == IdleRun \in RunState
BY DEF IdleRun, RunState, NoItem, Item, NoTransaction

\* The local state of a run that begins or opens a transaction ...
LEMMA BegunType ==
    ASSUME NEW q \in RunState, NEW began \in Nat
    PROVE  /\ [q EXCEPT !.pc = "begun", !.began = began] \in RunState
           /\ [q EXCEPT !.began = began] \in RunState
BY DEF RunState

\* ... of one that has read the standing items, or has opened the stream ...
LEMMA ReadingType ==
    ASSUME NEW q \in RunState, NEW items \in [Records -> Item],
           NEW seen \in [Records -> SUBSET Rules], NEW todo \in SUBSET Records
    PROVE  /\ [q EXCEPT !.pc = "snapshot", !.existing = items] \in RunState
           /\ [q EXCEPT !.pc = "streaming", !.seen = seen, !.todo = todo] \in RunState
BY DEF RunState

\* ... and of one that has flushed a chunk and has more to do.
LEMMA FlushedType ==
    ASSUME NEW q \in RunState, NEW chunk \in SUBSET Records
    PROVE  /\ Flushed(q, chunk) \in RunState
           /\ Flushed(q, chunk).pc = q.pc
           /\ Flushed(q, chunk).todo = q.todo \ chunk
           /\ Flushed(q, chunk).began = NoTransaction
           /\ Flushed(q, chunk).existing = q.existing
<1>1. NoTransaction \in Nat
    BY DEF NoTransaction
<1>2. q.todo \ chunk \in SUBSET Records
    BY DEF RunState
<1> QED
    BY <1>1, <1>2 DEF RunState, Flushed

LEMMA SpendType ==
    ASSUME NEW b \in Budget
    PROVE  /\ b.revise > 0 => [b EXCEPT !.revise = @ - 1] \in Budget
           /\ b.run > 0 => [b EXCEPT !.run = @ - 1] \in Budget
           /\ b.decide > 0 => [b EXCEPT !.decide = @ - 1] \in Budget
BY DEF Budget

\* A step that leaves the tables alone keeps what they say about each other.
LEMMA TablesUnchanged ==
    ASSUME TypeInv,
           UNCHANGED <<stored, verdict, item, events>>,
           failures' \in [Records -> SUBSET Rules],
           run' \in [Validators -> RunState],
           desk' \in [Reviewers -> SUBSET Decision],
           clock' \in Nat,
           budget' \in Budget,
           RunReadsStored', DeskHoldsItem'
    PROVE  TypeInv'
BY DEF TypeInv, TypeOK

LEMMA InitTypeInv == Init => TypeInv
BY BoundAssumption
   DEF Init, TypeInv, TypeOK, RunReadsStored, DeskHoldsItem, NoVerdict, Verdict,
       NoItem, Item, IdleRun, RunState, Budget, NoTransaction

\* Writing verdicts of stored records keeps every row's reference: a record
\* with a verdict is stored, one with an item has a verdict, no item vanishes.
LEMMA ApplyReferences ==
    ASSUME TypeOK,
           NEW chunk \in SUBSET Records, chunk \subseteq stored',
           stored \subseteq stored',
           NEW seen \in [Records -> SUBSET Rules],
           NEW existing \in [Records -> Item], NEW began \in Nat,
           ApplyVerdicts(chunk, seen, existing, began)
    PROVE  /\ \A r \in Records : verdict'[r].known => r \in stored'
           /\ \A r \in Records : item'[r].status # "none" => verdict'[r].known
           /\ \A r \in Records : item[r].status # "none" => item'[r].status # "none"
<1> SUFFICES ASSUME NEW r \in Records
             PROVE  /\ verdict'[r].known => r \in stored'
                    /\ item'[r].status # "none" => verdict'[r].known
                    /\ item[r].status # "none" => item'[r].status # "none"
    OBVIOUS
<1> DEFINE act == RouteAction(seen[r], existing[r])
<1>1. CASE r \notin chunk
    <2>1. verdict'[r] = verdict[r] /\ item'[r] = item[r]
        BY <1>1, ApplyItem
    <2> QED
        BY <2>1 DEF TypeOK
<1>2. CASE r \in chunk
    <2>1. verdict'[r] = [known |-> TRUE, errors |-> seen[r]]
        BY <1>2, ApplyItem
    <2>2. item'[r] = item[r] \/ item'[r] = Routed(act, seen[r])
        BY <1>2, ApplyItem
    <2>3. Routed(act, seen[r]).status # "none"
        BY RoutedType
    <2> HIDE DEF act
    <2> QED
        BY <1>2, <2>1, <2>2, <2>3
<1> QED
    BY <1>1, <1>2

LEMMA ProcessRecordTypeInv ==
    ASSUME TypeInv, NEW r \in Records, ProcessRecord(r)
    PROVE  TypeInv'
<1> DEFINE none == [x \in Records |-> NoItem]
<1>1. none \in [Records -> Item] /\ clock' \in Nat
    BY DEF NoItem, Item, ProcessRecord, Tick, TypeInv, TypeOK
<1>2. /\ {r} \in SUBSET Records /\ {r} \subseteq stored' /\ stored \subseteq stored'
      /\ failures \in [Records -> SUBSET Rules]
      /\ ApplyVerdicts({r}, failures, none, clock')
    BY DEF ProcessRecord, TypeInv, TypeOK
<1> HIDE DEF none
<1>3. /\ verdict' \in [Records -> Verdict]
      /\ item' \in [Records -> Item]
      /\ events' \in [Records -> SUBSET Event]
    BY <1>1, <1>2, ApplyType DEF TypeInv, TypeOK
<1>4. /\ \A x \in Records : verdict'[x].known => x \in stored'
      /\ \A x \in Records : item'[x].status # "none" => verdict'[x].known
      /\ \A x \in Records : item[x].status # "none" => item'[x].status # "none"
    BY <1>1, <1>2, ApplyReferences DEF TypeInv
<1>5. TypeOK'
    BY <1>1, <1>3, <1>4 DEF ProcessRecord, TypeInv, TypeOK
<1>6. RunReadsStored'
    BY <1>2 DEF ProcessRecord, TypeInv, RunReadsStored
<1>7. DeskHoldsItem'
    BY <1>4 DEF ProcessRecord, TypeInv, TypeOK, DeskHoldsItem, Decision
<1> QED
    BY <1>5, <1>6, <1>7 DEF TypeInv

LEMMA FlushTypeInv ==
    ASSUME TypeInv, NEW v \in Validators, Flush(v)
    PROVE  TypeInv'
<1>1. PICK chunk \in Chunks(run[v].todo) :
        /\ ApplyVerdicts(chunk, run[v].seen, run[v].existing, run[v].began)
        /\ run' = IF chunk = run[v].todo THEN [run EXCEPT ![v] = IdleRun]
                  ELSE [run EXCEPT ![v] = Flushed(@, chunk)]
    BY DEF Flush
<1>2. UNCHANGED <<stored, failures, desk, clock, budget>>
    BY DEF Flush
<1>3. /\ run[v].began \in Nat /\ run[v].seen \in [Records -> SUBSET Rules]
      /\ run[v].existing \in [Records -> Item]
      /\ run[v].todo \in SUBSET Records
      /\ chunk \in SUBSET Records /\ chunk \subseteq stored' /\ stored \subseteq stored'
    BY <1>1, <1>2 DEF TypeInv, TypeOK, RunState, RunReadsStored, Chunks
<1>4. /\ verdict' \in [Records -> Verdict]
      /\ item' \in [Records -> Item]
      /\ events' \in [Records -> SUBSET Event]
    BY <1>1, <1>3, ApplyType DEF TypeInv, TypeOK
<1>5. /\ \A x \in Records : verdict'[x].known => x \in stored'
      /\ \A x \in Records : item'[x].status # "none" => verdict'[x].known
      /\ \A x \in Records : item[x].status # "none" => item'[x].status # "none"
    BY <1>1, <1>3, ApplyReferences DEF TypeInv
<1>6. TypeOK'
    <2>1. run' \in [Validators -> RunState]
        BY <1>1, <1>3, IdleRunType, FlushedType DEF TypeInv, TypeOK
    <2> QED
        BY <1>2, <1>4, <1>5, <2>1 DEF TypeInv, TypeOK
<1>7. RunReadsStored'
    <2> SUFFICES ASSUME NEW w \in Validators
                 PROVE  run'[w].todo \subseteq stored
        BY <1>2 DEF RunReadsStored
    <2>1. run[w] \in RunState /\ run[w].todo \subseteq stored
        BY DEF TypeInv, TypeOK, RunReadsStored
    <2>2. CASE w # v
        BY <1>1, <2>1, <2>2 DEF TypeInv, TypeOK
    <2>3. CASE w = v /\ chunk = run[v].todo
        BY <1>1, <2>3 DEF IdleRun, TypeInv, TypeOK
    <2>4. CASE w = v /\ chunk # run[v].todo
        <3>1. run'[v] = Flushed(run[v], chunk)
            BY <1>1, <2>4 DEF TypeInv, TypeOK
        <3>2. run'[v].todo = run[v].todo \ chunk
            BY <1>3, <2>1, <2>4, <3>1, FlushedType
        <3> QED
            BY <2>1, <2>4, <3>2
    <2> QED
        BY <2>2, <2>3, <2>4
<1>8. DeskHoldsItem'
    BY <1>2, <1>5 DEF TypeInv, TypeOK, DeskHoldsItem, Decision
<1> QED
    BY <1>6, <1>7, <1>8 DEF TypeInv

LEMMA RecordReviewTypeInv ==
    ASSUME TypeInv, NEW h \in Reviewers, RecordReview(h)
    PROVE  TypeInv'
<1>1. PICK d \in desk[h] :
        /\ item' = [item EXCEPT ![d.record].status = ReviewedStatus(d.action)]
        /\ events' = [events EXCEPT ![d.record] = @ \cup
                        {[action |-> d.action, from |-> d.read.status,
                          to |-> ReviewedStatus(d.action), reasons |-> d.read.reasons,
                          actor |-> h, at |-> d.began]}]
        /\ desk' = [desk EXCEPT ![h] = {}]
        /\ UNCHANGED <<stored, failures, verdict, run, clock, budget>>
    BY DEF RecordReview
<1>2. d \in Decision
    BY DEF TypeInv, TypeOK
<1>3. ReviewedStatus(d.action) \in Standing
    BY <1>2 DEF Decision, ReviewedStatus, Standing
<1>4. [action |-> d.action, from |-> d.read.status, to |-> ReviewedStatus(d.action),
       reasons |-> d.read.reasons, actor |-> h, at |-> d.began] \in Event
    BY <1>2, <1>3 DEF Decision, Event, Actions, Item
<1>5. item' \in [Records -> Item]
    BY <1>1, <1>2, <1>3 DEF TypeInv, TypeOK, Item, Decision
<1>6. events' \in [Records -> SUBSET Event]
    BY <1>1, <1>2, <1>4 DEF TypeInv, TypeOK, Decision
<1>7. /\ item[d.record].status # "none"
      /\ \A x \in Records : item[x].status # "none" <=> item'[x].status # "none"
    BY <1>1, <1>2, <1>3 DEF TypeInv, TypeOK, DeskHoldsItem, Item, Decision, Standing
<1>8. TypeOK'
    BY <1>1, <1>5, <1>6, <1>7 DEF TypeInv, TypeOK
<1>9. RunReadsStored' /\ DeskHoldsItem'
    BY <1>1, <1>7 DEF TypeInv, TypeOK, RunReadsStored, DeskHoldsItem, Decision
<1> QED
    BY <1>8, <1>9 DEF TypeInv

LEMMA NextTypeInv == TypeInv /\ [Next]_vars => TypeInv'
<1> SUFFICES ASSUME TypeInv, [Next]_vars
             PROVE  TypeInv'
    OBVIOUS
<1> USE DEF TypeInv
<1>1. ASSUME NEW r \in Records, NEW errors \in SUBSET Rules, Revise(r, errors)
      PROVE  TypeInv'
    <2>1. failures' \in [Records -> SUBSET Rules]
        BY <1>1 DEF Revise, TypeOK
    <2>2. budget' \in Budget
        BY <1>1, SpendType DEF Revise, TypeOK
    <2>3. RunReadsStored' /\ DeskHoldsItem'
        BY <1>1 DEF Revise, RunReadsStored, DeskHoldsItem
    <2> QED
        BY <1>1, <2>1, <2>2, <2>3, TablesUnchanged DEF Revise, TypeOK
<1>2. ASSUME NEW r \in Records, ProcessRecord(r)
      PROVE  TypeInv'
    BY <1>2, ProcessRecordTypeInv
<1>3. ASSUME NEW v \in Validators, StartRun(v)
      PROVE  TypeInv'
    <2>1. budget' \in Budget
        BY <1>3, SpendType DEF StartRun, TypeOK
    <2>2. clock' \in Nat /\ run' \in [Validators -> RunState]
        <3> DEFINE q == [run[v] EXCEPT !.pc = "begun", !.began = clock']
        <3>1. clock' \in Nat /\ run' = [run EXCEPT ![v] = q]
            BY <1>3 DEF StartRun, Tick, TypeOK
        <3>2. q \in RunState
            BY <3>1, BegunType DEF TypeOK
        <3> HIDE DEF q
        <3> QED
            BY <3>1, <3>2 DEF TypeOK
    <2>3. RunReadsStored' /\ DeskHoldsItem'
        BY <1>3 DEF StartRun, TypeOK, RunState, RunReadsStored, DeskHoldsItem
    <2> QED
        BY <1>3, <2>1, <2>2, <2>3, TablesUnchanged DEF StartRun, TypeOK
<1>10. ASSUME NEW v \in Validators, ReadStanding(v)
      PROVE  TypeInv'
    <2>1. run' \in [Validators -> RunState]
        <3> DEFINE q == [run[v] EXCEPT !.pc = "snapshot", !.existing = item]
        <3>1. run' = [run EXCEPT ![v] = q]
            BY <1>10 DEF ReadStanding
        <3>2. q \in RunState
            BY ReadingType DEF TypeOK
        <3> HIDE DEF q
        <3> QED
            BY <3>1, <3>2 DEF TypeOK
    <2>2. RunReadsStored' /\ DeskHoldsItem'
        BY <1>10 DEF ReadStanding, TypeOK, RunState, RunReadsStored, DeskHoldsItem
    <2> QED
        BY <1>10, <2>1, <2>2, TablesUnchanged DEF ReadStanding, TypeOK
<1>11. ASSUME NEW v \in Validators, BeginFlush(v)
      PROVE  TypeInv'
    <2>1. clock' \in Nat /\ run' \in [Validators -> RunState]
        <3> DEFINE q == [run[v] EXCEPT !.began = clock']
        <3>1. clock' \in Nat /\ run' = [run EXCEPT ![v] = q]
            BY <1>11 DEF BeginFlush, Tick, TypeOK
        <3>2. q \in RunState
            BY <3>1, BegunType DEF TypeOK
        <3> HIDE DEF q
        <3> QED
            BY <3>1, <3>2 DEF TypeOK
    <2>2. RunReadsStored' /\ DeskHoldsItem'
        BY <1>11 DEF BeginFlush, TypeOK, RunState, RunReadsStored, DeskHoldsItem
    <2> QED
        BY <1>11, <2>1, <2>2, TablesUnchanged DEF BeginFlush, TypeOK
<1>4. ASSUME NEW v \in Validators, OpenStream(v)
      PROVE  TypeInv'
    <2>1. run' \in [Validators -> RunState]
        <3> DEFINE q == [run[v] EXCEPT !.pc = "streaming", !.seen = failures, !.todo = stored]
        <3>1. run' = [run EXCEPT ![v] = q]
            BY <1>4 DEF OpenStream
        <3>2. q \in RunState
            BY ReadingType DEF TypeOK
        <3> HIDE DEF q
        <3> QED
            BY <3>1, <3>2 DEF TypeOK
    <2>2. RunReadsStored' /\ DeskHoldsItem'
        BY <1>4 DEF OpenStream, TypeOK, RunState, RunReadsStored, DeskHoldsItem
    <2> QED
        BY <1>4, <2>1, <2>2, TablesUnchanged DEF OpenStream, TypeOK
<1>5. ASSUME NEW v \in Validators, Flush(v)
      PROVE  TypeInv'
    BY <1>5, FlushTypeInv
<1>6. ASSUME NEW v \in Validators, Crash(v)
      PROVE  TypeInv'
    <2>1. run' \in [Validators -> RunState]
        BY <1>6, IdleRunType DEF Crash, TypeOK
    <2>2. RunReadsStored' /\ DeskHoldsItem'
        BY <1>6 DEF Crash, TypeOK, RunReadsStored, DeskHoldsItem, IdleRun
    <2> QED
        BY <1>6, <2>1, <2>2, TablesUnchanged DEF Crash, TypeOK
<1>7. ASSUME NEW h \in Reviewers, NEW r \in Records,
             NEW action \in {"released", "rejected", "reopened"}, ReadItem(h, r, action)
      PROVE  TypeInv'
    <2>1. /\ clock' \in Nat
          /\ [record |-> r, action |-> action, read |-> item[r], began |-> clock'] \in Decision
        BY <1>7 DEF ReadItem, Tick, TypeOK, Decision
    <2>2. budget' \in Budget
        BY <1>7, SpendType DEF ReadItem, TypeOK
    <2>3. desk' \in [Reviewers -> SUBSET Decision]
        BY <1>7, <2>1 DEF ReadItem, TypeOK
    <2>4. RunReadsStored' /\ DeskHoldsItem'
        BY <1>7 DEF ReadItem, TypeOK, RunReadsStored, DeskHoldsItem
    <2> QED
        BY <1>7, <2>1, <2>2, <2>3, <2>4, TablesUnchanged DEF ReadItem, TypeOK
<1>8. ASSUME NEW h \in Reviewers, RecordReview(h)
      PROVE  TypeInv'
    BY <1>8, RecordReviewTypeInv
<1>9. CASE UNCHANGED vars
    BY <1>9 DEF vars, TypeOK, RunReadsStored, DeskHoldsItem
<1> QED
    BY <1>1, <1>2, <1>3, <1>4, <1>5, <1>6, <1>7, <1>8, <1>9, <1>10, <1>11 DEF Next

\* Every variable keeps its type in every interleaving, and a verdict or an
\* item always belongs to a stored record (the foreign keys of the tables).
THEOREM TypeCorrect == Spec => []TypeOK
<1>1. Spec => []TypeInv
    BY InitTypeInv, NextTypeInv, PTL DEF Spec
<1>2. TypeInv => TypeOK
    BY DEF TypeInv
<1> QED
    BY <1>1, <1>2, PTL

---------------------------------------------------------------------------
(* With a single validation run at a time - the consumer group gives a      *)
(* batch to one consumer - a known-invalid record is never outside           *)
(* quarantine, whatever the reviewers do between the run's snapshot and its  *)
(* flushes.  What makes this inductive: reviewers only move an item between  *)
(* open, released and rejected, so an item the run saw in one of these still *)
(* is in one of these when the run decides to leave it alone.                *)

Held == {"open", "released", "rejected"}

\* The record is one the run has yet to write.
Ahead(v, r) ==
    \/ run[v].pc = "snapshot"
    \/ run[v].pc = "streaming" /\ r \in run[v].todo

SnapshotHeld ==
    \A v \in Validators : \A r \in Records :
        Ahead(v, r) /\ run[v].existing[r].status \in Held => item[r].status \in Held

HeldInv == QuarantinedWhileInvalid /\ SnapshotHeld

LEMMA FlushHeld ==
    ASSUME TypeInv, HeldInv,
           NEW v \in Validators, Validators = {v}, Flush(v)
    PROVE  HeldInv'
<1>1. PICK chunk \in Chunks(run[v].todo) :
        /\ ApplyVerdicts(chunk, run[v].seen, run[v].existing, run[v].began)
        /\ run' = IF chunk = run[v].todo THEN [run EXCEPT ![v] = IdleRun]
                  ELSE [run EXCEPT ![v] = Flushed(@, chunk)]
    BY DEF Flush
<1>2. /\ chunk \in SUBSET Records /\ chunk \subseteq run[v].todo
      /\ run[v] \in RunState /\ run[v].pc = "streaming" /\ run[v].began \in Nat
      /\ run[v].seen \in [Records -> SUBSET Rules]
      /\ run[v].existing \in [Records -> Item]
    BY <1>1 DEF Chunks, TypeInv, TypeOK, RunState, Flush
<1>3. QuarantinedWhileInvalid'
    <2> SUFFICES ASSUME NEW r \in Records, KnownInvalid(r)'
                 PROVE  item'[r].status \in Held
        BY DEF QuarantinedWhileInvalid, Held
    <2> DEFINE act == RouteAction(run[v].seen[r], run[v].existing[r])
    <2>1. CASE r \notin chunk
        <3>1. verdict'[r] = verdict[r] /\ item'[r] = item[r]
            BY <1>1, <1>2, <2>1, ApplyItem
        <3> QED
            BY <3>1 DEF HeldInv, QuarantinedWhileInvalid, KnownInvalid, Held
    <2>2. CASE r \in chunk
        <3>1. verdict'[r].errors = run[v].seen[r]
            <4>1. verdict'[r] = [known |-> TRUE, errors |-> run[v].seen[r]]
                BY <1>1, <1>2, <2>2, ApplyItem
            <4> QED
                BY <4>1
        <3>2. IsInvalid(run[v].seen[r])
            BY <3>1 DEF KnownInvalid
        <3>3. CASE act = NoAction
            <4>1. item'[r] = item[r]
                BY <1>1, <1>2, <2>2, <3>3, ApplyItem
            <4>2. run[v].existing[r].status \in Held
                BY <1>2, <3>2, <3>3 DEF RouteAction, NoAction, Item, Standing, Held
            <4> QED
                BY <1>2, <2>2, <4>1, <4>2 DEF HeldInv, SnapshotHeld, Ahead
        <3>4. CASE act # NoAction
            <4>1. item'[r] = Routed(act, run[v].seen[r])
                BY <1>1, <1>2, <2>2, <3>4, ApplyItem
            <4>2. act # "resolved"
                BY <3>2 DEF RouteAction, NoAction
            <4> HIDE DEF act
            <4> QED
                BY <1>2, <4>1, <4>2, RoutedType DEF Held
        <3> QED
            BY <3>3, <3>4
    <2> QED
        BY <2>1, <2>2
<1>4. SnapshotHeld'
    <2> SUFFICES ASSUME NEW r \in Records, Ahead(v, r)',
                        run'[v].existing[r].status \in Held
                 PROVE  item'[r].status \in Held
        BY DEF SnapshotHeld
    <2>1. chunk # run[v].todo
        BY <1>1 DEF Ahead, IdleRun, TypeInv, TypeOK
    <2>2. run'[v] = Flushed(run[v], chunk)
        BY <1>1, <2>1 DEF TypeInv, TypeOK
    <2>3. r \in run[v].todo \ chunk /\ run'[v].existing = run[v].existing
        BY <1>2, <2>2, FlushedType DEF Ahead
    <2>4. item'[r] = item[r]
        BY <1>1, <1>2, <2>3, ApplyItem
    <2> QED
        BY <1>2, <2>3, <2>4 DEF HeldInv, SnapshotHeld, Ahead
<1> QED
    BY <1>3, <1>4 DEF HeldInv

LEMMA RecordReviewHeld ==
    ASSUME TypeInv, HeldInv, NEW h \in Reviewers, RecordReview(h)
    PROVE  HeldInv'
<1>1. PICK d \in desk[h] :
        /\ item' = [item EXCEPT ![d.record].status = ReviewedStatus(d.action)]
        /\ UNCHANGED <<verdict, run>>
    BY DEF RecordReview
<1>2. d \in Decision /\ ReviewedStatus(d.action) \in Held
    BY DEF TypeInv, TypeOK, Decision, ReviewedStatus, Held
<1>3. \A r \in Records : item[r].status \in Held => item'[r].status \in Held
    BY <1>1, <1>2 DEF TypeInv, TypeOK, Item, Decision
<1> QED
    BY <1>1, <1>3 DEF HeldInv, QuarantinedWhileInvalid, SnapshotHeld, Ahead, KnownInvalid, Held

LEMMA ProcessRecordHeld ==
    ASSUME TypeInv, HeldInv, NEW r \in Records, ProcessRecord(r)
    PROVE  HeldInv'
<1> DEFINE none == [x \in Records |-> NoItem]
           act == RouteAction(failures[r], none[r])
<1>1. /\ none \in [Records -> Item] /\ {r} \in SUBSET Records
      /\ failures \in [Records -> SUBSET Rules] /\ r \notin stored
      /\ UNCHANGED run /\ clock' \in Nat
      /\ ApplyVerdicts({r}, failures, none, clock')
    BY DEF ProcessRecord, Tick, NoItem, Item, TypeInv, TypeOK
<1>2. none[r] = NoItem
    OBVIOUS
<1>3. item[r].status = "none"
    BY <1>1 DEF TypeInv, TypeOK
<1> HIDE DEF none
<1>4. ASSUME NEW x \in Records, x # r
      PROVE  verdict'[x] = verdict[x] /\ item'[x] = item[x]
    BY <1>1, <1>4, ApplyItem
<1>5. verdict'[r].errors = failures[r]
    <2>1. verdict'[r] = [known |-> TRUE, errors |-> failures[r]]
        BY <1>1, ApplyItem
    <2> QED
        BY <2>1
<1>6. IsInvalid(failures[r]) => item'[r].status = "open"
    <2> SUFFICES ASSUME IsInvalid(failures[r])
                 PROVE  item'[r].status = "open"
        OBVIOUS
    <2>1. act = "quarantined"
        BY <1>2 DEF RouteAction, NoItem
    <2>2. item'[r] = Routed(act, failures[r])
        BY <1>1, <2>1, ApplyItem DEF NoAction
    <2> QED
        BY <1>1, <2>1, <2>2, RoutedType
<1>7. QuarantinedWhileInvalid'
    BY <1>4, <1>5, <1>6 DEF HeldInv, QuarantinedWhileInvalid, KnownInvalid
<1>8. SnapshotHeld'
    BY <1>1, <1>3, <1>4 DEF HeldInv, SnapshotHeld, Ahead, Held
<1> QED
    BY <1>7, <1>8 DEF HeldInv

LEMMA NextHeld ==
    ASSUME NEW v \in Validators, Validators = {v}, TypeInv, HeldInv, [Next]_vars
    PROVE  HeldInv'
<1>1. ASSUME ReadStanding(v)
      PROVE  HeldInv'
    <2>1. run'[v].existing = item /\ UNCHANGED <<item, verdict>>
        BY <1>1 DEF ReadStanding, TypeInv, TypeOK, RunState
    <2> QED
        BY <2>1 DEF HeldInv, QuarantinedWhileInvalid, KnownInvalid, SnapshotHeld
<1>2. ASSUME OpenStream(v)
      PROVE  HeldInv'
    <2>1. /\ run[v].pc = "snapshot" /\ run'[v].existing = run[v].existing
          /\ UNCHANGED <<item, verdict>>
        BY <1>2 DEF OpenStream, TypeInv, TypeOK, RunState
    <2>2. QuarantinedWhileInvalid'
        BY <2>1 DEF HeldInv, QuarantinedWhileInvalid, KnownInvalid
    <2>3. \A r \in Records : Ahead(v, r)
        BY <2>1 DEF Ahead
    <2>4. \A r \in Records : run[v].existing[r].status \in Held => item[r].status \in Held
        BY <2>3 DEF HeldInv, SnapshotHeld
    <2>5. SnapshotHeld'
        <3> SUFFICES ASSUME NEW r \in Records, run'[v].existing[r].status \in Held
                     PROVE  item'[r].status \in Held
            BY DEF SnapshotHeld
        <3> QED
            BY <2>1, <2>4
    <2> QED
        BY <2>2, <2>5 DEF HeldInv
<1>3. ASSUME Crash(v)
      PROVE  HeldInv'
    <2>1. run'[v] = IdleRun /\ UNCHANGED <<item, verdict>>
        BY <1>3 DEF Crash, TypeInv, TypeOK
    <2> QED
        BY <2>1 DEF HeldInv, QuarantinedWhileInvalid, KnownInvalid, SnapshotHeld, Ahead, IdleRun
<1>4. ASSUME UNCHANGED <<item, verdict, run>>
      PROVE  HeldInv'
    BY <1>4 DEF HeldInv, QuarantinedWhileInvalid, KnownInvalid, SnapshotHeld, Ahead
<1>5. ASSUME StartRun(v)
      PROVE  HeldInv'
    <2>1. run'[v].pc = "begun" /\ UNCHANGED <<item, verdict>>
        BY <1>5 DEF StartRun, TypeInv, TypeOK, RunState
    <2> QED
        BY <2>1 DEF HeldInv, QuarantinedWhileInvalid, KnownInvalid, SnapshotHeld, Ahead
<1>6. ASSUME BeginFlush(v)
      PROVE  HeldInv'
    <2>1. /\ run'[v] = [run[v] EXCEPT !.began = clock'] /\ run[v] \in RunState
          /\ UNCHANGED <<item, verdict>>
        BY <1>6 DEF BeginFlush, TypeInv, TypeOK
    <2>2. /\ run'[v].pc = run[v].pc /\ run'[v].todo = run[v].todo
          /\ run'[v].existing = run[v].existing
        BY <2>1 DEF RunState
    <2> QED
        BY <2>1, <2>2 DEF HeldInv, QuarantinedWhileInvalid, KnownInvalid, SnapshotHeld, Ahead
<1> QED
    BY <1>1, <1>2, <1>3, <1>4, <1>5, <1>6, FlushHeld, RecordReviewHeld, ProcessRecordHeld
       DEF Next, vars, Revise, ReadItem

\* With one validator and any number of reviewers, a record whose stored verdict
\* is invalid always has an item that is open, released or rejected.
THEOREM InvalidStaysQuarantined ==
    ASSUME NEW v \in Validators, Validators = {v}
    PROVE  Spec => []QuarantinedWhileInvalid
<1>1. Init => HeldInv
    BY DEF Init, HeldInv, QuarantinedWhileInvalid, KnownInvalid, IsInvalid, NoVerdict,
           SnapshotHeld, IdleRun, NoItem, Ahead
<1>2. TypeInv /\ HeldInv /\ [Next]_vars => HeldInv'
    BY NextHeld
<1>3. HeldInv => QuarantinedWhileInvalid
    BY DEF HeldInv
<1> QED
    BY <1>1, <1>2, <1>3, InitTypeInv, NextTypeInv, PTL DEF Spec

---------------------------------------------------------------------------
(* With one command at a time a person's decision stands: the run's view of *)
(* an item is the item itself until the run writes it.                      *)

SnapshotCurrent ==
    \A v \in Validators : \A r \in Records :
        Ahead(v, r) => run[v].existing[r] = item[r]

SerialInv == TypeInv /\ OneAtATime /\ SnapshotCurrent

\* While a run is under way no record lands and no decision is written.
LEMMA RunExcludesWriters ==
    ASSUME TypeInv, OneAtATime, NEW v \in Validators, run[v].pc # "idle", SerialNext
    PROVE  /\ UNCHANGED stored
           /\ \A h \in Reviewers : desk[h] = {}
<1>1. v \in Busy
    BY DEF Busy
<1>2. UNCHANGED stored
    BY <1>1 DEF SerialNext
<1>3. \A h \in Reviewers : desk[h] = {}
    BY <1>1, ActorAssumption DEF OneAtATime, Busy
<1> QED
    BY <1>2, <1>3

\* What one flush under SerialSpec does to the item of a record it writes.
LEMMA SerialFlushRow ==
    ASSUME SerialInv, NEW v \in Validators, Flush(v), NEW r \in Records,
           item'[r] # item[r]
    PROVE  /\ item[r].status # "rejected"
           /\ item[r].status = "released" =>
                 ~IsInvalid(verdict'[r].errors) \/ verdict'[r].errors # item[r].reasons
<1>1. PICK chunk \in Chunks(run[v].todo) :
                ApplyVerdicts(chunk, run[v].seen, run[v].existing, run[v].began)
    BY DEF Flush
<1>2. /\ chunk \in SUBSET Records /\ chunk \subseteq run[v].todo
      /\ run[v].pc = "streaming" /\ run[v].began \in Nat
      /\ run[v].seen \in [Records -> SUBSET Rules]
      /\ run[v].existing \in [Records -> Item]
    BY <1>1 DEF Flush, Chunks, SerialInv, TypeInv, TypeOK, RunState
<1> DEFINE act == RouteAction(run[v].seen[r], run[v].existing[r])
<1>3. r \in chunk /\ act # NoAction
    BY <1>1, <1>2, ApplyItem
<1>4. run[v].existing[r] = item[r]
    BY <1>2, <1>3 DEF SerialInv, SnapshotCurrent, Ahead
<1>5. verdict'[r] = [known |-> TRUE, errors |-> run[v].seen[r]]
    BY <1>1, <1>2, <1>3, ApplyItem
<1>6. verdict'[r].errors = run[v].seen[r]
    BY <1>5
<1> QED
    BY <1>3, <1>4, <1>6 DEF RouteAction, NoAction

\* A record that lands had no item.
LEMMA ProcessRecordRow ==
    ASSUME TypeInv, NEW x \in Records, ProcessRecord(x), NEW r \in Records,
           item'[r] # item[r]
    PROVE  item[r].status = "none"
<1> DEFINE none == [y \in Records |-> NoItem]
<1>1. /\ none \in [Records -> Item] /\ {x} \in SUBSET Records
      /\ failures \in [Records -> SUBSET Rules] /\ x \notin stored
      /\ clock' \in Nat
      /\ ApplyVerdicts({x}, failures, none, clock')
    BY DEF ProcessRecord, Tick, NoItem, Item, TypeInv, TypeOK
<1> HIDE DEF none
<1>2. r = x
    BY <1>1, ApplyItem
<1> QED
    BY <1>1, <1>2 DEF TypeInv, TypeOK

LEMMA SerialNextInv == SerialInv /\ [SerialNext]_vars => SerialInv'
<1> SUFFICES ASSUME SerialInv, [SerialNext]_vars
             PROVE  SerialInv'
    OBVIOUS
<1>1. TypeInv'
    BY NextTypeInv DEF SerialInv, SerialNext
<1>2. OneAtATime'
    BY DEF SerialInv, SerialNext, OneAtATime, Busy, vars
<1>3. SnapshotCurrent'
    <2> SUFFICES ASSUME NEW v \in Validators, NEW r \in Records, Ahead(v, r)'
                 PROVE  run'[v].existing[r] = item'[r]
        BY DEF SnapshotCurrent
    <2>1. ASSUME NEW w \in Validators, ReadStanding(w), SerialNext
          PROVE  run'[v].existing[r] = item'[r]
        <3>1. UNCHANGED item /\ (w = v => run'[v].existing = item)
              /\ (w # v => run'[v] = run[v])
            BY <2>1 DEF ReadStanding, SerialInv, TypeInv, TypeOK, RunState
        <3> QED
            BY <3>1 DEF SerialInv, SnapshotCurrent, Ahead
    <2>8. ASSUME NEW w \in Validators, StartRun(w), SerialNext
          PROVE  run'[v].existing[r] = item'[r]
        <3>1. UNCHANGED item /\ (w = v => run'[v].pc = "begun")
              /\ (w # v => run'[v] = run[v])
            BY <2>8 DEF StartRun, SerialInv, TypeInv, TypeOK, RunState
        <3> QED
            BY <3>1 DEF SerialInv, SnapshotCurrent, Ahead
    <2>9. ASSUME NEW w \in Validators, BeginFlush(w), SerialNext
          PROVE  run'[v].existing[r] = item'[r]
        <3>1. /\ UNCHANGED item /\ run'[v].existing = run[v].existing
              /\ run'[v].pc = run[v].pc /\ run'[v].todo = run[v].todo
            BY <2>9 DEF BeginFlush, SerialInv, TypeInv, TypeOK, RunState
        <3> QED
            BY <3>1 DEF SerialInv, SnapshotCurrent, Ahead
    <2>2. ASSUME NEW w \in Validators, OpenStream(w), SerialNext
          PROVE  run'[v].existing[r] = item'[r]
        <3>1. /\ UNCHANGED item /\ run'[v].existing = run[v].existing
              /\ w = v => run[v].pc = "snapshot"
              /\ w # v => run'[v] = run[v]
            BY <2>2 DEF OpenStream, SerialInv, TypeInv, TypeOK, RunState
        <3>2. CASE w = v
            <4>1. Ahead(v, r)
                BY <3>1, <3>2 DEF Ahead
            <4>2. run[v].existing[r] = item[r]
                BY <4>1 DEF SerialInv, SnapshotCurrent
            <4> QED
                BY <3>1, <4>2
        <3>3. CASE w # v
            <4>1. Ahead(v, r)
                BY <3>1, <3>3 DEF Ahead
            <4>2. run[v].existing[r] = item[r]
                BY <4>1 DEF SerialInv, SnapshotCurrent
            <4> QED
                BY <3>1, <4>2
        <3> QED
            BY <3>2, <3>3
    <2>3. ASSUME NEW w \in Validators, Crash(w), SerialNext
          PROVE  run'[v].existing[r] = item'[r]
        <3>1. /\ UNCHANGED item
              /\ w = v => run'[v] = IdleRun
              /\ w # v => run'[v] = run[v]
            BY <2>3 DEF Crash, SerialInv, TypeInv, TypeOK
        <3> QED
            BY <3>1 DEF SerialInv, SnapshotCurrent, Ahead, IdleRun
    <2>4. ASSUME NEW w \in Validators, Flush(w), SerialNext
          PROVE  run'[v].existing[r] = item'[r]
        <3>1. PICK chunk \in Chunks(run[w].todo) :
                /\ ApplyVerdicts(chunk, run[w].seen, run[w].existing, run[w].began)
                /\ run' = IF chunk = run[w].todo THEN [run EXCEPT ![w] = IdleRun]
                          ELSE [run EXCEPT ![w] = Flushed(@, chunk)]
            BY <2>4 DEF Flush
        <3>2. /\ chunk \in SUBSET Records
              /\ run[w].seen \in [Records -> SUBSET Rules]
              /\ run[w].existing \in [Records -> Item]
              /\ run[w] \in RunState /\ run[w].pc = "streaming" /\ run[w].began \in Nat
            BY <2>4, <3>1 DEF Chunks, SerialInv, TypeInv, TypeOK, RunState, Flush
        <3>3. run'[v].pc # "idle"
            BY DEF Ahead
        <3>4. CASE v = w
            <4>1. chunk # run[w].todo
                BY <3>1, <3>4 DEF Ahead, IdleRun, SerialInv, TypeInv, TypeOK
            <4>2. run'[w] = Flushed(run[w], chunk)
                BY <3>1, <4>1 DEF SerialInv, TypeInv, TypeOK
            <4>3. r \in run[w].todo \ chunk /\ run'[w].existing = run[w].existing
                BY <3>2, <3>4, <4>2, FlushedType DEF Ahead
            <4>4. item'[r] = item[r]
                BY <3>1, <3>2, <4>3, ApplyItem
            <4> QED
                BY <3>2, <3>4, <4>3, <4>4 DEF SerialInv, SnapshotCurrent, Ahead
        <3>5. CASE v # w
            <4>1. run[v] = run'[v]
                BY <3>1, <3>5 DEF SerialInv, TypeInv, TypeOK
            <4> QED
                BY <3>2, <3>3, <3>5, <4>1 DEF SerialInv, OneAtATime, Busy
        <3> QED
            BY <3>4, <3>5
    <2>5. ASSUME NEW x \in Records, ProcessRecord(x), SerialNext
          PROVE  run'[v].existing[r] = item'[r]
        <3>1. run[v].pc = "idle" /\ run' = run
            BY <2>5, RunExcludesWriters DEF ProcessRecord, SerialInv
        <3> QED
            BY <3>1 DEF Ahead
    <2>6. ASSUME NEW h \in Reviewers, RecordReview(h), SerialNext
          PROVE  run'[v].existing[r] = item'[r]
        <3>1. run[v].pc = "idle" /\ run' = run
            BY <2>6, RunExcludesWriters DEF RecordReview, SerialInv
        <3> QED
            BY <3>1 DEF Ahead
    <2>7. ASSUME UNCHANGED <<run, item>>
          PROVE  run'[v].existing[r] = item'[r]
        BY <2>7 DEF SerialInv, SnapshotCurrent, Ahead
    <2> QED
        BY <2>1, <2>2, <2>3, <2>4, <2>5, <2>6, <2>7, <2>8, <2>9
           DEF SerialNext, Next, vars, Revise, ReadItem
<1> QED
    BY <1>1, <1>2, <1>3 DEF SerialInv

LEMMA SerialInvariant == SerialSpec => []SerialInv
<1>1. Init => SerialInv
    BY InitTypeInv DEF Init, SerialInv, OneAtATime, Busy, SnapshotCurrent, Ahead, IdleRun
<1> QED
    BY <1>1, SerialNextInv, PTL DEF SerialSpec

\* "A human's rejection is terminal": one command at a time, nothing but a
\* reviewer's decision on that record takes an item out of rejected.
THEOREM RejectionStands == SerialSpec => RejectionIsTerminal
<1>1. SerialInv /\ [SerialNext]_vars =>
        [\A r \in Records :
            item[r].status = "rejected" /\ item'[r].status # "rejected" =>
                DecidedBySomeone(r)]_vars
    <2> SUFFICES ASSUME SerialInv, SerialNext, NEW r \in Records,
                        item[r].status = "rejected", item'[r].status # "rejected"
                 PROVE  DecidedBySomeone(r)
        OBVIOUS
    <2>1. ASSUME NEW v \in Validators, Flush(v)
          PROVE  FALSE
        BY <2>1, SerialFlushRow
    <2>2. ASSUME NEW x \in Records, ProcessRecord(x)
          PROVE  FALSE
        BY <2>2, ProcessRecordRow DEF SerialInv
    <2>3. ASSUME NEW h \in Reviewers, RecordReview(h)
          PROVE  DecidedBySomeone(r)
        BY <2>3 DEF RecordReview, DecidedBySomeone, SerialInv, TypeInv, TypeOK, Decision, Item
    <2> QED
        BY <2>1, <2>2, <2>3
           DEF SerialNext, Next, Revise, StartRun, ReadStanding, OpenStream, BeginFlush,
               Crash, ReadItem
<1> QED
    BY <1>1, SerialInvariant, PTL DEF SerialSpec, RejectionIsTerminal

\* "It survives the same failure recurring": one command at a time, a release
\* ends by a reviewer's decision, a verdict without errors, or other reasons.
THEOREM ReleaseStands == SerialSpec => ReleaseSurvivesSameFailure
<1>1. SerialInv /\ [SerialNext]_vars =>
        [\A r \in Records :
            item[r].status = "released" /\ item'[r].status # "released" =>
                \/ DecidedBySomeone(r)
                \/ ~KnownInvalid(r)'
                \/ verdict'[r].errors # item[r].reasons]_vars
    <2> SUFFICES ASSUME SerialInv, SerialNext, NEW r \in Records,
                        item[r].status = "released", item'[r].status # "released"
                 PROVE  \/ DecidedBySomeone(r)
                        \/ ~KnownInvalid(r)'
                        \/ verdict'[r].errors # item[r].reasons
        OBVIOUS
    <2>1. ASSUME NEW v \in Validators, Flush(v)
          PROVE  ~KnownInvalid(r)' \/ verdict'[r].errors # item[r].reasons
        BY <2>1, SerialFlushRow DEF KnownInvalid
    <2>2. ASSUME NEW x \in Records, ProcessRecord(x)
          PROVE  FALSE
        BY <2>2, ProcessRecordRow DEF SerialInv
    <2>3. ASSUME NEW h \in Reviewers, RecordReview(h)
          PROVE  DecidedBySomeone(r)
        BY <2>3 DEF RecordReview, DecidedBySomeone, SerialInv, TypeInv, TypeOK, Decision, Item
    <2> QED
        BY <2>1, <2>2, <2>3
           DEF SerialNext, Next, Revise, StartRun, ReadStanding, OpenStream, BeginFlush,
               Crash, ReadItem
<1> QED
    BY <1>1, SerialInvariant, PTL DEF SerialSpec, ReleaseSurvivesSameFailure

---------------------------------------------------------------------------
(* One command at a time, the row of a record changes in two ways: a        *)
(* verdict judges it by its item as it stands, or a reviewer decides on it  *)
(* as it was read; and the entry either of them writes is dated after every *)
(* entry the record has.                                                    *)

\* The item a reviewer has read is still as it was read.
DeskCurrent == \A h \in Reviewers : \A d \in desk[h] : d.read = item[d.record]

Later(r, began) == \A e \in events[r] : e.at < began

\* Every entry is of a transaction that has begun; an open transaction began
\* after every entry there is.
Dated ==
    /\ \A r \in Records : \A e \in events[r] : e.at <= clock
    /\ \A v \in Validators : \A r \in Records :
          run[v].began # NoTransaction => Later(r, run[v].began)
    /\ \A h \in Reviewers : \A d \in desk[h] : \A r \in Records : Later(r, d.began)
    /\ \A v \in Validators : run[v].began <= clock
    /\ \A v \in Validators : run[v].pc = "idle" => run[v].began = NoTransaction
    /\ \A h \in Reviewers : \A d \in desk[h] : d.began <= clock

\* What a verdict does to the rows of a record, with the item as the view of it.
Judged(r, errors, began) ==
    LET act == RouteAction(errors, item[r])
    IN /\ verdict'[r] = [known |-> TRUE, errors |-> errors]
       /\ act = NoAction => item'[r] = item[r] /\ events'[r] = events[r]
       /\ act # NoAction =>
            /\ item'[r] = Routed(act, errors)
            /\ Enters(r, RouteEvent(act, errors, item[r], began))

\* What a decision does to them: the status of the item changes and nothing else.
Reviewed(r, ev) ==
    /\ item[r].status # "none"
    /\ verdict'[r] = verdict[r]
    /\ item'[r].status = ev.to /\ item'[r].reasons = item[r].reasons
    /\ Enters(r, ev)
    /\ ev.from = item[r].status /\ ev.reasons = item[r].reasons
    /\ ev.to \notin {"none", "resolved"}

\* ApplyVerdicts judges the rows of its chunk, when the item the routing is shown
\* stands as the item does.
LEMMA ApplyJudges ==
    ASSUME NEW chunk \in SUBSET Records,
           NEW seen \in [Records -> SUBSET Rules],
           NEW existing \in [Records -> Item], NEW began \in Nat,
           ApplyVerdicts(chunk, seen, existing, began),
           NEW r \in Records, r \in chunk,
           existing[r].status = item[r].status,
           RouteAction(seen[r], existing[r]) = RouteAction(seen[r], item[r])
    PROVE  Judged(r, seen[r], began)
<1> DEFINE act == RouteAction(seen[r], existing[r])
<1>1. verdict'[r] = [known |-> TRUE, errors |-> seen[r]]
    BY ApplyRow
<1>2. ASSUME act = NoAction
      PROVE  item'[r] = item[r] /\ events'[r] = events[r]
    BY <1>2, ApplyQuiet
<1>3. ASSUME act # NoAction
      PROVE  /\ item'[r] = Routed(act, seen[r])
             /\ Enters(r, RouteEvent(act, seen[r], existing[r], began))
    BY <1>3, ApplyRouted
<1>4. RouteEvent(act, seen[r], existing[r], began) = RouteEvent(act, seen[r], item[r], began)
    BY DEF RouteEvent
<1>5. act = RouteAction(seen[r], item[r])
    OBVIOUS
<1> HIDE DEF act
<1> QED
    BY <1>1, <1>2, <1>3, <1>4, <1>5 DEF Judged

\* One command at a time, a flush judges a record by its item as it stands.
LEMMA FlushJudges ==
    ASSUME SerialInv, Dated, NEW v \in Validators, Flush(v), NEW r \in Records
    PROVE  \/ RowKept(r)
           \/ \E errors \in SUBSET Rules, began \in Nat :
                 Judged(r, errors, began) /\ Later(r, began)
<1>1. PICK chunk \in Chunks(run[v].todo) :
                ApplyVerdicts(chunk, run[v].seen, run[v].existing, run[v].began)
    BY DEF Flush
<1>2. /\ chunk \in SUBSET Records /\ chunk \subseteq run[v].todo
      /\ run[v].pc = "streaming" /\ run[v].began \in Nat
      /\ run[v].seen \in [Records -> SUBSET Rules]
      /\ run[v].existing \in [Records -> Item]
    BY <1>1 DEF Flush, Chunks, SerialInv, TypeInv, TypeOK, RunState
<1>3. CASE r \notin chunk
    <2>1. RowKept(r)
        BY <1>1, <1>2, <1>3, ApplyRow DEF RowKept
    <2> QED
        BY <2>1
<1>4. CASE r \in chunk
    <2>1. run[v].existing[r] = item[r]
        BY <1>2, <1>4 DEF SerialInv, SnapshotCurrent, Ahead
    <2>2. run[v].seen[r] \in SUBSET Rules
        BY <1>2
    <2>3. Judged(r, run[v].seen[r], run[v].began)
        BY <1>1, <1>2, <1>4, <2>1, ApplyJudges
    <2>4. Later(r, run[v].began)
        BY DEF Flush, Dated
    <2> QED
        BY <1>2, <2>2, <2>3, <2>4
<1> QED
    BY <1>3, <1>4

\* A record that lands is judged with no item, which is what it has.
LEMMA LandingJudges ==
    ASSUME TypeInv, Dated, NEW x \in Records, ProcessRecord(x), NEW r \in Records
    PROVE  \/ RowKept(r)
           \/ \E errors \in SUBSET Rules, began \in Nat :
                 Judged(r, errors, began) /\ Later(r, began)
<1> DEFINE none == [y \in Records |-> NoItem]
<1>1. /\ none \in [Records -> Item] /\ {x} \in SUBSET Records
      /\ failures \in [Records -> SUBSET Rules] /\ x \notin stored
      /\ clock' = clock + 1 /\ clock \in Nat /\ clock' \in Nat
      /\ ApplyVerdicts({x}, failures, none, clock')
    BY DEF ProcessRecord, Tick, NoItem, Item, TypeInv, TypeOK
<1>2. none[x].status = "none" /\ item[x].status = "none"
    BY <1>1 DEF NoItem, TypeInv, TypeOK
<1> HIDE DEF none
<1>3. CASE r # x
    <2>1. RowKept(r)
        BY <1>1, <1>3, ApplyRow DEF RowKept
    <2> QED
        BY <2>1
<1>4. CASE r = x
    <2>1. RouteAction(failures[x], none[x]) = RouteAction(failures[x], item[x])
        BY <1>2 DEF RouteAction
    <2>2. x \in {x} /\ none[x].status = item[x].status
        BY <1>2
    <2>3. Judged(x, failures[x], clock')
        BY <1>1, <2>1, <2>2, ApplyJudges
    <2>4. failures[x] \in SUBSET Rules
        BY <1>1
    <2>5. Later(x, clock')
        BY <1>1 DEF Dated, Later, TypeInv, TypeOK, Event
    <2> QED
        BY <1>1, <1>4, <2>3, <2>4, <2>5
<1> QED
    BY <1>3, <1>4

\* A decision on an item that stands as it was read.
LEMMA DecisionReviews ==
    ASSUME TypeInv, Dated, DeskCurrent, NEW h \in Reviewers, RecordReview(h),
           NEW r \in Records
    PROVE  RowKept(r) \/ \E ev \in Event : Reviewed(r, ev) /\ Later(r, ev.at)
<1>1. PICK d \in desk[h] :
        /\ item' = [item EXCEPT ![d.record].status = ReviewedStatus(d.action)]
        /\ events' = [events EXCEPT ![d.record] = @ \cup
                        {[action |-> d.action, from |-> d.read.status,
                          to |-> ReviewedStatus(d.action), reasons |-> d.read.reasons,
                          actor |-> h, at |-> d.began]}]
        /\ UNCHANGED verdict
    BY DEF RecordReview
<1>2. d \in Decision /\ d.record \in Records
    BY DEF TypeInv, TypeOK, Decision
<1>3. CASE r # d.record
    BY <1>1, <1>2, <1>3 DEF RowKept, TypeInv, TypeOK
<1>4. CASE r = d.record
    <2> DEFINE ev == [action |-> d.action, from |-> d.read.status,
                      to |-> ReviewedStatus(d.action), reasons |-> d.read.reasons,
                      actor |-> h, at |-> d.began]
    <2>1. item[r] \in Item
        BY DEF TypeInv, TypeOK
    <2>2. events'[r] = events[r] \cup {ev}
        BY <1>1, <1>4 DEF TypeInv, TypeOK
    <2>3. item'[r].reasons = item[r].reasons /\ item'[r].status = ReviewedStatus(d.action)
        BY <1>1, <1>4, <2>1 DEF TypeInv, TypeOK, Item
    <2>4. ReviewedStatus(d.action) \in Standing /\ ReviewedStatus(d.action) # "resolved"
        BY <1>2 DEF Decision, ReviewedStatus, Standing
    <2>5. ev \in Event
        BY <1>2, <2>4 DEF Event, Decision, Item, Actions
    <2>6. d.read = item[r] /\ item[r].status # "none"
        BY <1>1, <1>4 DEF DeskCurrent, TypeInv, DeskHoldsItem
    <2>7. Later(r, ev.at)
        BY DEF Dated
    <2>8. Reviewed(r, ev)
        BY <1>1, <2>2, <2>3, <2>4, <2>6 DEF Reviewed, Enters, Standing
    <2> HIDE DEF ev
    <2> QED
        BY <2>5, <2>7, <2>8
<1> QED
    BY <1>3, <1>4

---------------------------------------------------------------------------
(* One command at a time, a history dated this way is a chain that ends     *)
(* where the item stands.                                                   *)

HistoryOf(history, status) ==
    /\ LeadsTo(history, status)
    /\ \A e \in history : LeadsTo({f \in history : f.at < e.at}, e.from)

\* An entry dated after a chain, starting where the chain ends, continues it.
LEMMA ChainContinues ==
    ASSUME NEW history \in SUBSET Event, NEW status, NEW e \in Event,
           HistoryOf(history, status),
           \A f \in history : f.at < e.at, e.from = status
    PROVE  HistoryOf(history \cup {e}, e.to)
<1> DEFINE longer == history \cup {e}
<1>1. e.at \in Nat /\ \A f \in history : f.at \in Nat
    BY DEF Event
<1>2. IsLatest(e, longer)
    BY <1>1 DEF IsLatest
<1>3. LeadsTo(longer, e.to)
    BY <1>2 DEF LeadsTo
<1>4. ASSUME NEW g \in longer
      PROVE  LeadsTo({f \in longer : f.at < g.at}, g.from)
    <2>1. CASE g = e
        <3>1. {f \in longer : f.at < g.at} = history
            BY <1>1, <2>1
        <3> QED
            BY <2>1, <3>1 DEF HistoryOf
    <2>2. CASE g # e
        <3>1. {f \in longer : f.at < g.at} = {f \in history : f.at < g.at}
            BY <1>1, <2>2
        <3> QED
            BY <2>2, <3>1 DEF HistoryOf
    <2> QED
        BY <2>1, <2>2
<1> QED
    BY <1>3, <1>4 DEF HistoryOf

\* With one command at a time nothing moves an item between its reading and the
\* decision taken on it.
LEMMA NextDeskCurrent ==
    ASSUME SerialInv, DeskCurrent, SerialNext
    PROVE  DeskCurrent'
<1> SUFFICES ASSUME NEW h \in Reviewers, NEW d \in desk'[h]
             PROVE  d.read = item'[d.record]
    BY DEF DeskCurrent
<1>1. ASSUME UNCHANGED <<desk, item>>
      PROVE  d.read = item'[d.record]
    BY <1>1 DEF DeskCurrent
<1>2. ASSUME NEW g \in Reviewers, NEW r \in Records,
             NEW action \in {"released", "rejected", "reopened"}, ReadItem(g, r, action)
      PROVE  d.read = item'[d.record]
    <2>1. UNCHANGED item
        BY <1>2 DEF ReadItem
    <2>2. CASE h # g
        <3>1. d \in desk[h]
            BY <1>2, <2>2 DEF ReadItem, SerialInv, TypeInv, TypeOK
        <3> QED
            BY <2>1, <3>1 DEF DeskCurrent
    <2>3. CASE h = g
        <3>1. d = [record |-> r, action |-> action, read |-> item[r], began |-> clock']
            BY <1>2, <2>3 DEF ReadItem, SerialInv, TypeInv, TypeOK
        <3> QED
            BY <2>1, <3>1
    <2> QED
        BY <2>2, <2>3
<1>3. ASSUME NEW g \in Reviewers, RecordReview(g)
      PROVE  d.read = item'[d.record]
    <2>1. desk[g] # {} /\ desk'[g] = {} /\ (h # g => desk'[h] = desk[h])
        BY <1>3 DEF RecordReview, SerialInv, TypeInv, TypeOK
    <2>2. h # g /\ desk[h] # {}
        BY <2>1
    <2> QED
        BY <2>1, <2>2 DEF SerialInv, OneAtATime, Busy
<1>4. ASSUME NEW v \in Validators, Flush(v)
      PROVE  d.read = item'[d.record]
    <2>1. run[v].pc # "idle" /\ UNCHANGED desk
        BY <1>4 DEF Flush
    <2>2. desk[h] = {}
        BY <2>1, RunExcludesWriters DEF SerialInv
    <2> QED
        BY <2>1, <2>2
<1>5. ASSUME NEW x \in Records, ProcessRecord(x)
      PROVE  d.read = item'[d.record]
    <2>1. stored' # stored /\ UNCHANGED desk
        BY <1>5 DEF ProcessRecord
    <2>2. desk[h] = {}
        BY <2>1 DEF SerialNext, Busy
    <2> QED
        BY <2>1, <2>2
<1> QED
    BY <1>1, <1>2, <1>3, <1>4, <1>5
       DEF SerialNext, Next, Revise, StartRun, ReadStanding, OpenStream, BeginFlush, Crash

\* A step that writes entries dated as the transaction that commits with it.
LEMMA DatesWritten ==
    ASSUME TypeInv, Dated, TypeInv',
           clock <= clock',
           \A r \in Records : \A e \in events'[r] : e \in events[r] \/ e.at <= clock',
           \A v \in Validators : run'[v].began = NoTransaction,
           \A h \in Reviewers : desk'[h] = {}
    PROVE  Dated'
<1>1. \A r \in Records : \A e \in events[r] : e.at <= clock /\ e.at \in Nat
    BY DEF Dated, TypeInv, TypeOK, Event
<1>2. clock \in Nat /\ clock' \in Nat
    BY DEF TypeInv, TypeOK
<1>3. \A r \in Records : \A e \in events'[r] : e.at <= clock'
    <2> SUFFICES ASSUME NEW r \in Records, NEW e \in events'[r]
                 PROVE  e.at <= clock'
        OBVIOUS
    <2>1. CASE e \in events[r]
        BY <1>1, <1>2, <2>1
    <2> QED
        BY <2>1
<1> QED
    BY <1>2, <1>3 DEF Dated, NoTransaction

\* One command at a time, whoever has a transaction open began it last.
LEMMA NextDated ==
    ASSUME SerialInv, Dated, SerialNext
    PROVE  Dated'
<1>1. TypeInv /\ TypeInv' /\ OneAtATime /\ clock \in Nat
    BY NextTypeInv DEF SerialInv, SerialNext, TypeInv, TypeOK
<1>2. \A r \in Records : \A e \in events[r] : e.at \in Nat /\ e.at <= clock
    BY <1>1 DEF Dated, TypeInv, TypeOK, Event
<1>3. ASSUME NEW v \in Validators, StartRun(v) \/ BeginFlush(v)
      PROVE  Dated'
    <2>1. /\ clock' = clock + 1 /\ UNCHANGED <<events, desk>>
          /\ run'[v].began = clock' /\ run'[v].pc # "idle"
          /\ \A w \in Validators : w # v => run'[w] = run[w]
        <3>1. CASE StartRun(v)
            BY <1>1, <3>1 DEF StartRun, Tick, TypeInv, TypeOK, RunState
        <3>2. CASE BeginFlush(v)
            BY <1>1, <3>2 DEF BeginFlush, Tick, TypeInv, TypeOK, RunState
        <3> QED
            BY <1>3, <3>1, <3>2
    <2>2. \A w \in Validators : run[w].began \in Nat
        BY <1>1 DEF TypeInv, TypeOK, RunState
    <2>3. \A h \in Reviewers : \A d \in desk[h] : d.began \in Nat
        BY <1>1 DEF TypeInv, TypeOK, Decision
    <2>4. \A r \in Records : Later(r, clock)'
        BY <1>1, <1>2, <2>1 DEF Later
    <2>5. ASSUME NEW w \in Validators, NEW r \in Records, run'[w].began # NoTransaction
          PROVE  Later(r, run[w].began)'
        <3>1. CASE w = v
            BY <2>1, <2>4, <3>1 DEF Later
        <3>2. CASE w # v
            BY <2>1, <2>5, <3>2 DEF Dated, Later
        <3> QED
            BY <3>1, <3>2
    <2>6. \A h \in Reviewers : \A d \in desk'[h] : \A r \in Records : Later(r, d.began)'
        BY <2>1 DEF Dated, Later
    <2>7. \A w \in Validators : run'[w].began <= clock'
        BY <1>1, <2>1, <2>2 DEF Dated
    <2>8. \A h \in Reviewers : \A d \in desk'[h] : d.began <= clock'
        BY <1>1, <2>1, <2>3 DEF Dated
    <2>9. \A r \in Records : \A e \in events'[r] : e.at <= clock'
        BY <1>1, <1>2, <2>1
    <2>10. \A w \in Validators : run'[w].pc = "idle" => run'[w].began = NoTransaction
        BY <2>1 DEF Dated
    <2> QED
        BY <2>5, <2>6, <2>7, <2>8, <2>9, <2>10 DEF Dated, Later
<1>4. ASSUME NEW v \in Validators, ReadStanding(v) \/ OpenStream(v) \/ Crash(v)
      PROVE  Dated'
    <2>1. UNCHANGED <<events, desk, clock>>
        BY <1>4 DEF ReadStanding, OpenStream, Crash
    <2>2. ASSUME NEW w \in Validators
          PROVE  \/ run'[w].began = NoTransaction
                 \/ run'[w].began = run[w].began /\ run'[w].pc # "idle"
                 \/ run'[w] = run[w]
        <3>1. CASE ReadStanding(v)
            BY <1>1, <3>1 DEF ReadStanding, TypeInv, TypeOK, RunState
        <3>2. CASE OpenStream(v)
            BY <1>1, <3>2 DEF OpenStream, TypeInv, TypeOK, RunState
        <3>3. CASE Crash(v)
            BY <1>1, <3>3 DEF Crash, TypeInv, TypeOK, IdleRun
        <3> QED
            BY <1>4, <3>1, <3>2, <3>3
    <2>3. \A r \in Records : \A e \in events'[r] : e.at <= clock'
        BY <1>2, <2>1
    <2>4. \A w \in Validators, r \in Records :
             run'[w].began # NoTransaction => Later(r, run[w].began)'
        BY <2>1, <2>2 DEF Dated, Later
    <2>5. \A w \in Validators : run'[w].began <= clock'
        BY <1>1, <2>1, <2>2 DEF Dated, NoTransaction
    <2>6. \A w \in Validators : run'[w].pc = "idle" => run'[w].began = NoTransaction
        BY <2>2 DEF Dated
    <2>7. /\ \A h \in Reviewers : \A d \in desk'[h] : \A r \in Records : Later(r, d.began)'
          /\ \A h \in Reviewers : \A d \in desk'[h] : d.began <= clock'
        BY <2>1 DEF Dated, Later
    <2> QED
        BY <2>3, <2>4, <2>5, <2>6, <2>7 DEF Dated, Later
<1>5. ASSUME NEW h \in Reviewers, NEW r \in Records,
             NEW action \in {"released", "rejected", "reopened"}, ReadItem(h, r, action)
      PROVE  Dated'
    <2>1. /\ clock' = clock + 1 /\ UNCHANGED <<events, run>>
          /\ \A g \in Reviewers : \A d \in desk'[g] : d \in desk[g] \/ d.began = clock'
        BY <1>1, <1>5 DEF ReadItem, Tick, TypeInv, TypeOK
    <2>2. \A x \in Records : Later(x, clock)'
        BY <1>1, <1>2, <2>1 DEF Later
    <2>3. \A w \in Validators : run[w].began \in Nat
        BY <1>1 DEF TypeInv, TypeOK, RunState
    <2>4. \A g \in Reviewers : \A d \in desk[g] : d.began \in Nat
        BY <1>1 DEF TypeInv, TypeOK, Decision
    <2>5. ASSUME NEW g \in Reviewers, NEW d \in desk'[g], NEW x \in Records
          PROVE  Later(x, d.began)' /\ d.began <= clock'
        <3>1. CASE d \in desk[g]
            BY <1>1, <2>1, <2>4, <3>1 DEF Dated, Later
        <3>2. CASE d.began = clock'
            BY <1>1, <2>1, <2>2, <3>2 DEF Later
        <3> QED
            BY <2>1, <2>5, <3>1, <3>2
    <2>6. \A w \in Validators : run'[w].began <= clock'
        BY <1>1, <2>1, <2>3 DEF Dated
    <2>7. \A x \in Records : \A e \in events'[x] : e.at <= clock'
        BY <1>1, <1>2, <2>1
    <2>8. \A w \in Validators, x \in Records :
             run'[w].began # NoTransaction => Later(x, run[w].began)'
        BY <2>1 DEF Dated, Later
    <2>9. \A g \in Reviewers : \A d \in desk'[g] : \A x \in Records : Later(x, d.began)'
        BY <2>5
    <2>10. \A g \in Reviewers : \A d \in desk'[g] : d.began <= clock'
        BY <2>5
    <2>11. \A w \in Validators : run'[w].pc = "idle" => run'[w].began = NoTransaction
        BY <2>1 DEF Dated
    <2> QED
        BY <2>6, <2>7, <2>8, <2>9, <2>10, <2>11 DEF Dated, Later
<1>6. ASSUME NEW v \in Validators, Flush(v)
      PROVE  Dated'
    <2>1. PICK chunk \in Chunks(run[v].todo) :
            /\ ApplyVerdicts(chunk, run[v].seen, run[v].existing, run[v].began)
            /\ run' = IF chunk = run[v].todo THEN [run EXCEPT ![v] = IdleRun]
                      ELSE [run EXCEPT ![v] = Flushed(@, chunk)]
        BY <1>6 DEF Flush
    <2>2. /\ run[v] \in RunState /\ run[v].began \in Nat /\ run[v].pc # "idle"
          /\ chunk \in SUBSET Records
          /\ run[v].seen \in [Records -> SUBSET Rules]
          /\ run[v].existing \in [Records -> Item]
          /\ UNCHANGED <<clock, desk>>
        BY <1>1, <1>6, <2>1 DEF Flush, Chunks, TypeInv, TypeOK, RunState
    <2>3. ASSUME NEW r \in Records, NEW e \in events'[r]
          PROVE  e \in events[r] \/ e.at = run[v].began
        BY <2>1, <2>2, <2>3, ApplyDates
    <2>4. run[v].began <= clock
        BY DEF Dated
    <2>5. \A h \in Reviewers : desk'[h] = {}
        BY <1>1, <2>2, RunExcludesWriters
    <2>6. ASSUME NEW w \in Validators
          PROVE  run'[w].began = NoTransaction
        <3>1. CASE w = v
            BY <1>1, <2>1, <2>2, <3>1, FlushedType DEF IdleRun, TypeInv, TypeOK
        <3>2. CASE w # v
            <4>1. run'[w] = run[w]
                BY <1>1, <2>1, <3>2 DEF TypeInv, TypeOK
            <4>2. run[w].pc = "idle"
                BY <1>1, <2>2, <3>2 DEF OneAtATime, Busy
            <4> QED
                BY <4>1, <4>2 DEF Dated
        <3> QED
            BY <3>1, <3>2
    <2>7. clock <= clock'
        BY <1>1, <2>2
    <2> QED
        BY <1>1, <2>2, <2>3, <2>4, <2>5, <2>6, <2>7, DatesWritten
<1>7. ASSUME NEW x \in Records, ProcessRecord(x)
      PROVE  Dated'
    <2> DEFINE none == [y \in Records |-> NoItem]
    <2>1. /\ none \in [Records -> Item] /\ {x} \in SUBSET Records
          /\ failures \in [Records -> SUBSET Rules] /\ stored' # stored
          /\ clock' = clock + 1 /\ clock' \in Nat /\ UNCHANGED <<run, desk>>
          /\ ApplyVerdicts({x}, failures, none, clock')
        BY <1>1, <1>7 DEF ProcessRecord, Tick, NoItem, Item, TypeInv, TypeOK
    <2> HIDE DEF none
    <2>2. ASSUME NEW r \in Records, NEW e \in events'[r]
          PROVE  e \in events[r] \/ e.at = clock'
        BY <2>1, <2>2, ApplyDates
    <2>3. \A w \in Validators : run'[w].began = NoTransaction
        BY <2>1 DEF SerialNext, Busy, Dated
    <2>4. \A h \in Reviewers : desk'[h] = {}
        BY <2>1 DEF SerialNext, Busy
    <2>5. clock <= clock'
        BY <1>1, <2>1
    <2> QED
        BY <1>1, <2>1, <2>2, <2>3, <2>4, <2>5, DatesWritten
<1>8. ASSUME NEW h \in Reviewers, RecordReview(h)
      PROVE  Dated'
    <2>1. PICK d \in desk[h] :
        /\ events' = [events EXCEPT ![d.record] = @ \cup
                        {[action |-> d.action, from |-> d.read.status,
                          to |-> ReviewedStatus(d.action), reasons |-> d.read.reasons,
                          actor |-> h, at |-> d.began]}]
        /\ desk' = [desk EXCEPT ![h] = {}]
        /\ UNCHANGED <<run, clock>>
        BY <1>8 DEF RecordReview
    <2>2. d.began \in Nat /\ d.began <= clock /\ h \in Busy
        BY <1>1 DEF TypeInv, TypeOK, Decision, Dated, Busy
    <2>3. ASSUME NEW r \in Records, NEW e \in events'[r]
          PROVE  e \in events[r] \/ e.at = d.began
        BY <1>1, <2>1, <2>3 DEF TypeInv, TypeOK
    <2>4. ASSUME NEW g \in Reviewers
          PROVE  desk'[g] = {}
        BY <1>1, <2>1, <2>2 DEF OneAtATime, Busy, TypeInv, TypeOK
    <2>5. \A w \in Validators : run[w].pc = "idle"
        BY <1>1, <2>2, ActorAssumption DEF OneAtATime, Busy
    <2>6. \A w \in Validators : run'[w].began = NoTransaction
        BY <2>1, <2>5 DEF Dated
    <2>7. clock <= clock'
        BY <1>1, <2>1
    <2> QED
        BY <1>1, <2>1, <2>2, <2>3, <2>4, <2>6, <2>7, DatesWritten
<1>9. ASSUME UNCHANGED <<events, run, desk, clock>>
      PROVE  Dated'
    BY <1>9 DEF Dated, Later
<1> QED
    BY <1>3, <1>4, <1>5, <1>6, <1>7, <1>8, <1>9 DEF SerialNext, Next, Revise

HistoryInv == HistoryMatchesItem /\ DeskCurrent /\ Dated

LEMMA NextHistory == SerialInv /\ HistoryInv /\ [SerialNext]_vars => HistoryInv'
<1> SUFFICES ASSUME SerialInv, HistoryInv, [SerialNext]_vars
             PROVE  HistoryInv'
    OBVIOUS
<1>1. CASE UNCHANGED vars
    BY <1>1 DEF vars, HistoryInv, HistoryMatchesItem, DeskCurrent, Dated, Later
<1>2. CASE SerialNext
    <2>1. DeskCurrent' /\ Dated'
        BY <1>2, NextDeskCurrent, NextDated DEF HistoryInv
    <2>2. HistoryMatchesItem'
        <3> SUFFICES ASSUME NEW r \in Records
                     PROVE  HistoryOf(events'[r], item'[r].status)
            BY DEF HistoryMatchesItem, HistoryOf
        <3>1. /\ HistoryOf(events[r], item[r].status)
              /\ events[r] \in SUBSET Event /\ item[r] \in Item
            BY DEF HistoryInv, HistoryMatchesItem, HistoryOf, SerialInv, TypeInv, TypeOK
        <3>2. ASSUME NEW errors \in SUBSET Rules, NEW began \in Nat,
                     Judged(r, errors, began), Later(r, began)
              PROVE  HistoryOf(events'[r], item'[r].status)
            <4> DEFINE act == RouteAction(errors, item[r])
                       ev == RouteEvent(act, errors, item[r], began)
            <4>1. CASE act = NoAction
                BY <3>1, <3>2, <4>1 DEF Judged
            <4>2. CASE act # NoAction
                <5>1. item'[r] = Routed(act, errors) /\ events'[r] = events[r] \cup {ev}
                    BY <3>2, <4>2 DEF Judged, Enters
                <5>2. ev \in Event
                    BY <3>1, <4>2, RouteEventType
                <5>3. /\ ev.from = item[r].status /\ ev.at = began
                      /\ ev.to = Routed(act, errors).status
                    BY DEF RouteEvent
                <5> HIDE DEF ev, act
                <5>4. HistoryOf(events[r] \cup {ev}, ev.to)
                    BY <3>1, <3>2, <5>2, <5>3, ChainContinues DEF Later
                <5> QED
                    BY <5>1, <5>3, <5>4
            <4> QED
                BY <4>1, <4>2
        <3>3. ASSUME NEW ev \in Event, Reviewed(r, ev), Later(r, ev.at)
              PROVE  HistoryOf(events'[r], item'[r].status)
            <4>1. HistoryOf(events[r] \cup {ev}, ev.to)
                BY <3>1, <3>3, ChainContinues DEF Reviewed, Later
            <4> QED
                BY <3>3, <4>1 DEF Reviewed, Enters
        <3>4. ASSUME RowKept(r)
              PROVE  HistoryOf(events'[r], item'[r].status)
            BY <3>1, <3>4 DEF RowKept
        <3>5. ASSUME NEW v \in Validators, Flush(v)
              PROVE  HistoryOf(events'[r], item'[r].status)
            BY <3>2, <3>4, <3>5, FlushJudges DEF HistoryInv
        <3>6. ASSUME NEW x \in Records, ProcessRecord(x)
              PROVE  HistoryOf(events'[r], item'[r].status)
            BY <3>2, <3>4, <3>6, LandingJudges DEF HistoryInv, SerialInv
        <3>7. ASSUME NEW h \in Reviewers, RecordReview(h)
              PROVE  HistoryOf(events'[r], item'[r].status)
            BY <3>3, <3>4, <3>7, DecisionReviews DEF HistoryInv, SerialInv
        <3>8. ASSUME UNCHANGED <<verdict, item, events>>
              PROVE  HistoryOf(events'[r], item'[r].status)
            BY <3>4, <3>8 DEF RowKept
        <3> QED
            BY <1>2, <3>5, <3>6, <3>7, <3>8
               DEF SerialNext, Next, Revise, StartRun, ReadStanding, OpenStream, BeginFlush,
                   Crash, ReadItem
    <2> QED
        BY <2>1, <2>2 DEF HistoryInv
<1> QED
    BY <1>1, <1>2

LEMMA InitHistory == Init => HistoryInv
BY DEF Init, HistoryInv, HistoryMatchesItem, LeadsTo, DeskCurrent, Dated, Later, NoItem,
       IdleRun, NoTransaction

LEMMA HistoryInvariant == SerialSpec => []HistoryInv
BY InitHistory, SerialInvariant, NextHistory, PTL DEF SerialSpec

\* One command at a time, through changes of mapping and ruleset, reviews and
\* crashes, a record's history in the order of its dates is an unbroken chain of
\* statuses that ends at the status of its item.
THEOREM HistoryNeverDiverges == SerialSpec => []HistoryMatchesItem
<1>1. HistoryInv => HistoryMatchesItem
    BY DEF HistoryInv
<1> QED
    BY <1>1, HistoryInvariant, PTL

---------------------------------------------------------------------------
(* What a person signed off on: one command at a time, the reasons of an    *)
(* item are the ones of its latest event, and for a record whose verdict is *)
(* invalid they are the errors of that verdict.                             *)

NeverRejected(r) == \A e \in events[r] : e.to # "rejected"

LatestSays(history, reasons) == \E e \in history : IsLatest(e, history) /\ e.reasons = reasons

\* The item of r says what its latest event and its verdict say. A resolved item
\* has no invalid verdict: a review that reopens it forgives nothing.
Explained(r) ==
    item[r].status # "none" =>
        /\ LatestSays(events[r], item[r].reasons)
        /\ KnownInvalid(r) => /\ item[r].status # "resolved"
                              /\ verdict[r].errors = item[r].reasons

ItemsExplained == \A r \in Records : NeverRejected(r) => Explained(r)

\* An entry dated after all others is the latest.
LEMMA LaterIsLatest ==
    ASSUME NEW history \in SUBSET Event, NEW e \in Event, \A f \in history : f.at < e.at
    PROVE  LatestSays(history \cup {e}, e.reasons)
<1>1. IsLatest(e, history \cup {e})
    BY DEF IsLatest, Event
<1> QED
    BY <1>1 DEF LatestSays

\* A rejected item has the rejection in its history.
LEMMA RejectedIsRecorded ==
    ASSUME HistoryMatchesItem, NEW r \in Records, NeverRejected(r)
    PROVE  item[r].status # "rejected"
BY DEF HistoryMatchesItem, LeadsTo, IsLatest, NeverRejected

\* A record that was judged is explained: a route writes the verdict's errors to
\* the item and its event, and leaves the item alone only when they agree.
LEMMA JudgedIsExplained ==
    ASSUME TypeInv, HistoryInv, ItemsExplained,
           NEW r \in Records, NEW errors \in SUBSET Rules, NEW began \in Nat,
           Judged(r, errors, began), Later(r, began), NeverRejected(r)'
    PROVE  Explained(r)'
<1> DEFINE act == RouteAction(errors, item[r])
<1>1. verdict'[r] = [known |-> TRUE, errors |-> errors]
    BY DEF Judged
<1>2. verdict'[r].errors = errors
    BY <1>1
<1>3. item[r] \in Item /\ events[r] \in SUBSET Event
    BY DEF TypeInv, TypeOK
<1>4. CASE act = NoAction
    <2>1. item'[r] = item[r] /\ events'[r] = events[r]
        BY <1>4 DEF Judged
    <2>2. NeverRejected(r)
        BY <2>1 DEF NeverRejected
    <2>3. item[r].status # "rejected"
        BY <2>2, RejectedIsRecorded DEF HistoryInv
    <2>4. Explained(r)
        BY <2>2 DEF ItemsExplained
    <2>5. IsInvalid(errors) => item[r].status # "none" /\ item[r].status # "resolved"
                               /\ item[r].reasons = errors
        BY <1>4, <2>3 DEF RouteAction, NoAction
    <2> QED
        BY <1>2, <2>1, <2>4, <2>5 DEF Explained, KnownInvalid
<1>5. CASE act # NoAction
    <2> DEFINE ev == RouteEvent(act, errors, item[r], began)
    <2>1. item'[r] = Routed(act, errors) /\ events'[r] = events[r] \cup {ev}
        BY <1>5 DEF Judged, Enters
    <2>2. ev \in Event
        BY <1>3, <1>5, RouteEventType
    <2>3. ev.reasons = Routed(act, errors).reasons /\ ev.at = began
        BY DEF RouteEvent
    <2>4. IsInvalid(errors) => act # "resolved"
        BY <1>5 DEF RouteAction, NoAction
    <2>5. act # "resolved" => item'[r].status = "open" /\ item'[r].reasons = errors
        BY <2>1 DEF Routed
    <2> HIDE DEF ev
    <2>6. LatestSays(events'[r], item'[r].reasons)
        BY <1>3, <2>1, <2>2, <2>3, LaterIsLatest DEF Later
    <2> QED
        BY <1>2, <2>4, <2>5, <2>6 DEF Explained, KnownInvalid
<1> QED
    BY <1>4, <1>5

\* A row that is kept stays explained.
LEMMA KeptIsExplained ==
    ASSUME ItemsExplained, NEW r \in Records, RowKept(r), NeverRejected(r)'
    PROVE  Explained(r)'
<1>1. NeverRejected(r)
    BY DEF NeverRejected, RowKept
<1> QED
    BY <1>1 DEF ItemsExplained, Explained, RowKept, KnownInvalid

\* A review keeps the reasons and writes them to its event.
LEMMA ReviewIsExplained ==
    ASSUME TypeInv, ItemsExplained, NEW r \in Records, NEW ev \in Event,
           Reviewed(r, ev), Later(r, ev.at), NeverRejected(r)'
    PROVE  Explained(r)'
<1>1. NeverRejected(r)
    BY DEF NeverRejected, Reviewed, Enters
<1>2. Explained(r)
    BY <1>1 DEF ItemsExplained
<1>3. events[r] \in SUBSET Event /\ events'[r] = events[r] \cup {ev}
    BY DEF Reviewed, Enters, TypeInv, TypeOK
<1>4. LatestSays(events'[r], ev.reasons)
    BY <1>3, LaterIsLatest DEF Later
<1> QED
    BY <1>2, <1>4 DEF Explained, Reviewed, KnownInvalid

LEMMA NextExplained ==
    SerialInv /\ HistoryInv /\ ItemsExplained /\ [SerialNext]_vars => ItemsExplained'
<1> SUFFICES ASSUME SerialInv, HistoryInv, ItemsExplained, [SerialNext]_vars,
                    NEW r \in Records, NeverRejected(r)'
             PROVE  Explained(r)'
    BY DEF ItemsExplained
<1>1. ASSUME NEW v \in Validators, Flush(v)
      PROVE  Explained(r)'
    BY <1>1, FlushJudges, JudgedIsExplained, KeptIsExplained DEF SerialInv, HistoryInv
<1>2. ASSUME NEW x \in Records, ProcessRecord(x)
      PROVE  Explained(r)'
    BY <1>2, LandingJudges, JudgedIsExplained, KeptIsExplained DEF SerialInv, HistoryInv
<1>3. ASSUME NEW h \in Reviewers, RecordReview(h)
      PROVE  Explained(r)'
    BY <1>3, DecisionReviews, ReviewIsExplained, KeptIsExplained DEF SerialInv, HistoryInv
<1>4. ASSUME UNCHANGED <<verdict, item, events>>
      PROVE  Explained(r)'
    BY <1>4, KeptIsExplained DEF RowKept
<1> QED
    BY <1>1, <1>2, <1>3, <1>4
       DEF SerialNext, Next, vars, Revise, StartRun, ReadStanding, OpenStream, BeginFlush,
           Crash, ReadItem

\* "They signed off on one problem, not on any future one": one command at a
\* time, while a release is what makes an invalid record resolvable, its errors
\* are the reasons it was released with, unless someone has rejected it.
THEOREM ReleaseCovers == SerialSpec => []ReleaseCoversVerdict
<1>1. Init => ItemsExplained
    BY DEF Init, ItemsExplained, Explained, NoItem
<1>2. ItemsExplained => ReleaseCoversVerdict
    BY DEF ItemsExplained, Explained, LatestSays, ReleaseCoversVerdict, NeverRejected
<1> QED
    BY <1>1, <1>2, NextExplained, HistoryInvariant, SerialInvariant, PTL DEF SerialSpec

===========================================================================
