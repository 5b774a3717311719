-------------------------- MODULE MigrationProofs --------------------------
(***************************************************************************)
(* Proofs about Migrations, for every set of files and releases and any    *)
(* number of migrators.                                                    *)
(***************************************************************************)
EXTENDS Migrations, TLAPS

---------------------------------------------------------------------------
(* The strengthening.  What an open run still has to do and what it has    *)
(* done make up its release together with the history; what it has done is *)
(* recorded nowhere, and no other open run has done any of it.             *)

\* What holds of one run: its files are one to a version, and once they are
\* checked, whole.
RunOpen(run) ==
    /\ run.pc # "idle" => run.release \in Releases /\ Discovered(run.release)
    /\ run.pc # "applying" => run.done = {} /\ run.todo = {}
    /\ run.pc = "applying" =>
         /\ \A f \in run.release : Whole(f)
         /\ run.release \subseteq history \cup run.todo \cup run.done
         /\ \A f \in run.done : f.version \notin Versions(history)

RunsOpen == \A m \in Migrators : RunOpen(migrator[m])

\* No two open runs have applied the same version.
RunsApart ==
    \A m, o \in Migrators : m # o =>
        \A f \in migrator[m].done, g \in migrator[o].done : f.version # g.version

Inv ==
    /\ TypeOK
    /\ RunsOpen
    /\ RunsApart
    /\ HistoryIsTheSchema
    /\ HistoryIsSuccesses

---------------------------------------------------------------------------
\* A step of one migrator that changes neither tables nor successes keeps the
\* invariant if what it makes of its run is in order.
LEMMA RunStep ==
    ASSUME Inv, NEW m \in Migrators, NEW run,
           migrator' = [migrator EXCEPT ![m] = run],
           tracked' \in BOOLEAN,
           UNCHANGED <<history, executed, succeeded>>,
           run \in [pc : {"idle", "tracking", "checking", "applying"},
                    release : Releases \cup {{}}, foundTable : BOOLEAN,
                    todo : SUBSET Files, done : SUBSET Files],
           run.todo \cup run.done \subseteq run.release,
           run.pc = "idle" => run = Idle,
           RunOpen(run),
           \A f \in run.done : \/ f \in migrator[m].done
                               \/ \A o \in Migrators \ {m} : f.version \notin Versions(migrator[o].done)
    PROVE  Inv'
<1>1. TypeOK'
    BY DEF Inv, TypeOK
<1>2. \A o \in Migrators : migrator'[o] = IF o = m THEN run ELSE migrator[o]
    BY DEF Inv, TypeOK
<1>3. RunsOpen'
    <2> SUFFICES ASSUME NEW o \in Migrators PROVE RunOpen(migrator[o])'
        BY DEF RunsOpen
    <2>1. RunOpen(migrator'[o])
        BY <1>2 DEF Inv, RunsOpen
    <2> QED
        BY <2>1 DEF RunOpen, Discovered, Whole, Versions
<1>4. RunsApart'
    <2> SUFFICES ASSUME NEW a \in Migrators, NEW b \in Migrators, a # b,
                        NEW f \in migrator'[a].done, NEW g \in migrator'[b].done
                 PROVE  f.version # g.version
        BY DEF RunsApart
    <2>1. CASE a # m /\ b # m
        BY <2>1, <1>2 DEF Inv, RunsApart
    <2>2. CASE a = m
        BY <2>2, <1>2 DEF Inv, RunsApart, Versions
    <2>3. CASE b = m
        BY <2>3, <1>2 DEF Inv, RunsApart, Versions
    <2> QED
        BY <2>1, <2>2, <2>3
<1>5. HistoryIsTheSchema' /\ HistoryIsSuccesses'
    BY DEF Inv, HistoryIsTheSchema, HistoryIsSuccesses
<1> QED
    BY <1>1, <1>3, <1>4, <1>5 DEF Inv

\* The end of a run, whatever ends it without success.
LEMMA IdleStep ==
    ASSUME Inv, NEW m \in Migrators, migrator' = [migrator EXCEPT ![m] = Idle],
           tracked' \in BOOLEAN, UNCHANGED <<history, executed, succeeded>>
    PROVE  Inv'
<1>1. Idle \in [pc : {"idle", "tracking", "checking", "applying"},
                release : Releases \cup {{}}, foundTable : BOOLEAN,
                todo : SUBSET Files, done : SUBSET Files]
    BY DEF Idle
<1>2. RunOpen(Idle)
    BY DEF RunOpen, Idle
<1>3. Idle.todo \cup Idle.done \subseteq Idle.release /\ \A f \in Idle.done : FALSE
    BY DEF Idle
<1> QED
    BY <1>1, <1>2, <1>3, RunStep

\* Start, Track, Check and Apply.
LEMMA StartStep ==
    ASSUME Inv, NEW m \in Migrators, NEW R \in Releases, Start(m, R)
    PROVE  Inv'
<1> DEFINE run == [pc |-> "tracking", release |-> R, foundTable |-> tracked,
                   todo |-> {}, done |-> {}]
<1>1. RunOpen(run)
    BY DEF RunOpen, Start
<1>2. run \in [pc : {"idle", "tracking", "checking", "applying"},
               release : Releases \cup {{}}, foundTable : BOOLEAN,
               todo : SUBSET Files, done : SUBSET Files]
    BY DEF Inv, TypeOK
<1>3. /\ migrator' = [migrator EXCEPT ![m] = run]
      /\ tracked' \in BOOLEAN /\ UNCHANGED <<history, executed, succeeded>>
    BY DEF Start, Inv, TypeOK
<1>4. run.pc = "tracking" /\ run.todo = {} /\ run.done = {}
    OBVIOUS
<1> HIDE DEF run
<1>5. run.todo \cup run.done \subseteq run.release /\ \A f \in run.done : FALSE
    BY <1>4
<1>6. run.pc # "idle"
    BY <1>4
<1> QED
    BY <1>1, <1>2, <1>3, <1>5, <1>6, RunStep

LEMMA TrackStep ==
    ASSUME Inv, NEW m \in Migrators, Track(m)
    PROVE  Inv'
<1>1. CASE tracked /\ ~migrator[m].foundTable
    BY <1>1, IdleStep DEF Track, Inv, TypeOK
<1>2. CASE ~(tracked /\ ~migrator[m].foundTable)
    <2> DEFINE old == migrator[m]
               run == [old EXCEPT !.pc = "checking"]
    <2>1. /\ migrator' = [migrator EXCEPT ![m] = run]
          /\ tracked' \in BOOLEAN /\ UNCHANGED <<history, executed, succeeded>>
        BY <1>2 DEF Track, Inv, TypeOK
    <2>2. old \in [pc : {"idle", "tracking", "checking", "applying"},
                   release : Releases \cup {{}}, foundTable : BOOLEAN,
                   todo : SUBSET Files, done : SUBSET Files]
        BY DEF Inv, TypeOK
    <2>3. /\ run.todo = old.todo /\ run.done = old.done
          /\ run.release = old.release /\ run.pc = "checking"
        BY <2>2
    <2>4. run \in [pc : {"idle", "tracking", "checking", "applying"},
                   release : Releases \cup {{}}, foundTable : BOOLEAN,
                   todo : SUBSET Files, done : SUBSET Files]
        BY <2>2
    <2>5. RunOpen(old) /\ old.pc = "tracking" /\ old.todo \cup old.done \subseteq old.release
        BY DEF Inv, RunsOpen, Track, TypeOK
    <2> HIDE DEF run, old
    <2>6. RunOpen(run)
        BY <2>3, <2>5 DEF RunOpen
    <2> QED
        BY <2>1, <2>3, <2>4, <2>5, <2>6, RunStep DEF old
<1> QED
    BY <1>1, <1>2

LEMMA CheckStep ==
    ASSUME Inv, NEW m \in Migrators, Check(m)
    PROVE  Inv'
<1> DEFINE R == migrator[m].release
<1>1. CASE ~Agrees(R)
    BY <1>1, IdleStep DEF Check, Inv, TypeOK
<1>2. CASE Agrees(R)
    <2> DEFINE pending == {f \in R : f.version \notin Versions(history)}
               run == [migrator[m] EXCEPT !.pc = "applying", !.todo = pending]
    <2>1. migrator' = [migrator EXCEPT ![m] = run]
        BY <1>2 DEF Check, Inv, TypeOK
    <2>2. migrator[m] \in [pc : {"idle", "tracking", "checking", "applying"},
                           release : Releases \cup {{}}, foundTable : BOOLEAN,
                           todo : SUBSET Files, done : SUBSET Files]
        BY DEF Inv, TypeOK
    <2>3. R \subseteq Files /\ history \subseteq Files
        BY <2>2, FileAssumption DEF Inv, TypeOK
    <2>4. R \subseteq history \cup pending
        <3> SUFFICES ASSUME NEW f \in R, f.version \in Versions(history) PROVE f \in history
            OBVIOUS
        <3>1. PICK h \in history : h.version = f.version
            BY DEF Versions
        <3>2. h.text = f.text
            BY <3>1, <1>2 DEF Agrees
        <3> QED
            BY <3>1, <3>2, <2>3, FileAssumption
    <2>5. run.done = {} /\ run.todo = pending /\ run.release = R /\ run.pc = "applying"
        BY <2>2 DEF Inv, RunsOpen, RunOpen, Check
    <2>6. RunOpen(run)
        <3>1. R \in Releases /\ Discovered(R)
            BY DEF Inv, RunsOpen, RunOpen, Check
        <3>2. \A f \in R : Whole(f)
            BY <1>2 DEF Agrees
        <3> QED
            BY <3>1, <3>2, <2>4, <2>5 DEF RunOpen
    <2>7. run \in [pc : {"idle", "tracking", "checking", "applying"},
                   release : Releases \cup {{}}, foundTable : BOOLEAN,
                   todo : SUBSET Files, done : SUBSET Files]
        BY <2>2, <2>3
    <2> HIDE DEF run
    <2> QED
        BY <2>1, <2>5, <2>6, <2>7, RunStep DEF Check, Inv, TypeOK
<1> QED
    BY <1>1, <1>2

LEMMA ApplyStep ==
    ASSUME Inv, NEW m \in Migrators, Apply(m)
    PROVE  Inv'
<1>1. PICK f \in Files :
        /\ IsNext(m, f)
        /\ ~Waits(m, f)
        /\ migrator' = [migrator EXCEPT
                          ![m] = IF Refused(f) THEN Idle ELSE WithApplied(migrator[m], f)]
    BY DEF Apply
<1>2. tracked' \in BOOLEAN /\ UNCHANGED <<history, executed, succeeded>>
    BY DEF Apply, Inv, TypeOK
<1>3. CASE Refused(f)
    BY <1>1, <1>2, <1>3, IdleStep
<1>4. CASE ~Refused(f)
    <2> DEFINE old == migrator[m]
               run == WithApplied(old, f)
    <2>1. migrator' = [migrator EXCEPT ![m] = run]
        BY <1>1, <1>4
    <2>2. old \in [pc : {"idle", "tracking", "checking", "applying"},
                   release : Releases \cup {{}}, foundTable : BOOLEAN,
                   todo : SUBSET Files, done : SUBSET Files]
        BY DEF Inv, TypeOK
    <2>3. /\ run.todo = old.todo \ {f} /\ run.done = old.done \cup {f}
          /\ run.release = old.release /\ run.pc = "applying"
          /\ run.foundTable = old.foundTable
        BY <2>2 DEF Apply, WithApplied
    <2>4. run \in [pc : {"idle", "tracking", "checking", "applying"},
                   release : Releases \cup {{}}, foundTable : BOOLEAN,
                   todo : SUBSET Files, done : SUBSET Files]
        BY <2>2 DEF WithApplied
    <2>5. f \in old.todo /\ old.todo \cup old.done \subseteq old.release
        BY <1>1 DEF IsNext, Inv, TypeOK
    <2>6. RunOpen(old) /\ old.pc = "applying"
        BY DEF Inv, RunsOpen, Apply
    <2> HIDE DEF run, old
    <2>7. RunOpen(run)
        BY <2>3, <2>5, <2>6, <1>4 DEF RunOpen, Refused
    <2>8. \A g \in run.done : \/ g \in old.done
                              \/ \A o \in Migrators \ {m} : g.version \notin Versions(migrator[o].done)
        BY <2>3, <1>1 DEF Waits
    <2>9. run.todo \cup run.done \subseteq run.release
        BY <2>3, <2>5
    <2> QED
        BY <2>1, <2>3, <2>4, <2>7, <2>8, <2>9, <1>2, RunStep DEF old
<1> QED
    BY <1>3, <1>4

\* The commit of a run: its files are recorded, have been run, and are its release.
LEMMA FinishStep ==
    ASSUME Inv, NEW m \in Migrators, Finish(m)
    PROVE  Inv'
<1> DEFINE done == migrator[m].done
           R == migrator[m].release
<1>1. /\ history' = history \cup done
      /\ executed' = [f \in Files |-> IF f \in done /\ Whole(f) THEN executed[f] + 1 ELSE executed[f]]
      /\ succeeded' = succeeded \cup {R}
      /\ migrator' = [migrator EXCEPT ![m] = Idle]
      /\ tracked' = tracked
    BY DEF Finish
<1>2. /\ Discovered(R) /\ \A f \in R : Whole(f)
      /\ R \subseteq history \cup done
      /\ \A f \in done : f.version \notin Versions(history)
      /\ done \subseteq R /\ done \subseteq Files
    BY DEF Finish, Inv, RunsOpen, RunOpen, TypeOK
<1>3. \A o \in Migrators : migrator'[o] = IF o = m THEN Idle ELSE migrator[o]
    BY <1>1 DEF Inv, TypeOK
<1>4. TypeOK'
    <2>1. R \in Releases
        BY DEF Finish, Inv, RunsOpen, RunOpen
    <2>2. executed' \in [Files -> Nat]
        BY <1>1 DEF Inv, TypeOK
    <2> QED
        BY <1>1, <1>2, <1>3, <2>1, <2>2 DEF Inv, TypeOK, Idle
<1>5. RunsOpen'
    <2> SUFFICES ASSUME NEW o \in Migrators PROVE RunOpen(migrator[o])'
        BY DEF RunsOpen
    <2>1. CASE o = m
        BY <2>1, <1>3 DEF RunOpen, Idle
    <2>2. CASE o # m
        <3>1. RunOpen(migrator[o]) /\ migrator'[o] = migrator[o]
            BY <2>2, <1>3 DEF Inv, RunsOpen
        <3>2. \A f \in migrator[o].done, g \in done : f.version # g.version
            BY <2>2 DEF Inv, RunsApart
        <3> QED
            BY <3>1, <3>2, <1>1 DEF RunOpen, Discovered, Whole, Versions
    <2> QED
        BY <2>1, <2>2
<1>6. RunsApart'
    <2> SUFFICES ASSUME NEW a \in Migrators, NEW b \in Migrators, a # b,
                        NEW f \in migrator'[a].done, NEW g \in migrator'[b].done
                 PROVE  f.version # g.version
        BY DEF RunsApart
    <2>1. a # m /\ b # m
        BY <1>3 DEF Idle
    <2> QED
        BY <2>1, <1>3 DEF Inv, RunsApart
<1>7. HistoryIsTheSchema'
    <2>1. \A f \in Files : executed'[f] = IF f \in history' THEN 1 ELSE 0
        <3> TAKE f \in Files
        <3>1. executed[f] = IF f \in history THEN 1 ELSE 0
            BY DEF Inv, HistoryIsTheSchema
        <3>2. f \in done => Whole(f) /\ f \notin history
            BY <1>2 DEF Versions
        <3> QED
            BY <3>1, <3>2, <1>1
    <2>2. \A f, g \in history' : f.version = g.version => f = g
        <3> SUFFICES ASSUME NEW f \in history', NEW g \in history', f.version = g.version
                     PROVE  f = g
            OBVIOUS
        <3>1. CASE f \in history /\ g \in history
            BY <3>1 DEF Inv, HistoryIsTheSchema
        <3>2. CASE f \in done /\ g \in done
            BY <3>2, <1>2 DEF Discovered
        <3>3. ~(f \in done /\ g \in history) /\ ~(g \in done /\ f \in history)
            BY <1>2 DEF Versions
        <3> QED
            BY <3>1, <3>2, <3>3, <1>1
    <2> QED
        BY <2>1, <2>2 DEF HistoryIsTheSchema
<1>8. HistoryIsSuccesses'
    <2>1. UNION succeeded' = (UNION succeeded) \cup R
        BY <1>1
    <2>2. history = UNION succeeded
        BY DEF Inv, HistoryIsSuccesses
    <2> QED
        BY <2>1, <2>2, <1>1, <1>2 DEF HistoryIsSuccesses
<1> QED
    BY <1>4, <1>5, <1>6, <1>7, <1>8 DEF Inv

---------------------------------------------------------------------------
LEMMA InitInv == Init => Inv
<1> SUFFICES ASSUME Init PROVE Inv
    OBVIOUS
<1>1. TypeOK
    BY DEF Init, TypeOK, Idle
<1>2. RunsOpen /\ RunsApart
    BY DEF Init, RunsOpen, RunOpen, RunsApart, Idle
<1>3. HistoryIsTheSchema /\ HistoryIsSuccesses
    BY DEF Init, HistoryIsTheSchema, HistoryIsSuccesses
<1> QED
    BY <1>1, <1>2, <1>3 DEF Inv

LEMMA NextInv == Inv /\ [Next]_vars => Inv'
<1> SUFFICES ASSUME Inv, [Next]_vars PROVE Inv'
    OBVIOUS
<1>1. CASE UNCHANGED vars
    BY <1>1 DEF vars, Inv, TypeOK, RunsOpen, RunOpen, RunsApart, HistoryIsTheSchema,
                HistoryIsSuccesses, Discovered, Whole, Versions
<1>2. ASSUME NEW m \in Migrators, NEW R \in Releases, Start(m, R) PROVE Inv'
    BY <1>2, StartStep
<1>3. ASSUME NEW m \in Migrators, Track(m) PROVE Inv'
    BY <1>3, TrackStep
<1>4. ASSUME NEW m \in Migrators, Check(m) PROVE Inv'
    BY <1>4, CheckStep
<1>5. ASSUME NEW m \in Migrators, Apply(m) PROVE Inv'
    BY <1>5, ApplyStep
<1>6. ASSUME NEW m \in Migrators, Finish(m) PROVE Inv'
    BY <1>6, FinishStep
<1>7. ASSUME NEW m \in Migrators, Fail(m) PROVE Inv'
    BY <1>7, IdleStep DEF Fail, Inv, TypeOK
<1> QED
    BY <1>1, <1>2, <1>3, <1>4, <1>5, <1>6, <1>7 DEF Next

LEMMA InvAlways == Spec => []Inv
BY InitInv, NextInv, PTL DEF Spec

\* Runs hold only files of their release, and nothing once they are over (migrate).
THEOREM TypeCorrect == Spec => []TypeOK
BY InvAlways, PTL DEF Inv

\* Whoever else migrates and whenever migrators die, the recorded files are the
\* ones that were run, once and from end to end (_apply, _reject_unexecutable).
THEOREM SchemaMatchesHistory == Spec => []HistoryIsTheSchema
BY InvAlways, PTL DEF Inv

\* No run leaves a part of its release behind, and one that reports success has
\* found or applied all of it (migrate).
THEOREM OnlyWholeReleases == Spec => []HistoryIsSuccesses
BY InvAlways, PTL DEF Inv

===========================================================================
