----------------------------- MODULE Migrations -----------------------------
(***************************************************************************)
(* The migration runner: any number of migrators, each started with the    *)
(* files of some release, against one database.  A run reads what has been *)
(* applied, refuses a release that does not agree with it, and applies     *)
(* what is left in the order of the versions.                              *)
(*                                                                         *)
(* The SELECT of _applied opens a transaction that psycopg keeps open, so  *)
(* each "with conn.transaction()" is a savepoint of it, and the whole run  *)
(* is committed at the end or rolled back.  For the same reason a file     *)
(* that is marked to run outside a transaction makes the run fail: psycopg *)
(* refuses to change autocommit inside one.                                *)
(***************************************************************************)
EXTENDS Naturals, FiniteSets

CONSTANTS
  Files,      \* migration files, as [version, text]
  Releases,   \* what db/migrations may hold: sets of files
  Truncated,  \* texts with a NUL byte, of which Postgres would run a part
  Outside,    \* texts that start with the marker -- pcdf:no-transaction
  Migrators

ASSUME FileAssumption ==
  /\ \A f \in Files : f.version \in Nat
  /\ \A f, g \in Files : f.version = g.version /\ f.text = g.text => f = g
  /\ \A R \in Releases : R \subseteq Files

VARIABLES
  tracked,   \* whether the table schema_migrations exists
  history,   \* schema_migrations: the files recorded as applied
  executed,  \* how often the database has run each file from end to end
  migrator,  \* what each migrator is doing
  succeeded  \* history variable: the releases of the runs that returned 0

vars == <<tracked, history, executed, migrator, succeeded>>

Idle == [pc |-> "idle", release |-> {}, foundTable |-> FALSE, todo |-> {}, done |-> {}]

Versions(files) == {f.version : f \in files}

\* discover: one file for each version.
Discovered(R) == \A f, g \in R : f.version = g.version => f = g

Whole(f) == f.text \notin Truncated

\* Faulty: a file with a NUL byte is let through.
FaultyAgrees(R) ==
  \A f \in R, h \in history : f.version = h.version => f.text = h.text

\* What a run checks before it applies anything: every file is whole, and the
\* ones that were applied before have not been edited since.
Agrees(R) ==
  /\ \A f \in R : Whole(f)
  /\ \A f \in R, h \in history : f.version = h.version => f.text = h.text

Init ==
  /\ tracked = FALSE
  /\ history = {}
  /\ executed = [f \in Files |-> 0]
  /\ migrator = [m \in Migrators |-> Idle]
  /\ succeeded = {}

-----------------------------------------------------------------------------
\* Discovers its files and begins CREATE TABLE IF NOT EXISTS.
Start(m, R) ==
  /\ migrator[m] = Idle
  /\ Discovered(R)
  /\ migrator' = [migrator EXCEPT
                    ![m] = [pc |-> "tracking", release |-> R, foundTable |-> tracked,
                            todo |-> {}, done |-> {}]]
  /\ UNCHANGED <<tracked, history, executed, succeeded>>

\* The tracking table is committed by itself.  IF NOT EXISTS does not help a
\* migrator that looked before another had created it.
Track(m) ==
  /\ migrator[m].pc = "tracking"
  /\ tracked' = TRUE
  /\ migrator' = [migrator EXCEPT
                    ![m] = IF tracked /\ ~@.foundTable THEN Idle
                           ELSE [@ EXCEPT !.pc = "checking"]]
  /\ UNCHANGED <<history, executed, succeeded>>

\* Reads what has been applied and compares: the run is refused, or has its
\* pending migrations.
Check(m) ==
  /\ migrator[m].pc = "checking"
  /\ LET R == migrator[m].release
     IN migrator' = [migrator EXCEPT
                       ![m] = IF ~Agrees(R) THEN Idle
                              ELSE [@ EXCEPT !.pc = "applying",
                                     !.todo = {f \in R : f.version \notin Versions(history)}]]
  /\ UNCHANGED <<tracked, history, executed, succeeded>>

IsNext(m, f) == f \in migrator[m].todo /\ \A g \in migrator[m].todo : f.version <= g.version

\* Another open transaction has run the version: its locks, and the primary key
\* of schema_migrations, make this one wait until that is over.
Waits(m, f) == \E o \in Migrators \ {m} : f.version \in Versions(migrator[o].done)

Refused(f) == f.text \in Outside \/ f.version \in Versions(history)

WithApplied(open, f) == [open EXCEPT !.todo = @ \ {f}, !.done = @ \cup {f}]

\* Faulty: every migration is committed by itself.
FaultyApply(m) ==
  /\ migrator[m].pc = "applying"
  /\ \E f \in Files :
       /\ IsNext(m, f)
       /\ ~Waits(m, f)
       /\ IF Refused(f)
          THEN migrator' = [migrator EXCEPT ![m] = Idle] /\ UNCHANGED <<history, executed>>
          ELSE /\ migrator' = [migrator EXCEPT ![m].todo = @ \ {f}]
               /\ history' = history \cup {f}
               /\ executed' = [executed EXCEPT ![f] = @ + 1]
  /\ UNCHANGED <<tracked, succeeded>>

\* The next pending file is run and recorded.  It fails when another run has
\* applied the version by now, and the run with it.
Apply(m) ==
  /\ migrator[m].pc = "applying"
  /\ \E f \in Files :
       /\ IsNext(m, f)
       /\ ~Waits(m, f)
       /\ migrator' = [migrator EXCEPT
                         ![m] = IF Refused(f) THEN Idle ELSE WithApplied(migrator[m], f)]
  /\ UNCHANGED <<tracked, history, executed, succeeded>>

\* The end of the block commits what the run has applied.
Finish(m) ==
  /\ migrator[m].pc = "applying"
  /\ migrator[m].todo = {}
  /\ history' = history \cup migrator[m].done
  /\ executed' = [f \in Files |->
                    IF f \in migrator[m].done /\ Whole(f) THEN executed[f] + 1 ELSE executed[f]]
  /\ succeeded' = succeeded \cup {migrator[m].release}
  /\ migrator' = [migrator EXCEPT ![m] = Idle]
  /\ UNCHANGED tracked

\* Faulty: the connection is used again without a rollback.
FaultyFail(m) ==
  /\ migrator[m] # Idle
  /\ migrator' = [migrator EXCEPT ![m].pc = "idle"]
  /\ UNCHANGED <<tracked, history, executed, succeeded>>

\* A statement fails or the container is stopped: the transaction is rolled back.
Fail(m) ==
  /\ migrator[m] # Idle
  /\ migrator' = [migrator EXCEPT ![m] = Idle]
  /\ UNCHANGED <<tracked, history, executed, succeeded>>

Next ==
  \E m \in Migrators :
    \/ \E R \in Releases : Start(m, R)
    \/ Track(m) \/ Check(m) \/ Apply(m) \/ Finish(m) \/ Fail(m)

Spec == Init /\ [][Next]_vars

-----------------------------------------------------------------------------
\* The tables and runs have their types; a run holds only files of its release, and
\* one that is over holds nothing.
TypeOK ==
  /\ tracked \in BOOLEAN
  /\ history \subseteq Files
  /\ executed \in [Files -> Nat]
  /\ migrator \in [Migrators -> [pc : {"idle", "tracking", "checking", "applying"},
                                 release : Releases \cup {{}}, foundTable : BOOLEAN,
                                 todo : SUBSET Files, done : SUBSET Files]]
  /\ \A m \in Migrators :
       /\ migrator[m].todo \cup migrator[m].done \subseteq migrator[m].release
       /\ migrator[m].pc = "idle" => migrator[m] = Idle
  /\ succeeded \subseteq Releases

\* A schema that does "not match its own migration history" (_reject_unexecutable)
\* cannot come about: every recorded file was run once and from end to end, every
\* other was not run, and no version is recorded twice, whoever else migrates and
\* whenever a migrator dies.
HistoryIsTheSchema ==
  /\ \A f \in Files : executed[f] = IF f \in history THEN 1 ELSE 0
  /\ \A f, g \in history : f.version = g.version => f = g

\* The history is what the runs that reported success brought, and all of it: a run
\* that failed or died leaves no part of its release, and a run that succeeded found
\* or applied every file of its release as it was on disk (migrate).
HistoryIsSuccesses == history = UNION succeeded

=============================================================================
