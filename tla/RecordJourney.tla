--------------------------- MODULE RecordJourney ---------------------------
(***************************************************************************)
(* What the chain of stages promises to each record: it is observed,       *)
(* judged, linked to an entity and shown in a golden record, one after the *)
(* other, and never goes back.  Quarantine holds a judged record back, as  *)
(* its verdicts and the decisions of people have it, and either may change *)
(* at any time; a record is linked only if it was due: put on a list, once *)
(* judged, when nothing held it back.                                      *)
(***************************************************************************)
EXTENDS Naturals

CONSTANT Records

VARIABLES place, held, due

vars == <<place, held, due>>

Loaded == 0
Observed == 1
Judged == 2
Linked == 3
Shown == 4

Init == place = [r \in Records |-> Loaded] /\ held = {} /\ due = {}

Moves(r, n) == place[r] = n /\ place' = [place EXCEPT ![r] = n + 1]

Observe(r) == Moves(r, Loaded) /\ UNCHANGED <<held, due>>

Show(r) == Moves(r, Linked) /\ UNCHANGED <<held, due>>

\* A verdict, the first or a later one, or a decision on a record that has one.
Judge(r) ==
  /\ Moves(r, Observed) \/ (place[r] >= Judged /\ UNCHANGED place)
  /\ held' \in {held \cup {r}, held \ {r}}
  /\ UNCHANGED due

Link(r) ==
  /\ r \in due
  /\ Moves(r, Judged)
  /\ due' \in {due, due \ {r}}
  /\ UNCHANGED held

\* A run makes its list, or ends, or finds that another has linked a record.
List ==
  /\ due' \subseteq due \cup ({r \in Records : place[r] = Judged} \ held)
  /\ UNCHANGED <<place, held>>

Next == List \/ \E r \in Records : Observe(r) \/ Judge(r) \/ Link(r) \/ Show(r)

Spec == Init /\ [][Next]_vars
=============================================================================
