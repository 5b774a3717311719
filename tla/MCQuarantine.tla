--------------------------- MODULE MCQuarantine ---------------------------
(***************************************************************************)
(* Instances of Quarantine for TLC.  Two error rules, one of a value and   *)
(* one of the record, let reasons change while a record stays invalid.     *)
(***************************************************************************)
EXTENDS Quarantine, TLC

CONSTANTS r1, r2, noEmail, badPhone

MCRecords == {r1, r2}
MCOneRecord == {r1}
MCRules == {noEmail, badPhone}
MCRecordRules == {noEmail}
Symmetry == Permutations(Records) \cup Permutations(Reviewers)

\* What any later verdict and item depend on: everything but the entries of the histories
\* and the dates, of which only whether a transaction is open is ever asked.
Undated ==
    <<stored, failures, verdict, item, budget,
      [v \in Validators |-> [run[v] EXCEPT !.began = @ # NoTransaction]],
      [h \in Reviewers |-> {[d EXCEPT !.began = NoTransaction] : d \in desk[h]}]>>
===========================================================================
