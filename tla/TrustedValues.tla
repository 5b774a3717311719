--------------------------- MODULE TrustedValues ---------------------------
(***************************************************************************)
(* What a golden record promises, whoever builds it and however builds     *)
(* interleave: the trusted values of an entity are recomputed as a whole   *)
(* from what its records say at that moment, and are out of date only      *)
(* while a change of the records waits for its build.                      *)
(***************************************************************************)
CONSTANT Entities

VARIABLES
    says,       \* says[e]: what the records of e say now
    trusted,    \* trusted[e]: the values published for e
    stale       \* entities whose records have changed since they were built

vars == <<says, trusted, stale>>

Init == stale = Entities

\* An entity either waits for its build and keeps the values it has, or has the
\* values that its records say.
Learn ==
    \A e \in Entities : IF e \in stale' THEN trusted'[e] = trusted[e]
                                       ELSE trusted'[e] = says'[e]

Spec == Init /\ [][Learn]_vars

============================================================================
