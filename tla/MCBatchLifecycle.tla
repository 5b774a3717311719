------------------------- MODULE MCBatchLifecycle -------------------------
(***************************************************************************)
(* Model checking BatchLifecycle: the commands are interchangeable.        *)
(***************************************************************************)
EXTENDS BatchLifecycle, TLC

MCFlags == {FALSE}
MCAnyFlags == BOOLEAN
MCUnstorable == {2}
MCStorable == {}

Symmetry == Permutations(Loaders) \cup Permutations(Replayers) \cup Permutations(Operators)

===========================================================================
