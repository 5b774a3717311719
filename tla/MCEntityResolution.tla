------------------------ MODULE MCEntityResolution ------------------------
(***************************************************************************)
(* Instances of EntityResolution for TLC: company keys with the weights of *)
(* KEY_WEIGHTS.  Either of two domains links on its own, and a name is     *)
(* worth a review.                                                         *)
(***************************************************************************)
EXTENDS EntityResolution, TLC

CONSTANTS domain, otherDomain, name, vendor, directory

MCBatches == {vendor, directory}
MCBatchOf == [r \in Records |-> IF r = 3 THEN directory ELSE vendor]
MCTwoKeys == {domain, name}
MCKeys == {domain, otherDomain, name}
MCKeyType == [k \in Keys |-> IF k = name THEN name ELSE domain]
MCWeight == [k \in Keys |-> IF k = name THEN 65 ELSE 92]
MCStrong == Keys \ {name}
MCNames == {name}
MCSymmetry == Permutations({domain, otherDomain})

\* A directory of locations: seven rows of one name with domains in common.  None
\* links by itself, and reblock finds five groups that overlap.
MCDirectory == [r \in Records |-> directory]
MCDomains == 1..5
MCDirectoryKeys == MCDomains \cup {name}
MCDirectoryRows ==
    [r \in Records |-> {name} \cup {k \in MCDomains : r \in
        <<{1, 6, 7}, {3, 4}, {2, 3}, {1, 3, 5}, {2, 3, 5}>>[k]}]
DirectorySpec ==
    /\ keysOf = MCDirectoryRows /\ premises = {directory} /\ ready = Records
    /\ SerialSpec
===========================================================================
