---------------------------- MODULE MCMigrations ----------------------------
(* A first release, the one after it, one with an edited file, one with a    *)
(* NUL byte, one with a marked file, one with two files of one version and   *)
(* a branch that numbered another file alike.                                *)
EXTENDS Migrations

File(v, t) == [version |-> v, text |-> t]

First == {File(1, "core")}
Second == First \cup {File(2, "mapping"), File(3, "observation")}
Edited == First \cup {File(2, "mapping, edited"), File(3, "observation")}
WithNul == Second \cup {File(4, "nul")}
Marked == Second \cup {File(4, "concurrently")}
Twice == Second \cup {File(4, "index"), File(4, "describes")}
Branch == First \cup {File(2, "mapping"), File(4, "index")}

MCReleases == {First, Second, Edited, WithNul, Marked, Twice, Branch}
MCFiles == UNION MCReleases
=============================================================================
