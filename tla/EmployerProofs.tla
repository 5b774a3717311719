--------------------------- MODULE EmployerProofs ---------------------------
(***************************************************************************)
(* Proofs about EmployerResolution, for all records, statements and keys,  *)
(* and every bound.  The tables are handled as one value, as resolve_record *)
(* and process hand them from the record's own entity to its employer.      *)
(***************************************************************************)
EXTENDS EmployerResolution, FiniteSetTheorems, WellFoundedInduction, TLAPS

---------------------------------------------------------------------------
(* Tombstones.                                                             *)

Row(n) == [kind : Kinds, into : 0..n, keys : SUBSET Keys, strong : SUBSET StrongKeys]
TypedRows(rows) == rows \in Seq(Row(Len(rows)))

\* home leads from an entity to the one that has taken it in, depth says how many
\* merges away that is: no more than there have been.
Tombstones(rows) == {e \in 1..Len(rows) : rows[e].into # 0}

Tree(rows, home, depth) ==
    /\ home \in [1..Len(rows) -> 1..Len(rows)]
    /\ depth \in [1..Len(rows) -> Nat]
    /\ \A e \in 1..Len(rows) :
         /\ rows[e].into = 0 => home[e] = e /\ depth[e] = 0
         /\ rows[e].into # 0 => /\ home[e] = home[rows[e].into]
                                /\ depth[e] = depth[rows[e].into] + 1
         /\ rows[home[e]].into = 0
         /\ depth[e] <= Cardinality(Tombstones(rows))

Rooted(rows) == \E home, depth : Tree(rows, home, depth)

LEMMA LeastNumber ==
  ASSUME NEW T \in SUBSET Nat, T # {}
  PROVE  \E x \in T : \A y \in T : x <= y
<1>1. PICK x \in T : \A y \in T : ~(<<y, x>> \in OpToRel(<, Nat))
  BY NatLessThanWellFounded, WFMin
<1>2. \A y \in T : ~(y < x)
  BY <1>1 DEF OpToRel
<1>3. QED
  BY <1>2

\* walk follows next from e for n steps.
Follows(walk, S, e, next, n) ==
    walk \in [0..n -> S] /\ walk[0] = e /\ \A i \in 1..n : walk[i] = next[walk[i - 1]]

\* A function can be followed for any number of steps.
LEMMA Iteration ==
  ASSUME NEW S, NEW e \in S, NEW next \in [S -> S], NEW N \in Nat
  PROVE  \E walk : Follows(walk, S, e, next, N)
<1> DEFINE Walk(n, f) == f[0] = e /\ \A i \in 1..n : f[i] = next[f[i - 1]]
           Far == {n \in Nat : ~ \E f \in [0..n -> S] : Walk(n, f)}
<1>1. SUFFICES ASSUME Far # {} PROVE FALSE
  <2>1. Far = {} => N \notin Far
    OBVIOUS
  <2>2. QED
    BY <2>1 DEF Follows
<1>2. PICK m \in Far : \A n \in Far : m <= n
  BY <1>1, LeastNumber
<1>3. CASE m = 0
  <2>1. PICK f \in [0..0 -> S] : f[0] = e
    <3>1. PICK f : f = [i \in 0..0 |-> e]
      OBVIOUS
    <3>2. f \in [0..0 -> S] /\ f[0] = e
      BY <3>1
    <3>3. QED
      BY <3>2
  <2>2. 1..0 = {}
    OBVIOUS
  <2>3. Walk(0, f)
    BY <2>1, <2>2
  <2>4. QED
    BY <1>2, <1>3, <2>3
<1>4. CASE m # 0
  <2>1. m \in Nat /\ m - 1 \in Nat /\ ~(m <= m - 1)
    BY <1>2, <1>4
  <2>2. PICK f \in [0..(m - 1) -> S] : Walk(m - 1, f)
    BY <1>2, <2>1
  <2>3. PICK last \in S : last = next[f[m - 1]]
    BY <2>1
  <2>4. PICK g \in [0..m -> S] : g = [i \in 0..m |-> IF i = m THEN last ELSE f[i]]
    <3>1. \A i \in 0..m : i # m => i \in 0..(m - 1)
      BY <2>1
    <3>2. \A i \in 0..m : (IF i = m THEN last ELSE f[i]) \in S
      BY <3>1
    <3>3. QED
      BY <3>2
  <2>5. g[0] = e
    BY <2>1, <2>2, <2>4
  <2>6. ASSUME NEW i \in 1..m PROVE g[i] = next[g[i - 1]]
    <3>1. i - 1 \in 0..(m - 1) /\ i \in 0..m /\ i - 1 \in 0..m /\ i - 1 # m
      BY <2>1
    <3>2. g[i - 1] = f[i - 1]
      BY <2>4, <3>1
    <3>3. CASE i = m
      BY <2>3, <2>4, <3>1, <3>2, <3>3
    <3>4. CASE i # m
      <4>1. i \in 1..(m - 1)
        BY <2>1, <3>4
      <4>2. f[i] = next[f[i - 1]]
        BY <2>2, <4>1
      <4>3. QED
        BY <2>4, <3>1, <3>2, <3>4, <4>2
    <3>5. QED
      BY <3>3, <3>4
  <2>7. Walk(m, g)
    BY <2>5, <2>6
  <2>8. QED
    BY <1>2, <2>1, <2>4, <2>7
<1>5. QED
  BY <1>3, <1>4

LEMMA TombstonesAreFew ==
  ASSUME NEW rows, TypedRows(rows)
  PROVE  /\ IsFiniteSet(Tombstones(rows))
         /\ Cardinality(Tombstones(rows)) \in Nat
         /\ Cardinality(Tombstones(rows)) <= Len(rows)
<1>1. Len(rows) \in Nat
  BY DEF TypedRows
<1>2. 1 \in Int /\ Len(rows) \in Int
  BY <1>1
<1>3. IsFiniteSet(1..Len(rows))
  BY <1>2, FS_Interval
<1>4. Cardinality(1..Len(rows)) = IF 1 > Len(rows) THEN 0 ELSE Len(rows) - 1 + 1
  BY <1>2, FS_Interval
<1>5. Cardinality(1..Len(rows)) = Len(rows)
  BY <1>1, <1>4
<1>6. Tombstones(rows) \subseteq 1..Len(rows)
  BY DEF Tombstones
<1>7. IsFiniteSet(Tombstones(rows))
      /\ Cardinality(Tombstones(rows)) <= Cardinality(1..Len(rows))
  BY <1>3, <1>6, FS_Subset
<1>8. Cardinality(Tombstones(rows)) \in Nat
  BY <1>7, FS_CardinalityType
<1>9. QED
  BY <1>5, <1>7, <1>8

\* resolve_entity_id finds the entity that took the given one in.
LEMMA ResolveIsHome ==
  ASSUME NEW rows, TypedRows(rows), NEW home, NEW depth, Tree(rows, home, depth),
         NEW e \in 1..Len(rows)
  PROVE  Resolve(rows, e) = home[e]
<1> DEFINE ids == 1..Len(rows)
           N == Len(rows)
           Step(f) == [n \in 0..Len(rows) |->
             IF n = 0 THEN e
             ELSE LET previous == f[n - 1]
                  IN IF Active(rows, previous) THEN previous ELSE rows[previous].into]
           at == CHOOSE f : f = Step(f)
<1>1. N \in Nat /\ \A x \in ids : rows[x].into \in 0..N
  <2>1. N \in Nat /\ \A x \in ids : rows[x] \in Row(N)
    BY DEF TypedRows
  <2>2. QED
    BY <2>1 DEF Row
<1>2. PICK next \in [ids -> ids] :
        \A x \in ids : next[x] = IF rows[x].into = 0 THEN x ELSE rows[x].into
  <2>1. PICK f : f = [x \in ids |-> IF rows[x].into = 0 THEN x ELSE rows[x].into]
    OBVIOUS
  <2>2. f \in [ids -> ids] /\ \A x \in ids : f[x] = IF rows[x].into = 0 THEN x ELSE rows[x].into
    BY <1>1, <2>1
  <2>3. QED
    BY <2>2
<1>3. PICK walk \in [0..N -> ids] : walk[0] = e /\ \A i \in 1..N : walk[i] = next[walk[i - 1]]
  <2>1. e \in ids /\ N \in Nat
    BY <1>1
  <2> HIDE DEF ids, N
  <2>2. PICK walk : Follows(walk, ids, e, next, N)
    BY <2>1, Iteration
  <2>3. QED
    BY <2>2 DEF Follows
<1>4. ASSUME NEW n \in 0..N PROVE walk[n] = Step(walk)[n]
  <2>1. CASE n = 0
    BY <1>3, <2>1
  <2>2. CASE n # 0
    <3>1. n \in 1..N /\ n - 1 \in 0..N
      BY <1>1, <2>2
    <3>2. walk[n] = next[walk[n - 1]] /\ walk[n - 1] \in ids
      BY <1>3, <3>1
    <3>3. QED
      BY <1>2, <2>2, <3>2 DEF Active, NoEntity
  <2>3. QED
    BY <2>1, <2>2
<1>5. walk = Step(walk)
  BY <1>4
<1>6. at = Step(at)
  BY <1>5
<1> HIDE DEF at
<1>7. at[0] = e
  BY <1>1, <1>6
<1>8. \A n \in 1..N : at[n] = IF rows[at[n - 1]].into = 0 THEN at[n - 1] ELSE rows[at[n - 1]].into
  <2>1. TAKE n \in 1..N
  <2>2. n \in 0..N /\ n # 0
    BY <1>1
  <2>3. at[n] = Step(at)[n]
    BY <1>6
  <2>4. QED
    BY <2>2, <2>3 DEF Active, NoEntity
<1> DEFINE Near(n) == /\ at[n] \in ids /\ home[at[n]] = home[e]
                      /\ rows[at[n]].into = 0 \/ depth[at[n]] + n = depth[e]
           Astray == {n \in 0..N : ~Near(n)}
<1> HIDE DEF ids, N
<1>9. /\ home \in [ids -> ids] /\ depth \in [ids -> Nat]
      /\ \A x \in ids :
           /\ rows[x].into = 0 => home[x] = x
           /\ rows[x].into # 0 => /\ home[x] = home[rows[x].into]
                                  /\ depth[x] = depth[rows[x].into] + 1
           /\ rows[home[x]].into = 0
           /\ depth[x] <= N
  <2>1. Cardinality(Tombstones(rows)) \in Nat /\ Cardinality(Tombstones(rows)) <= N
    BY TombstonesAreFew DEF N
  <2>2. \A x \in ids : depth[x] \in Nat /\ depth[x] <= Cardinality(Tombstones(rows))
    BY DEF Tree, ids
  <2>3. \A x \in ids : depth[x] <= N
    BY <1>1, <2>1, <2>2
  <2>4. QED
    BY <2>3 DEF Tree, ids
<1>10. e \in ids
  BY DEF ids
<1>11. Near(0)
  BY <1>7, <1>9, <1>10
<1>12. ASSUME NEW n \in 1..N, Near(n - 1) PROVE Near(n)
  <2>1. PICK x \in ids : x = at[n - 1]
    BY <1>12
  <2>2. home[x] = home[e] /\ (rows[x].into = 0 \/ depth[x] + (n - 1) = depth[e])
    BY <1>12, <2>1
  <2>3. CASE rows[x].into = 0
    BY <1>8, <2>1, <2>2, <2>3
  <2>4. CASE rows[x].into # 0
    <3>1. PICK y : y = rows[x].into
      OBVIOUS
    <3>2. y \in ids
      BY <1>1, <2>4, <3>1 DEF ids, N
    <3>3. at[n] = y /\ home[y] = home[e]
      BY <1>8, <1>9, <2>1, <2>2, <2>4, <3>1
    <3>4. depth[x] = depth[y] + 1
      BY <1>9, <2>4, <3>1
    <3>5. depth[x] \in Nat /\ depth[y] \in Nat /\ depth[e] \in Nat /\ n \in Nat
      BY <1>1, <1>9, <1>10, <3>2
    <3>6. depth[y] + n = depth[e]
      BY <2>2, <2>4, <3>4, <3>5
    <3>7. QED
      BY <3>2, <3>3, <3>6
  <2>5. QED
    BY <2>3, <2>4
<1>13. Astray = {}
  <2>1. SUFFICES ASSUME Astray # {} PROVE FALSE
    OBVIOUS
  <2>2. Astray \in SUBSET Nat
    BY <1>1
  <2> HIDE DEF Near
  <2>3. PICK m \in Astray : \A n \in Astray : m <= n
    BY <2>1, <2>2, LeastNumber
  <2>4. m # 0 /\ m \in 0..N
    BY <1>11, <2>3
  <2>5. m \in 1..N /\ m - 1 \in 0..N /\ ~(m <= m - 1)
    BY <1>1, <2>4
  <2>6. Near(m - 1)
    BY <2>3, <2>5
  <2>7. QED
    BY <1>12, <2>3, <2>5, <2>6
<1>14. Near(N)
  <2>1. N \in 0..N
    BY <1>1
  <2>2. QED
    BY <1>13, <2>1
<1>15. PICK x \in ids : x = at[N]
  BY <1>14
<1>16. rows[x].into = 0
  <2>1. SUFFICES ASSUME rows[x].into # 0 PROVE FALSE
    OBVIOUS
  <2>2. depth[x] + N = depth[e]
    BY <1>14, <1>15, <2>1
  <2>3. depth[x] \in Nat /\ depth[e] \in Nat /\ depth[e] <= N
    BY <1>9, <1>10
  <2>4. depth[x] = 0
    BY <1>1, <2>2, <2>3
  <2>5. rows[x].into \in ids
    BY <1>1, <2>1 DEF ids, N
  <2>6. depth[rows[x].into] \in Nat /\ depth[x] = depth[rows[x].into] + 1
    BY <1>9, <2>1, <2>5
  <2>7. QED
    BY <2>4, <2>6
<1>17. at[N] = home[e]
  BY <1>9, <1>14, <1>15, <1>16
<1>18. Resolve(rows, e) = at[Len(rows)]
  BY DEF Resolve, at
<1>19. QED
  BY <1>17, <1>18 DEF N

\* An entity that has taken others in is one that stands.
LEMMA ResolveIsStanding ==
  ASSUME NEW rows, TypedRows(rows), Rooted(rows), NEW e \in 1..Len(rows)
  PROVE  /\ Resolve(rows, e) \in 1..Len(rows)
         /\ rows[Resolve(rows, e)].into = 0
         /\ rows[e].into = 0 => Resolve(rows, e) = e
<1>1. PICK home, depth : Tree(rows, home, depth)
  BY DEF Rooted
<1>2. Resolve(rows, e) = home[e]
  BY <1>1, ResolveIsHome
<1>3. home \in [1..Len(rows) -> 1..Len(rows)] /\ rows[home[e]].into = 0
      /\ (rows[e].into = 0 => home[e] = e)
  BY <1>1 DEF Tree
<1>4. QED
  BY <1>2, <1>3

\* A new entity changes nobody's survivor.
LEMMA GrowthKeepsRoots ==
  ASSUME NEW rows, TypedRows(rows), Rooted(rows), NEW more, TypedRows(more),
         Len(more) \in {Len(rows), Len(rows) + 1},
         \A e \in 1..Len(rows) : more[e].into = rows[e].into,
         Len(more) = Len(rows) + 1 => more[Len(more)].into = 0
  PROVE  /\ Rooted(more)
         /\ \A e \in 1..Len(rows) : Resolve(more, e) = Resolve(rows, e)
<1>1. PICK home, depth : Tree(rows, home, depth)
  BY DEF Rooted
<1>2. Len(rows) \in Nat /\ Len(more) \in Nat
  BY DEF TypedRows
<1>3. PICK ids : ids = 1..Len(rows)
  OBVIOUS
<1>4. PICK all : all = 1..Len(more)
  OBVIOUS
<1>5. ids \subseteq all /\ \A e \in all \ ids : e = Len(more) /\ Len(more) = Len(rows) + 1
  BY <1>2, <1>3, <1>4
<1>6. \A e \in all \ ids : more[e].into = 0
  BY <1>5
<1>7. Tombstones(more) = Tombstones(rows)
  BY <1>3, <1>4, <1>5, <1>6 DEF Tombstones
<1>8. /\ home \in [ids -> ids] /\ depth \in [ids -> Nat]
      /\ \A e \in ids :
         /\ rows[e].into = 0 => home[e] = e /\ depth[e] = 0
         /\ rows[e].into # 0 => /\ home[e] = home[rows[e].into]
                                /\ depth[e] = depth[rows[e].into] + 1
         /\ rows[home[e]].into = 0
         /\ depth[e] <= Cardinality(Tombstones(rows))
  BY <1>1, <1>3 DEF Tree
<1>9. \A e \in ids : rows[e].into # 0 => rows[e].into \in ids
  <2>1. \A e \in ids : rows[e] \in Row(Len(rows))
    BY <1>3 DEF TypedRows
  <2>2. \A e \in ids : rows[e].into \in 0..Len(rows)
    BY <2>1 DEF Row
  <2>3. QED
    BY <1>2, <1>3, <2>2
<1>10. PICK home2 : home2 = [e \in all |-> IF e \in ids THEN home[e] ELSE e]
  OBVIOUS
<1>11. PICK depth2 : depth2 = [e \in all |-> IF e \in ids THEN depth[e] ELSE 0]
  OBVIOUS
<1>12. home2 \in [all -> all] /\ depth2 \in [all -> Nat]
  BY <1>5, <1>8, <1>10, <1>11
<1>13. Cardinality(Tombstones(rows)) \in Nat
  BY TombstonesAreFew
<1>14. ASSUME NEW e \in all
       PROVE  /\ more[e].into = 0 => home2[e] = e /\ depth2[e] = 0
              /\ more[e].into # 0 => /\ home2[e] = home2[more[e].into]
                                     /\ depth2[e] = depth2[more[e].into] + 1
              /\ more[home2[e]].into = 0
              /\ depth2[e] <= Cardinality(Tombstones(more))
  <2>1. CASE e \notin ids
    <3>1. home2[e] = e /\ depth2[e] = 0 /\ more[e].into = 0
      BY <1>6, <1>10, <1>11, <2>1
    <3>2. QED
      BY <1>7, <1>13, <3>1
  <2>2. CASE e \in ids
    <3>1. home2[e] = home[e] /\ depth2[e] = depth[e] /\ more[e].into = rows[e].into
          /\ home[e] \in ids
      BY <1>3, <1>8, <1>10, <1>11, <2>2
    <3>2. more[home2[e]].into = 0
      <4>1. PICK h \in ids : h = home[e]
        BY <3>1
      <4>2. rows[h].into = 0
        BY <1>8, <2>2, <4>1
      <4>3. more[h].into = rows[h].into
        BY <1>3
      <4>4. home2[e] = h
        BY <3>1, <4>1
      <4>5. QED
        BY <4>2, <4>3, <4>4
    <3>3. more[e].into # 0 => home2[more[e].into] = home[rows[e].into]
                              /\ depth2[more[e].into] = depth[rows[e].into]
      BY <1>5, <1>9, <1>10, <1>11, <2>2, <3>1
    <3>4. QED
      BY <1>7, <1>8, <2>2, <3>1, <3>2, <3>3
  <2>3. QED
    BY <2>1, <2>2
<1>15. Tree(more, home2, depth2)
  BY <1>4, <1>12, <1>14 DEF Tree
<1>16. ASSUME NEW e \in 1..Len(rows)
       PROVE  Resolve(more, e) = Resolve(rows, e)
  <2>1. Resolve(rows, e) = home[e]
    BY <1>1, ResolveIsHome
  <2>2. e \in 1..Len(more) /\ home2[e] = home[e]
    BY <1>3, <1>4, <1>5, <1>10
  <2>3. Resolve(more, e) = home2[e]
    BY <1>15, <2>2, ResolveIsHome
  <2>4. QED
    BY <2>1, <2>2, <2>3
<1>17. QED
  BY <1>15, <1>16 DEF Rooted

\* A merge moves what the absorbed entity had taken in, and nothing else.
LEMMA MergeMovesRoots ==
  ASSUME NEW rows, TypedRows(rows), Rooted(rows), NEW more, TypedRows(more),
         Len(more) = Len(rows), NEW m \in 1..Len(rows), NEW s \in 1..Len(rows), m # s,
         rows[m].into = 0, rows[s].into = 0, more[m].into = s,
         \A e \in 1..Len(rows) \ {m} : more[e].into = rows[e].into
  PROVE  /\ Rooted(more)
         /\ \A e \in 1..Len(rows) :
              Resolve(more, e) = IF Resolve(rows, e) = m THEN s ELSE Resolve(rows, e)
<1>1. PICK home, depth : Tree(rows, home, depth)
  BY DEF Rooted
<1>2. Len(rows) \in Nat
  BY DEF TypedRows
<1>3. PICK ids : ids = 1..Len(rows)
  OBVIOUS
<1>4. m \in ids /\ s \in ids /\ s # 0 /\ \A e \in ids \ {m} : more[e].into = rows[e].into
  BY <1>2, <1>3
<1>5. /\ home \in [ids -> ids] /\ depth \in [ids -> Nat]
      /\ \A e \in ids :
         /\ rows[e].into = 0 => home[e] = e /\ depth[e] = 0
         /\ rows[e].into # 0 => /\ home[e] = home[rows[e].into]
                                /\ depth[e] = depth[rows[e].into] + 1
         /\ rows[home[e]].into = 0
         /\ depth[e] <= Cardinality(Tombstones(rows))
  BY <1>1, <1>3 DEF Tree
<1>6. \A e \in ids : rows[e].into # 0 => rows[e].into \in ids
  <2>1. \A e \in ids : rows[e] \in Row(Len(rows))
    BY <1>3 DEF TypedRows
  <2>2. \A e \in ids : rows[e].into \in 0..Len(rows)
    BY <2>1 DEF Row
  <2>3. QED
    BY <1>2, <1>3, <2>2
<1>7. Cardinality(Tombstones(more)) = Cardinality(Tombstones(rows)) + 1
  <2>1. Tombstones(more) = Tombstones(rows) \cup {m}
    BY <1>3, <1>4 DEF Tombstones
  <2>2. m \notin Tombstones(rows)
    BY DEF Tombstones
  <2>3. QED
    BY <2>1, <2>2, TombstonesAreFew, FS_AddElement
<1>8. Cardinality(Tombstones(rows)) \in Nat
  BY TombstonesAreFew
<1>9. PICK home2 : home2 = [e \in ids |-> IF home[e] = m THEN s ELSE home[e]]
  OBVIOUS
<1>10. PICK depth2 : depth2 = [e \in ids |-> IF home[e] = m THEN depth[e] + 1 ELSE depth[e]]
  OBVIOUS
<1>11. home2 \in [ids -> ids] /\ depth2 \in [ids -> Nat]
  BY <1>4, <1>5, <1>9, <1>10
<1>12. ASSUME NEW e \in ids
       PROVE  /\ more[e].into = 0 => home2[e] = e /\ depth2[e] = 0
              /\ more[e].into # 0 => /\ home2[e] = home2[more[e].into]
                                     /\ depth2[e] = depth2[more[e].into] + 1
              /\ more[home2[e]].into = 0
              /\ depth2[e] <= Cardinality(Tombstones(more))
  <2>1. depth2[e] <= Cardinality(Tombstones(more))
    <3>1. depth[e] \in Nat /\ depth[e] <= Cardinality(Tombstones(rows))
      BY <1>5
    <3>2. depth2[e] = depth[e] \/ depth2[e] = depth[e] + 1
      BY <1>10
    <3>3. QED
      BY <1>7, <1>8, <3>1, <3>2
  <2>2. more[home2[e]].into = 0
    BY <1>4, <1>5, <1>9
  <2>3. CASE e = m
    <3>1. home[m] = m /\ depth[m] = 0 /\ home[s] = s /\ depth[s] = 0
      BY <1>4, <1>5
    <3>2. home2[m] = s /\ depth2[m] = 1 /\ home2[s] = s /\ depth2[s] = 0
      BY <1>4, <1>9, <1>10, <3>1
    <3>3. QED
      BY <1>4, <2>1, <2>2, <2>3, <3>2
  <2>4. CASE e # m
    <3>1. more[e].into = rows[e].into
      BY <1>4, <2>4
    <3>2. CASE rows[e].into = 0
      <4>1. home[e] = e /\ depth[e] = 0
        BY <1>5, <3>2
      <4>2. home2[e] = e /\ depth2[e] = 0
        BY <1>9, <1>10, <2>4, <4>1
      <4>3. QED
        BY <2>1, <2>2, <3>1, <3>2, <4>2
    <3>3. CASE rows[e].into # 0
      <4>1. PICK i \in ids : i = rows[e].into
        BY <1>6, <3>3
      <4>2. home[e] = home[i] /\ depth[e] = depth[i] + 1 /\ depth[i] \in Nat
        BY <1>5, <3>3, <4>1
      <4>3. home2[e] = home2[i] /\ depth2[e] = depth2[i] + 1
        BY <1>9, <1>10, <4>2
      <4>4. QED
        BY <2>1, <2>2, <3>1, <3>3, <4>1, <4>3
    <3>4. QED
      BY <3>2, <3>3
  <2>5. QED
    BY <2>3, <2>4
<1>13. Tree(more, home2, depth2)
  BY <1>3, <1>11, <1>12 DEF Tree
<1>14. ASSUME NEW e \in 1..Len(rows)
       PROVE  Resolve(more, e) = IF Resolve(rows, e) = m THEN s ELSE Resolve(rows, e)
  <2>1. Resolve(rows, e) = home[e]
    BY <1>1, ResolveIsHome
  <2>2. home2[e] = IF home[e] = m THEN s ELSE home[e]
    BY <1>3, <1>9
  <2>3. e \in 1..Len(more)
    OBVIOUS
  <2>4. Resolve(more, e) = home2[e]
    BY <1>13, <2>3, ResolveIsHome
  <2>5. QED
    BY <2>1, <2>2, <2>4
<1>15. QED
  BY <1>13, <1>14 DEF Rooted

---------------------------------------------------------------------------
(* Decisions.                                                              *)

\* Whatever moderate keys add up to stays below the threshold.
LEMMA ConfidenceNeedsStrongKey ==
  ASSUME NEW best \in Keys, NEW matched \in SUBSET Keys, NEW strong,
         Confidence(best, matched, strong) >= AutoLinkThreshold
  PROVE  best \in strong
<1> DEFINE types == {KeyType[k] : k \in matched}
           extra == Cardinality(types \ {KeyType[best]})
           raw == Weight[best] + CorroborationBoost * extra
<1>1. IsFiniteSet(matched)
  BY KeysAreFinite, FS_Subset
<1>2. IsFiniteSet(types)
  <2> DEFINE f == [k \in matched |-> KeyType[k]]
  <2>1. f \in Surjection(matched, types)
    BY DEF Surjection
  <2>2. QED
    BY <1>1, <2>1, FS_Surjection
<1>3. extra \in Nat
  BY <1>2, FS_Difference, FS_CardinalityType
<1>4. Weight[best] \in Nat
  BY WeightAssumption
<1>5. raw \in Nat
  BY <1>3, <1>4 DEF CorroborationBoost
<1>6. Confidence(best, matched, strong)
        = Lesser(MaxConfidence,
                 IF best \in strong THEN raw ELSE Lesser(raw, AutoLinkThreshold - 1))
  BY DEF Confidence
<1> HIDE DEF raw
<1>7. QED
  BY <1>5, <1>6 DEF Lesser, MaxConfidence, AutoLinkThreshold

\* A decision is about an entity of the overlap, or about none when there is none.
LEMMA OutcomesAreSound ==
  ASSUME NEW D, NEW overlap \in [D -> SUBSET Keys], NEW strong \in [D -> SUBSET Keys],
         NEW o \in Outcomes(overlap, strong)
  PROVE  /\ o.kind \in {"link", "review", "new_entity"}
         /\ o.kind # "new_entity" => o.match \in D
         /\ o.match \in D \cup {NoEntity}
<1>1. CASE D = {}
  BY <1>1 DEF Outcomes
<1>2. CASE D # {}
  <2>1. PICK top \in Tops(overlap) : o \in Decide(overlap, strong, top)
    BY <1>2 DEF Outcomes
  <2>2. o.match \in D /\ o.kind \in {"link", "review", "new_entity"}
    BY <2>1 DEF Decide
  <2>3. QED
    BY <2>2
<1>3. QED
  BY <1>1, <1>2

\* A decision is about an entity that stands and that a key leads to.
LEMMA DecisionsAreSound ==
  ASSUME NEW rows, TypedRows(rows), NEW keys \in SUBSET Keys, NEW strong,
         NEW d \in Decisions(rows, keys, strong)
  PROVE  /\ d.kind \in {"link", "review", "new_entity"}
         /\ d.match \in 0..Len(rows)
         /\ d.match = 0 => d.kind = "new_entity"
         /\ d.match # 0 => rows[d.match].into = 0 /\ keys \cap rows[d.match].keys # {}
<1> DEFINE D == {x \in Ids(rows) : Active(rows, x) /\ keys \cap rows[x].keys # {}}
           overlap == [e \in D |-> keys \cap rows[e].keys]
           decisive == [e \in D |-> overlap[e] \cap strong \cap rows[e].strong]
<1>1. Len(rows) \in Nat /\ Ids(rows) = 1..Len(rows)
  BY DEF TypedRows, Ids
<1>2. overlap \in [D -> SUBSET Keys] /\ decisive \in [D -> SUBSET Keys]
  OBVIOUS
<1>3. Overlaps(rows, keys) = overlap /\ DOMAIN overlap = D
  BY DEF Overlaps
<1>4. d \in Outcomes(overlap, decisive)
  BY <1>3 DEF Decisions
<1> HIDE DEF overlap, decisive
<1>5. /\ d.kind \in {"link", "review", "new_entity"}
      /\ d.kind # "new_entity" => d.match \in D
      /\ d.match \in D \cup {NoEntity}
  BY <1>2, <1>4, OutcomesAreSound
<1>6. \A e \in D : e \in 1..Len(rows) /\ e # 0 /\ rows[e].into = 0 /\ keys \cap rows[e].keys # {}
  BY <1>1 DEF Active, NoEntity
<1> HIDE DEF D
<1>7. d.match \in 0..Len(rows)
  BY <1>1, <1>5, <1>6 DEF NoEntity
<1>8. QED
  BY <1>5, <1>6, <1>7 DEF NoEntity

---------------------------------------------------------------------------
(* What a decision leaves of the tables.                                   *)

CandStatuses == {"open", "accepted", "rejected"}

TypedTables(t) ==
    /\ TypedRows(t.entity)
    /\ t.link \in [Records -> [Roles -> 0..Len(t.entity)]]
    /\ t.cand \subseteq [record : Records, entity : 1..Len(t.entity), status : CandStatuses]
    /\ t.employed \subseteq [from : 1..Len(t.entity), to : 1..Len(t.entity), record : Records]
    /\ t.doubted \subseteq StrongKeys

\* u is t with the keys of record r for the given role at entity e, which is new when
\* there are more entities than before.
Effect(t, u, r, role, kind, keys, e) ==
    /\ Len(u.entity) \in {Len(t.entity), Len(t.entity) + 1}
    /\ e \in 1..Len(u.entity)
    /\ \A x \in 1..Len(t.entity) :
         /\ u.entity[x].kind = t.entity[x].kind
         /\ u.entity[x].into = t.entity[x].into
         /\ u.entity[x].keys = IF x = e THEN t.entity[x].keys \cup keys ELSE t.entity[x].keys
    /\ Len(u.entity) = Len(t.entity) + 1 =>
         e = Len(u.entity) /\ u.entity[e].kind = kind /\ u.entity[e].keys = keys
    /\ u.entity[e].into = 0
    /\ u.link[r][role] = e
    /\ \A q \in Records, part \in Roles :
         q # r \/ part # role => u.link[q][part] = t.link[q][part]
    /\ u.employed = t.employed
    /\ \A c \in u.cand : c \in t.cand \/ c.record = r

\* No entity has a decisive key but those it had and, if it is e, those of the subject;
\* when the lookup was not clear, the decisive keys of the subject are noted.
Strengthens(t, u, keys, strong, e) ==
    /\ \A x \in 1..Len(u.entity) : \A k \in u.entity[x].strong :
         (x \in 1..Len(t.entity) /\ k \in t.entity[x].strong) \/ (x = e /\ k \in strong)
    /\ u.doubted = t.doubted \cup (IF Unclear(t, keys, strong) THEN strong ELSE {})

\* The subject that record r is in the given role.
Subject(r, role, kind, keys, strong) ==
    /\ kind \in Kinds /\ keys \in SUBSET Keys /\ strong \in SUBSET StrongKeys
    /\ kind = KindSaid(r, role) /\ keys = KeysSaid(r, role) /\ strong = StrongSaid(r, role)

LEMMA AppliedHasEffect ==
  ASSUME NEW t, TypedTables(t), NEW r \in Records, NEW role \in Roles,
         NEW kind, NEW keys, NEW strong, Subject(r, role, kind, keys, strong),
         NEW d \in Decisions(t.entity, keys, strong), NEW u, u = Applied(t, r, role, d)
  PROVE  /\ TypedTables(u)
         /\ \E e : /\ Effect(t, u, r, role, kind, keys, e)
                   /\ Strengthens(t, u, keys, strong, e)
         /\ d.kind = "link" => u.link[r][role] = d.match /\ Len(u.entity) = Len(t.entity)
         /\ d.kind # "link" => Len(u.entity) = Len(t.entity) + 1
<1>1. PICK rows : rows = t.entity
  OBVIOUS
<1>2. TypedRows(rows) /\ Len(rows) \in Nat
  BY <1>1 DEF TypedTables, TypedRows
<1>3. \A x \in 1..Len(rows) : rows[x] \in Row(Len(rows))
  BY <1>2 DEF TypedRows
<1>4. /\ d.kind \in {"link", "review", "new_entity"}
      /\ d.match \in 0..Len(rows)
      /\ d.match = 0 => d.kind = "new_entity"
      /\ d.match # 0 => rows[d.match].into = 0
  BY <1>1, <1>2, DecisionsAreSound DEF Subject
<1>5. PICK e : e = IF d.kind = "link" THEN d.match ELSE Len(rows) + 1
  OBVIOUS
<1>6. PICK more : more = IF d.kind = "link" THEN [rows EXCEPT ![d.match] = WithKeys(@, keys, strong)]
                         ELSE Append(rows, [kind |-> kind, into |-> NoEntity,
                                            keys |-> keys, strong |-> strong])
  OBVIOUS
<1>7. /\ u.entity = more /\ u.link = [t.link EXCEPT ![r][role] = e] /\ u.employed = t.employed
      /\ u.doubted = t.doubted \cup (IF Unclear(t, keys, strong) THEN strong ELSE {})
  BY <1>1, <1>5, <1>6 DEF Applied, Subject
<1>8. /\ TypedRows(more)
      /\ Len(more) = IF d.kind = "link" THEN Len(rows) ELSE Len(rows) + 1
      /\ e \in 1..Len(more)
      /\ \A x \in 1..Len(rows) :
           /\ more[x].kind = rows[x].kind /\ more[x].into = rows[x].into
           /\ more[x].keys = IF x = e THEN rows[x].keys \cup keys ELSE rows[x].keys
      /\ d.kind # "link" => e = Len(more) /\ more[e].kind = kind /\ more[e].keys = keys
      /\ more[e].into = 0
      /\ \A x \in 1..Len(more) : \A k \in more[x].strong :
           (x \in 1..Len(rows) /\ k \in rows[x].strong) \/ (x = e /\ k \in strong)
  <2>1. CASE d.kind = "link"
    <3>1. e = d.match /\ e \in 1..Len(rows) /\ rows[e].into = 0
      BY <1>2, <1>4, <1>5, <2>1
    <3>2. PICK row \in Row(Len(rows)) : row = rows[e]
      BY <1>3, <3>1
    <3>3. PICK new : new = WithKeys(row, keys, strong)
      OBVIOUS
    <3>4. /\ new \in Row(Len(rows)) /\ new.kind = row.kind /\ new.into = row.into
          /\ new.keys = row.keys \cup keys /\ new.strong = row.strong \cup (strong \ row.keys)
      <4>1. keys \in SUBSET Keys /\ strong \in SUBSET StrongKeys
        BY DEF Subject
      <4>2. QED
        BY <3>3, <4>1 DEF Row, WithKeys
    <3>5. more = [rows EXCEPT ![e] = new]
      BY <1>6, <2>1, <3>1, <3>2, <3>3
    <3>6. Len(more) = Len(rows) /\ more \in Seq(Row(Len(rows)))
      BY <1>2, <3>1, <3>4, <3>5 DEF TypedRows
    <3>7. more[e] = new /\ \A x \in 1..Len(rows) : x # e => more[x] = rows[x]
      BY <1>2, <3>1, <3>5 DEF TypedRows
    <3>8. ASSUME NEW x \in 1..Len(rows)
          PROVE  /\ more[x].kind = rows[x].kind /\ more[x].into = rows[x].into
                 /\ more[x].keys = IF x = e THEN rows[x].keys \cup keys ELSE rows[x].keys
      BY <3>2, <3>4, <3>7
    <3>9. more[e].into = 0
      BY <3>1, <3>8
    <3>10. TypedRows(more)
      BY <3>6 DEF TypedRows
    <3>11. \A x \in 1..Len(more) : \A k \in more[x].strong :
             (x \in 1..Len(rows) /\ k \in rows[x].strong) \/ (x = e /\ k \in strong)
      BY <3>2, <3>4, <3>6, <3>7
    <3>12. QED
      BY <2>1, <3>1, <3>6, <3>8, <3>9, <3>10, <3>11
  <2>2. CASE d.kind # "link"
    <3>1. PICK new : new = [kind |-> kind, into |-> NoEntity, keys |-> keys, strong |-> strong]
      OBVIOUS
    <3>2. /\ new \in Row(Len(rows) + 1) /\ new.kind = kind /\ new.into = 0 /\ new.keys = keys
          /\ new.strong = strong
      BY <1>2, <3>1 DEF Row, NoEntity, Subject
    <3>3. e = Len(rows) + 1 /\ more = Append(rows, new)
      BY <1>5, <1>6, <2>2, <3>1
    <3>4. Row(Len(rows)) \subseteq Row(Len(rows) + 1)
      <4>1. 0..Len(rows) \subseteq 0..(Len(rows) + 1)
        BY <1>2
      <4>2. QED
        BY <4>1 DEF Row
    <3>5. rows \in Seq(Row(Len(rows) + 1))
      BY <1>2, <3>4 DEF TypedRows
    <3>6. /\ more \in Seq(Row(Len(rows) + 1)) /\ Len(more) = Len(rows) + 1
          /\ more[e] = new /\ \A x \in 1..Len(rows) : more[x] = rows[x]
      BY <3>2, <3>3, <3>5
    <3>7. e \in 1..Len(more) /\ \A x \in 1..Len(rows) : x # e
      BY <1>2, <3>3, <3>6
    <3>8. TypedRows(more)
      BY <3>6 DEF TypedRows
    <3>9. \A x \in 1..Len(more) : \A k \in more[x].strong :
            (x \in 1..Len(rows) /\ k \in rows[x].strong) \/ (x = e /\ k \in strong)
      <4>1. \A x \in 1..Len(more) : x \in 1..Len(rows) \/ x = e
        BY <1>2, <3>3, <3>6
      <4>2. QED
        BY <3>2, <3>6, <4>1
    <3>10. QED
      BY <2>2, <3>2, <3>3, <3>6, <3>7, <3>8, <3>9
  <2>3. QED
    BY <2>1, <2>2
<1>9. PICK n \in Nat : n = Len(rows)
  BY <1>2
<1>10. PICK k \in Nat : k = Len(more) /\ 0..n \subseteq 0..k /\ 1..n \subseteq 1..k /\ e \in 0..k
  BY <1>8, <1>9
<1>11. t.link \in [Records -> [Roles -> 0..n]]
  BY <1>1, <1>9 DEF TypedTables
<1>12. /\ u.link \in [Records -> [Roles -> 0..k]]
       /\ u.link[r][role] = e
       /\ \A q \in Records, part \in Roles :
            q # r \/ part # role => u.link[q][part] = t.link[q][part]
  BY <1>7, <1>10, <1>11
<1>13. /\ \A c \in u.cand : c \in t.cand \/ c.record = r
       /\ u.cand \subseteq [record : Records, entity : 1..k, status : CandStatuses]
  <2>1. t.cand \subseteq [record : Records, entity : 1..n, status : CandStatuses]
    BY <1>1, <1>9 DEF TypedTables
  <2>2. [record : Records, entity : 1..n, status : CandStatuses]
          \subseteq [record : Records, entity : 1..k, status : CandStatuses]
    BY <1>10
  <2>3. PICK c : c = [record |-> r, entity |-> d.match, status |-> "open"]
    OBVIOUS
  <2>4. u.cand = t.cand \/ (d.kind = "review" /\ u.cand = t.cand \cup {c})
    BY <2>3 DEF Applied
  <2>5. d.kind = "review" => d.match \in 1..k
    BY <1>2, <1>4, <1>9, <1>10
  <2>6. d.kind = "review" => c \in [record : Records, entity : 1..k, status : CandStatuses]
    BY <2>3, <2>5 DEF CandStatuses
  <2>7. c.record = r
    BY <2>3
  <2>8. QED
    BY <2>1, <2>2, <2>4, <2>6, <2>7
<1>14. u.employed \subseteq [from : 1..k, to : 1..k, record : Records]
  <2>1. t.employed \subseteq [from : 1..n, to : 1..n, record : Records]
    BY <1>1, <1>9 DEF TypedTables
  <2>2. QED
    BY <1>7, <1>10, <2>1
<1>15. TypedTables(u)
  <2>1. t.doubted \subseteq StrongKeys /\ strong \subseteq StrongKeys
    BY DEF TypedTables, Subject
  <2>2. u.doubted \subseteq StrongKeys
    BY <1>7, <2>1
  <2>3. QED
    BY <1>7, <1>8, <1>10, <1>12, <1>13, <1>14, <2>2 DEF TypedTables
<1>16. Len(u.entity) \in {Len(t.entity), Len(t.entity) + 1}
  BY <1>1, <1>7, <1>8
<1>17. Len(u.entity) = Len(t.entity) + 1 => d.kind # "link"
  <2>1. Len(rows) # Len(rows) + 1
    BY <1>2
  <2>2. QED
    BY <1>1, <1>7, <1>8, <2>1
<1>18. Effect(t, u, r, role, kind, keys, e)
  BY <1>1, <1>7, <1>8, <1>12, <1>13, <1>16, <1>17 DEF Effect
<1>19. Strengthens(t, u, keys, strong, e)
  BY <1>1, <1>7, <1>8 DEF Strengthens
<1>20. d.kind = "link" => e = d.match
  BY <1>5
<1>21. QED
  BY <1>1, <1>7, <1>8, <1>12, <1>15, <1>18, <1>19, <1>20

---------------------------------------------------------------------------
(* The invariant of the tables.                                            *)

\* Links lead to entities that stand, and a candidate is of a record that is linked.
Standing(t) ==
    /\ \A r \in Records, role \in Roles :
         t.link[r][role] # 0 => t.entity[t.link[r][role]].into = 0
    /\ \A c \in t.cand : t.link[c.record]["self"] # 0

\* Employments are what their records say, and the records of R have theirs.
Cites(t, x) ==
    /\ Resolve(t.entity, x.from) = t.link[x.record]["self"]
    /\ Resolve(t.entity, x.to) = t.link[x.record]["employer"]

Relates(t, r, x) ==
    /\ Resolve(t.entity, x.from) = t.link[r]["self"]
    /\ Resolve(t.entity, x.to) = t.link[r]["employer"]

Backed(t, R) ==
    /\ \A x \in t.employed : Cites(t, x)
    /\ \A r \in R : t.link[r]["employer"] # 0 =>
         t.link[r]["self"] = t.link[r]["employer"] \/ \E x \in t.employed : Relates(t, r, x)

Sound(t, R) == TypedTables(t) /\ Rooted(t.entity) /\ Standing(t) /\ Backed(t, R)

\* Nothing is linked before its turn.
Pending(t, n) == \A r \in Records : r > n => \A role \in Roles : t.link[r][role] = 0

\* Every entity has the keys of its kind, and links and employments are of the kinds
\* that they should be.
KindsAgree(t, said) ==
    /\ \A e \in 1..Len(t.entity) : t.entity[e].keys \subseteq KeysOf(t.entity[e].kind)
    /\ \A r \in Records :
         /\ t.link[r]["self"] # 0 => t.entity[t.link[r]["self"]].kind = said[r].kind
         /\ t.link[r]["employer"] # 0 => t.entity[t.link[r]["employer"]].kind = "company"
    /\ \A x \in t.employed :
         t.entity[x.from].kind = "person" /\ t.entity[x.to].kind = "company"

LEMMA LinksAreIds ==
  ASSUME NEW t, TypedTables(t)
  PROVE  /\ Len(t.entity) \in Nat
         /\ \A r \in Records, role \in Roles : t.link[r][role] \in 0..Len(t.entity)
         /\ \A x \in t.employed : /\ x.from \in 1..Len(t.entity) /\ x.to \in 1..Len(t.entity)
                                  /\ x.record \in Records
         /\ \A c \in t.cand : c.record \in Records /\ c.entity \in 1..Len(t.entity)
<1>1. TypedRows(t.entity) /\ Len(t.entity) \in Nat
  BY DEF TypedTables, TypedRows
<1>2. t.link \in [Records -> [Roles -> 0..Len(t.entity)]]
  BY DEF TypedTables
<1>3. \A r \in Records, role \in Roles : t.link[r][role] \in 0..Len(t.entity)
  BY <1>2
<1>4. \A x \in t.employed : /\ x.from \in 1..Len(t.entity) /\ x.to \in 1..Len(t.entity)
                            /\ x.record \in Records
  BY DEF TypedTables
<1>5. \A c \in t.cand : c.record \in Records /\ c.entity \in 1..Len(t.entity)
  BY DEF TypedTables
<1>6. QED
  BY <1>1, <1>3, <1>4, <1>5

LEMMA EffectKeepsRoots ==
  ASSUME NEW t, TypedTables(t), Rooted(t.entity), NEW u, TypedTables(u),
         NEW r, NEW role, NEW kind, NEW keys, NEW e, Effect(t, u, r, role, kind, keys, e)
  PROVE  /\ Rooted(u.entity)
         /\ \A x \in 1..Len(t.entity) : Resolve(u.entity, x) = Resolve(t.entity, x)
<1>1. PICK rows : rows = t.entity
  OBVIOUS
<1>2. PICK more : more = u.entity
  OBVIOUS
<1>3. TypedRows(rows) /\ TypedRows(more) /\ Rooted(rows)
  BY <1>1, <1>2 DEF TypedTables
<1>4. /\ Len(more) \in {Len(rows), Len(rows) + 1}
      /\ \A x \in 1..Len(rows) : more[x].into = rows[x].into
      /\ Len(more) = Len(rows) + 1 => more[Len(more)].into = 0
  BY <1>1, <1>2 DEF Effect
<1>5. Rooted(more) /\ \A x \in 1..Len(rows) : Resolve(more, x) = Resolve(rows, x)
  BY <1>3, <1>4, GrowthKeepsRoots
<1>6. QED
  BY <1>1, <1>2, <1>5

\* Linking one subject of a record keeps all that the others have.
LEMMA LinkingKeepsSound ==
  ASSUME NEW t, NEW R \in SUBSET Records, Sound(t, R), NEW u, TypedTables(u),
         NEW r \in Records, NEW role \in Roles, NEW kind, NEW keys,
         NEW e, Effect(t, u, r, role, kind, keys, e),
         t.link[r]["employer"] = 0, role = "employer" \/ t.link[r]["self"] = 0,
         role = "self" \/ t.link[r]["self"] # 0
  PROVE  /\ Sound(u, R \ {r})
         /\ role = "self" => Sound(u, R)
<1> USE DEF Roles
<1>1. Rooted(u.entity) /\ \A x \in 1..Len(t.entity) : Resolve(u.entity, x) = Resolve(t.entity, x)
  BY EffectKeepsRoots DEF Sound
<1>2. /\ Len(t.entity) \in Nat
      /\ \A q \in Records, part \in Roles : t.link[q][part] \in 0..Len(t.entity)
      /\ \A x \in t.employed : /\ x.from \in 1..Len(t.entity) /\ x.to \in 1..Len(t.entity)
                               /\ x.record \in Records
      /\ \A c \in t.cand : c.record \in Records
  BY LinksAreIds DEF Sound
<1>3. /\ e # 0 /\ u.entity[e].into = 0 /\ u.link[r][role] = e /\ u.employed = t.employed
      /\ \A x \in 1..Len(t.entity) : u.entity[x].into = t.entity[x].into
      /\ \A q \in Records, part \in Roles :
           q # r \/ part # role => u.link[q][part] = t.link[q][part]
      /\ \A c \in u.cand : c \in t.cand \/ c.record = r
  <2>1. e \in 1..Len(u.entity)
    BY DEF Effect
  <2>2. e # 0
    BY <2>1
  <2>3. QED
    BY <2>2 DEF Effect
<1>4. Standing(t) /\ Backed(t, R)
  BY DEF Sound
<1>5. ASSUME NEW q \in Records, NEW part \in Roles, u.link[q][part] # 0
      PROVE  u.entity[u.link[q][part]].into = 0
  <2>1. CASE q = r /\ part = role
    BY <1>3, <2>1
  <2>2. CASE q # r \/ part # role
    <3>1. u.link[q][part] = t.link[q][part]
      BY <1>3, <2>2
    <3>2. t.link[q][part] \in 0..Len(t.entity) /\ t.link[q][part] # 0
      BY <1>2, <1>5, <3>1
    <3>3. t.link[q][part] \in 1..Len(t.entity)
      BY <1>2, <3>2
    <3>4. t.entity[t.link[q][part]].into = 0
      BY <1>4, <3>2 DEF Standing
    <3>5. QED
      BY <1>3, <3>1, <3>3, <3>4
  <2>3. QED
    BY <2>1, <2>2
<1>6. ASSUME NEW c \in u.cand
      PROVE  u.link[c.record]["self"] # 0
  <2>1. u.link[r]["self"] # 0
    BY <1>3
  <2>2. ASSUME c \in t.cand PROVE u.link[c.record]["self"] # 0
    <3>1. c.record \in Records /\ t.link[c.record]["self"] # 0
      BY <1>2, <1>4, <2>2 DEF Standing
    <3>2. CASE c.record = r
      BY <2>1, <3>2
    <3>3. CASE c.record # r
      BY <1>3, <3>1, <3>3
    <3>4. QED
      BY <3>2, <3>3
  <2>3. QED
    BY <1>3, <2>1, <2>2
<1>7. Standing(u)
  BY <1>5, <1>6 DEF Standing
<1>8. ASSUME NEW x \in t.employed
      PROVE  x.record # r /\ Cites(u, x)
  <2>1. Cites(t, x)
    BY <1>4 DEF Backed
  <2>2. Resolve(t.entity, x.to) \in 1..Len(t.entity)
    BY <1>2, ResolveIsStanding DEF Sound, TypedTables
  <2>3. t.link[x.record]["employer"] # 0
    BY <2>1, <2>2 DEF Cites
  <2>4. x.record # r
    BY <2>3
  <2>5. QED
    BY <1>1, <1>2, <1>3, <2>1, <2>4 DEF Cites
<1>9. ASSUME NEW q \in R, q # r, u.link[q]["employer"] # 0
      PROVE  u.link[q]["self"] = u.link[q]["employer"] \/ \E x \in u.employed : Relates(u, q, x)
  <2>1. u.link[q]["employer"] = t.link[q]["employer"] /\ u.link[q]["self"] = t.link[q]["self"]
    BY <1>3, <1>9
  <2>2. t.link[q]["self"] = t.link[q]["employer"] \/ \E x \in t.employed : Relates(t, q, x)
    BY <1>4, <1>9, <2>1 DEF Backed
  <2>3. \A x \in t.employed : Relates(t, q, x) => Relates(u, q, x)
    BY <1>1, <1>2, <2>1 DEF Relates
  <2>4. QED
    BY <1>3, <2>1, <2>2, <2>3
<1>10. Backed(u, R \ {r})
  BY <1>3, <1>8, <1>9 DEF Backed
<1>11. Sound(u, R \ {r})
  BY <1>1, <1>7, <1>10 DEF Sound
<1>12. ASSUME role = "self" PROVE Backed(u, R)
  <2>1. u.link[r]["employer"] = 0
    BY <1>3, <1>12
  <2>2. QED
    BY <1>3, <1>8, <1>9, <2>1 DEF Backed
<1>13. QED
  BY <1>1, <1>7, <1>11, <1>12 DEF Sound

\* The employments of u are those of t, and perhaps that of record r.
Employs(t, u, r) ==
    u.employed = t.employed \/ \E x : /\ u.employed = t.employed \cup {x}
                                      /\ x.from = t.link[r]["self"]
                                      /\ x.to = t.link[r]["employer"]

\* assert_relationship gives the record its employment.
LEMMA AssertingBacks ==
  ASSUME NEW t, NEW r \in Records, Sound(t, Records \ {r}),
         t.link[r]["self"] # 0, t.link[r]["employer"] # 0, NEW d, NEW u, u = Asserted(t, r, d)
  PROVE  /\ Sound(u, Records)
         /\ u.entity = t.entity /\ u.link = t.link /\ u.cand = t.cand /\ u.doubted = t.doubted
         /\ Employs(t, u, r)
<1> USE DEF Roles
<1>1. PICK x : x = [from |-> t.link[r]["self"], to |-> t.link[r]["employer"], record |-> r]
  OBVIOUS
<1>2. \/ /\ u = t
         /\ \/ t.link[r]["self"] = t.link[r]["employer"]
            \/ \E y \in t.employed : y.from = x.from /\ y.to = x.to
      \/ u = [t EXCEPT !.employed = t.employed \cup {x}]
  BY <1>1 DEF Asserted
<1>3. PICK from, to : from = t.link[r]["self"] /\ to = t.link[r]["employer"]
  OBVIOUS
<1>4. /\ x.from = from /\ x.to = to /\ x.record = r
      /\ x = [from |-> from, to |-> to, record |-> r]
  BY <1>1, <1>3
<1>5. /\ Len(t.entity) \in Nat
      /\ \A q \in Records, part \in Roles : t.link[q][part] \in 0..Len(t.entity)
  BY LinksAreIds DEF Sound
<1>6. from \in 1..Len(t.entity) /\ to \in 1..Len(t.entity)
  BY <1>3, <1>5
<1>7. t.entity[from].into = 0 /\ t.entity[to].into = 0
  BY <1>3 DEF Sound, Standing
<1>8. Resolve(t.entity, from) = from /\ Resolve(t.entity, to) = to
  BY <1>6, <1>7, ResolveIsStanding DEF Sound, TypedTables
<1>9. CASE u = t /\ (from = to \/ \E y \in t.employed : y.from = from /\ y.to = to)
  <2>1. from = to \/ \E y \in t.employed : Relates(t, r, y)
    BY <1>3, <1>8, <1>9 DEF Relates
  <2>2. Backed(t, Records)
    BY <1>3, <2>1 DEF Sound, Backed
  <2>3. QED
    BY <1>9, <2>2 DEF Sound, Employs
<1>10. CASE u = [t EXCEPT !.employed = t.employed \cup {x}]
  <2>1. u.entity = t.entity /\ u.link = t.link /\ u.cand = t.cand /\ u.doubted = t.doubted
    BY <1>10
  <2>2. u.employed = t.employed \cup {x}
    BY <1>10
  <2>3. x \in [from : 1..Len(t.entity), to : 1..Len(t.entity), record : Records]
    BY <1>4, <1>6
  <2>4. TypedTables(u)
    BY <2>1, <2>2, <2>3 DEF Sound, TypedTables
  <2>5. Standing(u)
    BY <2>1 DEF Sound, Standing
  <2>6. \A y \in t.employed : Cites(u, y)
    BY <2>1 DEF Sound, Backed, Cites
  <2>7. Cites(u, x) /\ Relates(u, r, x)
    BY <1>3, <1>4, <1>8, <2>1 DEF Cites, Relates
  <2>8. \A q \in Records \ {r} : u.link[q]["employer"] # 0 =>
          u.link[q]["self"] = u.link[q]["employer"] \/ \E y \in u.employed : Relates(u, q, y)
    BY <2>1, <2>2 DEF Sound, Backed, Relates
  <2>9. Backed(u, Records)
    BY <2>2, <2>6, <2>7, <2>8 DEF Backed
  <2>10. Sound(u, Records)
    BY <2>1, <2>4, <2>5, <2>9 DEF Sound
  <2>11. QED
    BY <1>3, <1>4, <2>1, <2>2, <2>10 DEF Employs
<1>11. QED
  BY <1>2, <1>3, <1>4, <1>9, <1>10

---------------------------------------------------------------------------
(* The kinds of what is linked.                                            *)

LEMMA StatementsHaveKinds ==
  ASSUME NEW said \in Statements
  PROVE  /\ said.kind \in Kinds /\ said.keys \in SUBSET Keys
         /\ said.employer.keys \in SUBSET Keys
         /\ said.keys \subseteq KeysOf(said.kind)
         /\ said.employer.keys \subseteq KeysOf("company")
         /\ said.employer.named => said.kind = "person"
<1>1. said \in Statement
  BY StatementAssumption
<1>2. /\ said.kind \in Kinds /\ said.keys \in SUBSET Keys
      /\ said.employer.keys \in SUBSET Keys
  BY <1>1 DEF Statement, Employer
<1>3. said.keys \subseteq KeysOf(said.kind) /\ said.employer.keys \subseteq KeysOf("company")
  BY DEF KeysOf
<1>4. said.kind = "company" => ~said.employer.named
  BY StatementAssumption
<1>5. QED
  BY <1>2, <1>3, <1>4 DEF Kinds

\* What a key leads to is of the kind that the key is of.
LEMMA LinkingKeepsKinds ==
  ASSUME NEW t, TypedTables(t), NEW u, TypedTables(u), NEW r \in Records, NEW role \in Roles,
         NEW kind \in Kinds, NEW keys, NEW e, Effect(t, u, r, role, kind, keys, e),
         NEW said, KindsAgree(t, said), keys \subseteq KeysOf(kind),
         kind = IF role = "self" THEN said[r].kind ELSE "company",
         Len(u.entity) = Len(t.entity) => keys \cap t.entity[e].keys # {}
  PROVE  KindsAgree(u, said)
<1> USE DEF Roles
<1>1. /\ Len(t.entity) \in Nat
      /\ \A q \in Records, part \in Roles : t.link[q][part] \in 0..Len(t.entity)
      /\ \A x \in t.employed : x.from \in 1..Len(t.entity) /\ x.to \in 1..Len(t.entity)
  BY LinksAreIds
<1>2. /\ Len(u.entity) \in {Len(t.entity), Len(t.entity) + 1}
      /\ \A x \in 1..Len(t.entity) :
           /\ u.entity[x].kind = t.entity[x].kind
           /\ u.entity[x].keys = IF x = e THEN t.entity[x].keys \cup keys ELSE t.entity[x].keys
      /\ Len(u.entity) = Len(t.entity) + 1 =>
           e = Len(u.entity) /\ u.entity[e].kind = kind /\ u.entity[e].keys = keys
      /\ e \in 1..Len(u.entity)
  BY DEF Effect
<1>3. /\ u.link[r][role] = e
      /\ \A q \in Records, part \in Roles :
           q # r \/ part # role => u.link[q][part] = t.link[q][part]
      /\ u.employed = t.employed
  BY DEF Effect
<1>4. u.entity[e].kind = kind
  <2>1. CASE Len(u.entity) = Len(t.entity)
    <3>1. e \in 1..Len(t.entity) /\ u.entity[e].kind = t.entity[e].kind
      BY <1>2, <2>1
    <3>2. PICK k : k \in keys /\ k \in t.entity[e].keys
      BY <2>1
    <3>3. k \in KeysOf(kind) /\ k \in KeysOf(t.entity[e].kind)
      BY <3>1, <3>2 DEF KindsAgree
    <3>4. t.entity[e].kind \in Kinds
      <4>1. t.entity[e] \in Row(Len(t.entity))
        BY <3>1 DEF TypedTables, TypedRows
      <4>2. QED
        BY <4>1 DEF Row
    <3>5. QED
      BY <3>1, <3>3, <3>4, KeyAssumption DEF Kinds
  <2>2. CASE Len(u.entity) = Len(t.entity) + 1
    BY <1>2, <2>2
  <2>3. QED
    BY <1>2, <2>1, <2>2
<1>5. ASSUME NEW x \in 1..Len(u.entity)
      PROVE  u.entity[x].keys \subseteq KeysOf(u.entity[x].kind)
  <2>1. CASE x \in 1..Len(t.entity)
    <3>1. t.entity[x].keys \subseteq KeysOf(t.entity[x].kind)
      BY <2>1 DEF KindsAgree
    <3>2. QED
      BY <1>2, <1>4, <2>1, <3>1
  <2>2. CASE x \notin 1..Len(t.entity)
    <3>1. Len(u.entity) = Len(t.entity) + 1 /\ x = Len(u.entity)
      BY <1>1, <1>2, <2>2
    <3>2. QED
      BY <1>2, <3>1
  <2>3. QED
    BY <2>1, <2>2
<1>6. ASSUME NEW q \in Records, NEW part \in Roles, q # r \/ part # role, u.link[q][part] # 0
      PROVE  /\ u.link[q][part] = t.link[q][part]
             /\ u.entity[u.link[q][part]].kind = t.entity[t.link[q][part]].kind
  <2>1. u.link[q][part] = t.link[q][part] /\ t.link[q][part] \in 0..Len(t.entity)
    BY <1>1, <1>3, <1>6
  <2>2. t.link[q][part] \in 1..Len(t.entity)
    BY <1>1, <1>6, <2>1
  <2>3. QED
    BY <1>2, <2>1, <2>2
<1>7. ASSUME NEW q \in Records
      PROVE  /\ u.link[q]["self"] # 0 => u.entity[u.link[q]["self"]].kind = said[q].kind
             /\ u.link[q]["employer"] # 0 => u.entity[u.link[q]["employer"]].kind = "company"
  <2>1. /\ t.link[q]["self"] # 0 => t.entity[t.link[q]["self"]].kind = said[q].kind
        /\ t.link[q]["employer"] # 0 => t.entity[t.link[q]["employer"]].kind = "company"
    BY DEF KindsAgree
  <2>2. u.link[q]["self"] # 0 => u.entity[u.link[q]["self"]].kind = said[q].kind
    <3>1. CASE q = r /\ role = "self"
      BY <1>3, <1>4, <3>1
    <3>2. CASE q # r \/ role # "self"
      BY <1>6, <2>1, <3>2
    <3>3. QED
      BY <3>1, <3>2
  <2>3. u.link[q]["employer"] # 0 => u.entity[u.link[q]["employer"]].kind = "company"
    <3>1. CASE q = r /\ role = "employer"
      BY <1>3, <1>4, <3>1
    <3>2. CASE q # r \/ role # "employer"
      BY <1>6, <2>1, <3>2
    <3>3. QED
      BY <3>1, <3>2
  <2>4. QED
    BY <2>2, <2>3
<1>8. \A x \in u.employed :
        u.entity[x.from].kind = "person" /\ u.entity[x.to].kind = "company"
  BY <1>1, <1>2, <1>3 DEF KindsAgree
<1>9. QED
  BY <1>5, <1>7, <1>8 DEF KindsAgree

---------------------------------------------------------------------------
(* Merges.                                                                 *)

\* u is t with m taken in by s.
Merging(t, u, m, s) ==
    /\ Len(u.entity) = Len(t.entity)
    /\ u.entity[m].into = s
    /\ \A e \in 1..Len(t.entity) :
         /\ e # m => u.entity[e].into = t.entity[e].into
         /\ u.entity[e].kind = t.entity[e].kind
         /\ u.entity[e].keys = IF e = s THEN t.entity[s].keys \cup t.entity[m].keys
                               ELSE t.entity[e].keys
    /\ \A r \in Records, role \in Roles :
         u.link[r][role] = IF t.link[r][role] = m THEN s ELSE t.link[r][role]
    /\ u.employed = t.employed
    /\ \A c \in u.cand : \E b \in t.cand : b.record = c.record

\* No entity has a decisive key but those it had and, if it is s, those of m.
MergingStrong(t, u, m, s) ==
    /\ \A x \in 1..Len(t.entity) : \A k \in u.entity[x].strong :
         k \in t.entity[x].strong \/ (x = s /\ k \in t.entity[m].strong)
    /\ u.doubted = t.doubted

LEMMA MergingKeepsSound ==
  ASSUME NEW t, Sound(t, Records), NEW u, TypedTables(u),
         NEW m \in 1..Len(t.entity), NEW s \in 1..Len(t.entity), m # s,
         t.entity[m].into = 0, t.entity[s].into = 0, Merging(t, u, m, s)
  PROVE  Sound(u, Records)
<1> USE DEF Roles
<1>1. PICK rows : rows = t.entity
  OBVIOUS
<1>2. PICK more : more = u.entity
  OBVIOUS
<1>3. TypedRows(rows) /\ TypedRows(more) /\ Rooted(rows)
  BY <1>1, <1>2 DEF TypedTables, Sound
<1>4. /\ Len(more) = Len(rows) /\ m \in 1..Len(rows) /\ s \in 1..Len(rows)
      /\ rows[m].into = 0 /\ rows[s].into = 0 /\ more[m].into = s
      /\ \A e \in 1..Len(rows) \ {m} : more[e].into = rows[e].into
  BY <1>1, <1>2 DEF Merging
<1>5. /\ Rooted(more)
      /\ \A e \in 1..Len(rows) :
           Resolve(more, e) = IF Resolve(rows, e) = m THEN s ELSE Resolve(rows, e)
  BY <1>3, <1>4, MergeMovesRoots
<1>6. /\ Len(t.entity) \in Nat
      /\ \A q \in Records, part \in Roles : t.link[q][part] \in 0..Len(t.entity)
      /\ \A x \in t.employed : /\ x.from \in 1..Len(t.entity) /\ x.to \in 1..Len(t.entity)
                               /\ x.record \in Records
      /\ \A c \in t.cand : c.record \in Records
  BY LinksAreIds DEF Sound
<1>7. m # 0 /\ s # 0
  BY <1>6
<1>8. /\ \A q \in Records, part \in Roles :
           u.link[q][part] = IF t.link[q][part] = m THEN s ELSE t.link[q][part]
      /\ u.employed = t.employed
      /\ \A c \in u.cand : \E b \in t.cand : b.record = c.record
  BY DEF Merging
<1>9. Standing(t) /\ Backed(t, Records)
  BY DEF Sound
<1>10. ASSUME NEW q \in Records, NEW part \in Roles, u.link[q][part] # 0
       PROVE  more[u.link[q][part]].into = 0
  <2>1. CASE t.link[q][part] = m
    BY <1>4, <1>8, <2>1
  <2>2. CASE t.link[q][part] # m
    <3>1. u.link[q][part] = t.link[q][part] /\ t.link[q][part] \in 0..Len(t.entity)
      BY <1>6, <1>8, <2>2
    <3>2. t.link[q][part] \in 1..Len(t.entity)
      BY <1>6, <1>10, <3>1
    <3>3. t.entity[t.link[q][part]].into = 0
      BY <1>9, <1>10, <3>1 DEF Standing
    <3>4. QED
      BY <1>1, <1>4, <2>2, <3>1, <3>2, <3>3
  <2>3. QED
    BY <2>1, <2>2
<1>11. \A c \in u.cand : u.link[c.record]["self"] # 0
  BY <1>6, <1>7, <1>8, <1>9 DEF Standing
<1>12. Standing(u)
  BY <1>2, <1>10, <1>11 DEF Standing
<1>13. \A x \in u.employed : Cites(u, x)
  <2>1. TAKE x \in u.employed
  <2>2. x.from \in 1..Len(rows) /\ x.to \in 1..Len(rows) /\ x.record \in Records
    BY <1>1, <1>6, <1>8
  <2>3. /\ Resolve(rows, x.from) = t.link[x.record]["self"]
        /\ Resolve(rows, x.to) = t.link[x.record]["employer"]
    BY <1>1, <1>8, <1>9 DEF Backed, Cites
  <2>4. /\ Resolve(more, x.from) = u.link[x.record]["self"]
        /\ Resolve(more, x.to) = u.link[x.record]["employer"]
    BY <1>5, <1>8, <2>2, <2>3
  <2>5. QED
    BY <1>2, <2>4 DEF Cites
<1>14. ASSUME NEW q \in Records, u.link[q]["employer"] # 0
       PROVE  u.link[q]["self"] = u.link[q]["employer"] \/ \E x \in u.employed : Relates(u, q, x)
  <2>1. t.link[q]["employer"] # 0
    BY <1>7, <1>8, <1>14
  <2>2. CASE t.link[q]["self"] = t.link[q]["employer"]
    BY <1>8, <2>2
  <2>3. CASE \E x \in t.employed : Relates(t, q, x)
    <3>1. PICK x \in t.employed : Relates(t, q, x)
      BY <2>3
    <3>2. /\ x.from \in 1..Len(rows) /\ x.to \in 1..Len(rows)
          /\ Resolve(rows, x.from) = t.link[q]["self"]
          /\ Resolve(rows, x.to) = t.link[q]["employer"]
      BY <1>1, <1>6, <3>1 DEF Relates
    <3>3. /\ Resolve(more, x.from) = u.link[q]["self"]
          /\ Resolve(more, x.to) = u.link[q]["employer"]
      BY <1>5, <1>8, <3>2
    <3>4. QED
      BY <1>2, <1>8, <3>1, <3>3 DEF Relates
  <2>4. QED
    BY <1>9, <2>1, <2>2, <2>3 DEF Backed
<1>15. Backed(u, Records)
  BY <1>13, <1>14 DEF Backed
<1>16. QED
  BY <1>2, <1>5, <1>12, <1>15 DEF Sound

LEMMA MergingKeepsKinds ==
  ASSUME NEW t, TypedTables(t), NEW u, TypedTables(u), NEW said, KindsAgree(t, said),
         NEW m \in 1..Len(t.entity), NEW s \in 1..Len(t.entity), Merging(t, u, m, s),
         t.entity[m].kind = t.entity[s].kind
  PROVE  KindsAgree(u, said)
<1> USE DEF Roles
<1>1. /\ Len(t.entity) \in Nat
      /\ \A q \in Records, part \in Roles : t.link[q][part] \in 0..Len(t.entity)
      /\ \A x \in t.employed : x.from \in 1..Len(t.entity) /\ x.to \in 1..Len(t.entity)
  BY LinksAreIds
<1>2. /\ \A e \in 1..Len(t.entity) :
           /\ u.entity[e].kind = t.entity[e].kind
           /\ u.entity[e].keys = IF e = s THEN t.entity[s].keys \cup t.entity[m].keys
                                 ELSE t.entity[e].keys
      /\ Len(u.entity) = Len(t.entity)
      /\ \A r \in Records, role \in Roles :
           u.link[r][role] = IF t.link[r][role] = m THEN s ELSE t.link[r][role]
      /\ u.employed = t.employed
  BY DEF Merging
<1>3. \A e \in 1..Len(u.entity) : u.entity[e].keys \subseteq KeysOf(u.entity[e].kind)
  BY <1>2 DEF KindsAgree
<1>4. ASSUME NEW q \in Records, NEW part \in Roles, u.link[q][part] # 0
      PROVE  /\ t.link[q][part] # 0
             /\ u.entity[u.link[q][part]].kind = t.entity[t.link[q][part]].kind
  <2>1. CASE t.link[q][part] = m
    BY <1>1, <1>2, <2>1
  <2>2. CASE t.link[q][part] # m
    <3>1. u.link[q][part] = t.link[q][part] /\ t.link[q][part] \in 0..Len(t.entity)
      BY <1>1, <1>2, <2>2
    <3>2. t.link[q][part] \in 1..Len(t.entity)
      BY <1>1, <1>4, <3>1
    <3>3. QED
      BY <1>2, <1>4, <3>1, <3>2
  <2>3. QED
    BY <2>1, <2>2
<1>5. \A q \in Records :
        /\ u.link[q]["self"] # 0 => u.entity[u.link[q]["self"]].kind = said[q].kind
        /\ u.link[q]["employer"] # 0 => u.entity[u.link[q]["employer"]].kind = "company"
  BY <1>4 DEF KindsAgree
<1>6. \A x \in u.employed :
        u.entity[x.from].kind = "person" /\ u.entity[x.to].kind = "company"
  <2>1. TAKE x \in u.employed
  <2>2. x \in t.employed /\ x.from \in 1..Len(t.entity) /\ x.to \in 1..Len(t.entity)
    BY <1>1, <1>2
  <2>3. t.entity[x.from].kind = "person" /\ t.entity[x.to].kind = "company"
    BY <2>2 DEF KindsAgree
  <2>4. QED
    BY <1>2, <2>2, <2>3
<1>7. QED
  BY <1>3, <1>5, <1>6 DEF KindsAgree

---------------------------------------------------------------------------
(* Steps.                                                                  *)

Inv ==
    /\ says \in [Records -> Statements]
    /\ done \in 0..NumRecords
    /\ decisions \in 0..MaxDecisions
    /\ crossed \in BOOLEAN
    /\ Sound(Tables, Records)
    /\ Pending(Tables, done)
    /\ crossed \/ KindsAgree(Tables, says)

\* What resolve_record makes of the tables: u is t with the record's own entity, and v
\* is u with its employer or just u.
Resolved(t, u, v, r) ==
    \E d \in Decisions(t.entity, KeysSaid(r, "self"), StrongSaid(r, "self")) :
      /\ u = Applied(t, r, "self", d)
      /\ \/ v = u
         \/ /\ Identified(says[r].employer)
            /\ \E c \in Decisions(u.entity, KeysSaid(r, "employer"), StrongSaid(r, "employer")) :
                 v = Asserted(Applied(u, r, "employer", c), r, c)

LEMMA RecordsAreResolved ==
  ASSUME NEW r \in Records, ResolveRecord(r)
  PROVE  /\ r = done + 1 /\ r <= NumRecords /\ done' = r
         /\ UNCHANGED <<says, decisions, crossed>>
         /\ \E u, v : /\ Resolved(Tables, u, v, r)
                      /\ entity' = v.entity /\ link' = v.link
                      /\ cand' = v.cand /\ employed' = v.employed /\ doubted' = v.doubted
<1>1. PICK d \in Decisions(entity, says[r].keys, StrongSaid(r, "self")) :
        \E v \in EmployerResolved(Applied(Tables, r, "self", d), r) :
          /\ entity' = v.entity /\ link' = v.link
          /\ cand' = v.cand /\ employed' = v.employed /\ doubted' = v.doubted
  BY DEF ResolveRecord
<1>2. PICK u : u = Applied(Tables, r, "self", d)
  OBVIOUS
<1>3. PICK v \in EmployerResolved(u, r) :
        /\ entity' = v.entity /\ link' = v.link
        /\ cand' = v.cand /\ employed' = v.employed /\ doubted' = v.doubted
  BY <1>1, <1>2
<1>4. KeysSaid(r, "self") = says[r].keys /\ KeysSaid(r, "employer") = says[r].employer.keys
  BY DEF KeysSaid
<1>5. \/ v = u
      \/ /\ Identified(says[r].employer)
         /\ \E c \in Decisions(u.entity, says[r].employer.keys, StrongSaid(r, "employer")) :
              v = Asserted(Applied(u, r, "employer", c), r, c)
  BY DEF EmployerResolved
<1>6. Tables.entity = entity
  BY DEF Tables
<1>7. Resolved(Tables, u, v, r)
  BY <1>1, <1>2, <1>4, <1>5, <1>6 DEF Resolved
<1>8. QED
  BY <1>3, <1>7 DEF ResolveRecord

\* Only the given subject of record r is linked otherwise.
LinksBut(t, u, r, role) ==
    \A q \in Records, part \in Roles : q # r \/ part # role => u.link[q][part] = t.link[q][part]

\* One subject of record r is linked: it is its turn, its kind and keys are the given
\* ones, and u is what a decision makes of t.
Linking(t, u, r, role, kind, keys, strong, d) ==
    /\ r \in Records /\ role \in Roles
    /\ Subject(r, role, kind, keys, strong) /\ keys \subseteq KeysOf(kind)
    /\ t.link[r]["employer"] = 0
    /\ \/ role = "self" /\ t.link[r]["self"] = 0
       \/ role = "employer" /\ t.link[r]["self"] # 0
    /\ d \in Decisions(t.entity, keys, strong)
    /\ u = Applied(t, r, role, d)

HasLink(t, r, role) == t.link[r][role] # 0

\* One subject: what linking it does to the invariants.
LEMMA SubjectKeepsTables ==
  ASSUME NEW t, Sound(t, Records), NEW r, NEW role, NEW kind, NEW keys, NEW strong,
         NEW d, NEW u, Linking(t, u, r, role, kind, keys, strong, d),
         NEW said, said = says
  PROVE  /\ Sound(u, Records \ {r}) /\ (role = "self" => Sound(u, Records))
         /\ KindsAgree(t, said) => KindsAgree(u, said)
         /\ HasLink(u, r, role)
         /\ LinksBut(t, u, r, role)
         /\ u.employed = t.employed
<1>1. TypedTables(t)
  BY DEF Sound
<1> USE DEF Linking
<1>2. /\ TypedTables(u) /\ \E e : Effect(t, u, r, role, kind, keys, e)
      /\ d.kind = "link" => u.link[r][role] = d.match /\ Len(u.entity) = Len(t.entity)
      /\ d.kind # "link" => Len(u.entity) = Len(t.entity) + 1
  BY <1>1, AppliedHasEffect
<1>3. PICK e : Effect(t, u, r, role, kind, keys, e)
  BY <1>2
<1>4. Sound(u, Records \ {r}) /\ (role = "self" => Sound(u, Records))
  <2>1. Records \in SUBSET Records
    OBVIOUS
  <2>2. /\ t.link[r]["employer"] = 0
        /\ role = "employer" \/ t.link[r]["self"] = 0
        /\ role = "self" \/ t.link[r]["self"] # 0
    OBVIOUS
  <2>3. QED
    BY <1>2, <1>3, <2>1, <2>2, LinkingKeepsSound
<1>5. /\ e \in 1..Len(u.entity) /\ u.link[r][role] = e /\ u.employed = t.employed
      /\ \A q \in Records, part \in Roles :
           q # r \/ part # role => u.link[q][part] = t.link[q][part]
  BY <1>3 DEF Effect
<1>6. e # 0
  BY <1>5
<1>7. Len(u.entity) = Len(t.entity) => keys \cap t.entity[e].keys # {}
  <2>1. Len(t.entity) \in Nat
    BY <1>1, LinksAreIds
  <2>2. Len(t.entity) # Len(t.entity) + 1
    BY <2>1
  <2>3. TypedRows(t.entity)
    BY <1>1 DEF TypedTables
  <2>4. keys \in SUBSET Keys
    BY DEF Subject
  <2>5. /\ d.match = 0 => d.kind = "new_entity"
        /\ d.match # 0 => keys \cap t.entity[d.match].keys # {}
    BY <2>3, <2>4, DecisionsAreSound
  <2>6. QED
    BY <1>2, <1>5, <1>6, <2>2, <2>5
<1>8. KindsAgree(t, said) => KindsAgree(u, said)
  <2>1. kind \in Kinds /\ kind = IF role = "self" THEN said[r].kind ELSE "company"
    BY DEF Subject, KindSaid
  <2>2. QED
    BY <1>1, <1>2, <1>3, <1>7, <2>1, LinkingKeepsKinds
<1>9. QED
  BY <1>4, <1>5, <1>6, <1>8 DEF LinksBut, HasLink

Unlinked(t, r) == \A role \in Roles : t.link[r][role] = 0

OthersKeepLinks(t, v, r) ==
    \A q \in Records \ {r}, role \in Roles : v.link[q][role] = t.link[q][role]

\* The subjects of a record that says what records may say.
LEMMA SubjectsOfRecord ==
  ASSUME NEW r \in Records, says[r] \in Statements
  PROVE  \A role \in Roles : \E kind, keys, strong :
            Subject(r, role, kind, keys, strong) /\ keys \subseteq KeysOf(kind)
<1>1. /\ says[r].kind \in Kinds /\ says[r].keys \in SUBSET Keys
      /\ says[r].employer.keys \in SUBSET Keys
      /\ says[r].keys \subseteq KeysOf(says[r].kind)
      /\ says[r].employer.keys \subseteq KeysOf("company")
  BY StatementsHaveKinds
<1>2. TAKE role \in Roles
<1>3. PICK kind, keys, strong :
        kind = KindSaid(r, role) /\ keys = KeysSaid(r, role) /\ strong = StrongSaid(r, role)
  OBVIOUS
<1>4. kind \in Kinds /\ keys \in SUBSET Keys /\ keys \subseteq KeysOf(kind)
  BY <1>1, <1>3 DEF KindSaid, KeysSaid, Kinds
<1>5. strong \in SUBSET StrongKeys
  BY <1>3 DEF StrongSaid
<1>6. QED
  BY <1>3, <1>4, <1>5 DEF Subject

LEMMA ResolvingKeepsTables ==
  ASSUME NEW t, Sound(t, Records), NEW r \in Records, says[r] \in Statements,
         NEW said, said = says, Unlinked(t, r), NEW u, NEW v, Resolved(t, u, v, r)
  PROVE  /\ Sound(v, Records)
         /\ KindsAgree(t, said) => KindsAgree(v, said)
         /\ OthersKeepLinks(t, v, r)
<1> USE DEF Roles, Unlinked, OthersKeepLinks
<1>1. PICK kind, keys, strong :
        Subject(r, "self", kind, keys, strong) /\ keys \subseteq KeysOf(kind)
  BY SubjectsOfRecord
<1>2. PICK company, theirs, decisive :
        Subject(r, "employer", company, theirs, decisive) /\ theirs \subseteq KeysOf(company)
  BY SubjectsOfRecord
<1>3. PICK d \in Decisions(t.entity, keys, strong) :
        /\ u = Applied(t, r, "self", d)
        /\ \/ v = u
           \/ /\ Identified(said[r].employer)
              /\ \E c \in Decisions(u.entity, theirs, decisive) :
                   v = Asserted(Applied(u, r, "employer", c), r, c)
  BY <1>1, <1>2 DEF Resolved, Subject
<1>4. /\ Sound(u, Records)
      /\ KindsAgree(t, said) => KindsAgree(u, said)
      /\ HasLink(u, r, "self")
      /\ LinksBut(t, u, r, "self")
  <2>1. Linking(t, u, r, "self", kind, keys, strong, d)
    BY <1>1, <1>3 DEF Linking
  <2>2. QED
    BY <2>1, SubjectKeepsTables
<1>5. CASE v = u
  BY <1>4, <1>5 DEF LinksBut
<1>6. ASSUME NEW c \in Decisions(u.entity, theirs, decisive), Identified(said[r].employer),
             v = Asserted(Applied(u, r, "employer", c), r, c)
      PROVE  /\ Sound(v, Records)
             /\ KindsAgree(t, said) => KindsAgree(v, said)
             /\ OthersKeepLinks(t, v, r)
  <2>1. PICK w : w = Applied(u, r, "employer", c)
    OBVIOUS
  <2>2. u.link[r]["employer"] = 0
    BY <1>4 DEF LinksBut
  <2>3. /\ Sound(w, Records \ {r})
        /\ KindsAgree(u, said) => KindsAgree(w, said)
        /\ HasLink(w, r, "employer")
        /\ LinksBut(u, w, r, "employer")
    <3>1. Linking(u, w, r, "employer", company, theirs, decisive, c)
      BY <1>2, <1>4, <2>1, <2>2 DEF Linking, HasLink
    <3>2. QED
      BY <1>4, <3>1, SubjectKeepsTables
  <2>4. w.link[r]["self"] # 0 /\ w.link[r]["employer"] # 0
    BY <1>4, <2>3 DEF LinksBut, HasLink
  <2>5. v = Asserted(w, r, c)
    BY <1>6, <2>1
  <2>6. /\ Sound(v, Records) /\ v.entity = w.entity /\ v.link = w.link
        /\ Employs(w, v, r)
    BY <2>3, <2>4, <2>5, AssertingBacks
  <2>7. ASSUME KindsAgree(w, said) PROVE KindsAgree(v, said)
    <3>1. said[r].kind = "person"
      BY <1>6, StatementsHaveKinds DEF Identified
    <3>2. /\ w.entity[w.link[r]["self"]].kind = "person"
          /\ w.entity[w.link[r]["employer"]].kind = "company"
      BY <2>3, <2>4, <2>7, <3>1 DEF KindsAgree
    <3>3. \A x \in v.employed : v.entity[x.from].kind = "person" /\ v.entity[x.to].kind = "company"
      BY <2>6, <2>7, <3>2 DEF KindsAgree, Employs
    <3>4. QED
      BY <2>6, <2>7, <3>3 DEF KindsAgree
  <2>8. OthersKeepLinks(t, v, r)
    BY <1>4, <2>3, <2>6 DEF LinksBut
  <2>9. QED
    BY <1>4, <2>3, <2>6, <2>7, <2>8
<1>7. QED
  BY <1>3, <1>5, <1>6

LEMMA TablesAre ==
  /\ Tables.entity = entity /\ Tables.link = link
  /\ Tables.cand = cand /\ Tables.employed = employed /\ Tables.doubted = doubted
BY DEF Tables

LEMMA InitKeepsInv == Init => Inv
<1> SUFFICES ASSUME Init PROVE Inv
  OBVIOUS
<1>1. PICK t : t = Tables
  OBVIOUS
<1>2. /\ t.entity = <<>> /\ t.cand = {} /\ t.employed = {} /\ t.doubted = {}
      /\ t.link = [r \in Records |-> [role \in Roles |-> NoEntity]]
  BY <1>1, TablesAre DEF Init
<1>3. PICK rows : rows = t.entity
  OBVIOUS
<1>4. rows = <<>> /\ Len(rows) = 0 /\ rows \in Seq(Row(Len(rows)))
  BY <1>2, <1>3
<1>5. TypedRows(rows) /\ 1..Len(rows) = {}
  BY <1>4 DEF TypedRows
<1>6. PICK none : none = [e \in {} |-> e]
  OBVIOUS
<1>7. Tree(rows, none, none)
  BY <1>5, <1>6 DEF Tree
<1>8. Rooted(rows)
  BY <1>7 DEF Rooted
<1>9. \A r \in Records, role \in Roles : t.link[r][role] = 0
  BY <1>2 DEF NoEntity
<1>10. t.link \in [Records -> [Roles -> 0..0]]
  BY <1>2 DEF NoEntity
<1>11. TypedTables(t)
  BY <1>2, <1>3, <1>4, <1>5, <1>10 DEF TypedTables
<1>12. Standing(t) /\ Pending(t, 0)
  BY <1>2, <1>9 DEF Standing, Pending
<1>13. Backed(t, Records) /\ KindsAgree(t, says)
  BY <1>2, <1>3, <1>5, <1>9 DEF Backed, KindsAgree, Roles
<1>14. 0 \in 0..NumRecords /\ 0 \in 0..MaxDecisions
  BY BoundAssumption
<1>15. Sound(t, Records)
  BY <1>3, <1>8, <1>11, <1>12, <1>13 DEF Sound
<1>16. QED
  BY <1>1, <1>12, <1>13, <1>14, <1>15 DEF Inv, Init

\* Equal parts, equal tables.
LEMMA PartsMakeTables ==
  ASSUME NEW t, NEW v, v.entity = t.entity, v.link = t.link, v.cand = t.cand,
         v.employed = t.employed, v.doubted = t.doubted, NEW said
  PROVE  /\ Sound(t, Records) => Sound(v, Records)
         /\ KindsAgree(t, said) => KindsAgree(v, said)
BY DEF Sound, TypedTables, Standing, Backed, Cites, Relates, KindsAgree

LEMMA ResolveRecordKeepsInv ==
  ASSUME Inv, NEW r \in Records, ResolveRecord(r)
  PROVE  Inv'
<1>1. /\ r = done + 1 /\ r <= NumRecords /\ done' = r
      /\ UNCHANGED <<says, decisions, crossed>>
  BY RecordsAreResolved
<1>2. PICK t, said : t = Tables /\ said = says
  OBVIOUS
<1>3. PICK u, v : /\ Resolved(t, u, v, r)
                  /\ entity' = v.entity /\ link' = v.link
                  /\ cand' = v.cand /\ employed' = v.employed /\ doubted' = v.doubted
  BY <1>2, RecordsAreResolved
<1>4. PICK w : w = Tables'
  OBVIOUS
<1>5. /\ w.entity = v.entity /\ w.link = v.link /\ w.cand = v.cand /\ w.employed = v.employed
      /\ w.doubted = v.doubted
  BY <1>3, <1>4 DEF Tables
<1>6. Sound(t, Records) /\ Pending(t, done) /\ said \in [Records -> Statements]
      /\ (crossed \/ KindsAgree(t, said)) /\ done \in 0..NumRecords
  BY <1>2 DEF Inv
<1>7. r > done /\ done \in Nat /\ NumRecords \in Nat
  BY <1>1, <1>6, BoundAssumption
<1>8. Unlinked(t, r)
  BY <1>6, <1>7 DEF Pending, Unlinked
<1>9. /\ Sound(v, Records)
      /\ KindsAgree(t, said) => KindsAgree(v, said)
      /\ OthersKeepLinks(t, v, r)
  BY <1>2, <1>3, <1>6, <1>8, ResolvingKeepsTables
<1>10. Sound(w, Records) /\ (KindsAgree(v, said) => KindsAgree(w, said))
  BY <1>5, <1>9, PartsMakeTables
<1>11. Pending(w, r)
  <2>1. SUFFICES ASSUME NEW q \in Records, q > r, NEW part \in Roles
                 PROVE  w.link[q][part] = 0
    BY DEF Pending
  <2>2. q # r /\ q > done
    BY <1>1, <1>7, <2>1 DEF Records
  <2>3. t.link[q][part] = 0
    BY <1>6, <2>2 DEF Pending
  <2>4. QED
    BY <1>5, <1>9, <2>2, <2>3 DEF OthersKeepLinks
<1>12. done' \in 0..NumRecords
  BY <1>1, <1>7
<1>13. QED
  BY <1>1, <1>2, <1>4, <1>6, <1>9, <1>10, <1>11, <1>12 DEF Inv

\* The tables after a candidate is closed.
LEMMA ClosingKeepsCands ==
  ASSUME NEW c \in cand, NEW n,
         cand \subseteq [record : Records, entity : 1..n, status : CandStatuses],
         NEW status \in {"accepted", "rejected"}
  PROVE  /\ Close(c, status) \subseteq [record : Records, entity : 1..n, status : CandStatuses]
         /\ \A x \in Close(c, status) : \E b \in cand : b.record = x.record
<1>1. PICK b : b = c
  OBVIOUS
<1>2. PICK x : x = [b EXCEPT !.status = status]
  OBVIOUS
<1>3. x \in [record : Records, entity : 1..n, status : CandStatuses] /\ x.record = b.record
  BY <1>1, <1>2 DEF CandStatuses
<1>4. Close(c, status) = (cand \ {c}) \cup {x}
  BY <1>1, <1>2 DEF Close
<1>5. QED
  BY <1>1, <1>3, <1>4

\* What accepting a candidate does to two entities that stand.
LEMMA AcceptingMerges ==
  ASSUME Inv, NEW c \in cand, Accept(c),
         NEW m, m = Resolve(entity, EntityOfRecord(c)),
         NEW s, s = Resolve(entity, c.entity)
  PROVE  /\ m \in 1..Len(entity) /\ entity[m].into = 0
         /\ s \in 1..Len(entity) /\ entity[s].into = 0
         /\ TypedTables(Tables)'
         /\ m = s => UNCHANGED <<entity, link, crossed>>
         /\ m # s => /\ Merging(Tables, Tables', m, s)
                     /\ MergingStrong(Tables, Tables', m, s)
                     /\ crossed' = (crossed \/ entity[m].kind # entity[s].kind)
<1>1. PICK t : t = Tables
  OBVIOUS
<1>2. /\ t.entity = entity /\ t.link = link /\ t.cand = cand /\ t.employed = employed
      /\ t.doubted = doubted
  BY <1>1, TablesAre
<1>3. Sound(t, Records) /\ TypedTables(t) /\ Standing(t) /\ Rooted(t.entity)
  BY <1>1 DEF Inv, Sound
<1>4. PICK rows : rows = entity
  OBVIOUS
<1>5. TypedRows(rows) /\ Rooted(rows) /\ Len(rows) \in Nat
  BY <1>2, <1>3, <1>4 DEF TypedTables, TypedRows
<1>6. /\ \A q \in Records, part \in Roles : link[q][part] \in 0..Len(rows)
      /\ c.record \in Records /\ c.entity \in 1..Len(rows)
  BY <1>2, <1>3, <1>4, LinksAreIds
<1>7. EntityOfRecord(c) \in 1..Len(rows)
  <2>1. link[c.record]["self"] # 0
    BY <1>2, <1>3 DEF Standing
  <2>2. link[c.record]["self"] \in 0..Len(rows)
    BY <1>6 DEF Roles
  <2>3. QED
    BY <1>5, <2>1, <2>2 DEF EntityOfRecord
<1>8. /\ m \in 1..Len(rows) /\ rows[m].into = 0
      /\ s \in 1..Len(rows) /\ rows[s].into = 0
  BY <1>4, <1>5, <1>6, <1>7, ResolveIsStanding
<1>9. cand' = Close(c, "accepted") /\ employed' = employed /\ doubted' = doubted
  BY DEF Accept, Decided
<1>10. PICK w : w = Tables'
  OBVIOUS
<1>11. /\ w.entity = entity' /\ w.link = link' /\ w.cand = cand' /\ w.employed = employed'
       /\ w.doubted = doubted'
  BY <1>10 DEF Tables
<1>12. cand \subseteq [record : Records, entity : 1..Len(rows), status : CandStatuses]
  BY <1>2, <1>3, <1>4 DEF TypedTables
<1>13. /\ w.cand \subseteq [record : Records, entity : 1..Len(rows), status : CandStatuses]
       /\ \A x \in w.cand : \E b \in cand : b.record = x.record
  BY <1>9, <1>11, <1>12, ClosingKeepsCands
<1>14. /\ w.employed = t.employed /\ w.doubted = t.doubted /\ t.doubted \subseteq StrongKeys
       /\ t.employed \subseteq [from : 1..Len(rows), to : 1..Len(rows), record : Records]
       /\ link \in [Records -> [Roles -> 0..Len(rows)]]
  BY <1>2, <1>3, <1>4, <1>9, <1>11 DEF TypedTables
<1>15. CASE m = s
  <2>1. UNCHANGED <<entity, link, crossed>>
    BY <1>15 DEF Accept
  <2>2. TypedTables(w)
    BY <1>4, <1>5, <1>11, <1>13, <1>14, <2>1 DEF TypedTables
  <2>3. QED
    BY <1>4, <1>8, <1>10, <1>15, <2>1, <2>2
<1>16. CASE m # s
  <2>1. /\ entity' = Merged(m, s)
        /\ link' = [r \in Records |-> [role \in Roles |->
                      IF link[r][role] = m THEN s ELSE link[r][role]]]
        /\ crossed' = (crossed \/ entity[m].kind # entity[s].kind)
    BY <1>16 DEF Accept
  <2>2. \A x \in 1..Len(rows) : rows[x] \in Row(Len(rows))
    BY <1>5 DEF TypedRows
  <2>3. PICK old \in Row(Len(rows)) : old = rows[m]
    BY <1>8, <2>2
  <2>4. PICK kept \in Row(Len(rows)) : kept = rows[s]
    BY <1>8, <2>2
  <2>5. PICK gone : gone = [old EXCEPT !.into = s]
    OBVIOUS
  <2>6. PICK grown : grown = WithKeys(kept, old.keys, old.strong)
    OBVIOUS
  <2>7. s \in 0..Len(rows)
    BY <1>5, <1>8
  <2>8. /\ gone \in Row(Len(rows)) /\ gone.into = s /\ gone.kind = old.kind /\ gone.keys = old.keys
        /\ grown \in Row(Len(rows)) /\ grown.into = kept.into /\ grown.kind = kept.kind
        /\ grown.keys = kept.keys \cup old.keys
        /\ gone.strong = old.strong /\ grown.strong = kept.strong \cup (old.strong \ kept.keys)
    BY <2>5, <2>6, <2>7 DEF Row, WithKeys
  <2>9. entity' = [rows EXCEPT ![s] = grown, ![m] = gone]
    BY <1>4, <1>8, <1>16, <2>1, <2>3, <2>4, <2>5, <2>6 DEF Merged
  <2>10. PICK more : more = entity'
    OBVIOUS
  <2>11. /\ Len(more) = Len(rows) /\ more \in Seq(Row(Len(rows)))
         /\ more[m] = gone /\ more[s] = grown
         /\ \A x \in 1..Len(rows) : x # m /\ x # s => more[x] = rows[x]
    BY <1>5, <1>8, <1>16, <2>8, <2>9, <2>10 DEF TypedRows
  <2>12. TypedRows(more)
    BY <2>11 DEF TypedRows
  <2>13. /\ link' \in [Records -> [Roles -> 0..Len(rows)]]
         /\ \A r \in Records, role \in Roles :
              link'[r][role] = IF link[r][role] = m THEN s ELSE link[r][role]
    BY <1>14, <2>1, <2>7
  <2>14. TypedTables(w)
    BY <1>11, <1>13, <1>14, <2>10, <2>11, <2>12, <2>13 DEF TypedTables
  <2>15. ASSUME NEW x \in 1..Len(rows)
         PROVE  /\ x # m => more[x].into = rows[x].into
                /\ more[x].kind = rows[x].kind
                /\ more[x].keys = IF x = s THEN rows[s].keys \cup rows[m].keys ELSE rows[x].keys
    <3>1. CASE x = m
      BY <1>16, <2>3, <2>8, <2>11, <3>1
    <3>2. CASE x = s
      BY <1>16, <2>3, <2>4, <2>8, <2>11, <3>2
    <3>3. CASE x # m /\ x # s
      BY <2>11, <3>3
    <3>4. QED
      BY <3>1, <3>2, <3>3
  <2>16. more[m].into = s
    BY <2>8, <2>11
  <2>17. Merging(t, w, m, s)
    <3>1. Len(w.entity) = Len(t.entity) /\ w.entity[m].into = s
      BY <1>2, <1>4, <1>11, <2>10, <2>11, <2>16
    <3>2. \A e \in 1..Len(t.entity) :
            /\ e # m => w.entity[e].into = t.entity[e].into
            /\ w.entity[e].kind = t.entity[e].kind
            /\ w.entity[e].keys = IF e = s THEN t.entity[s].keys \cup t.entity[m].keys
                                  ELSE t.entity[e].keys
      BY <1>2, <1>4, <1>11, <2>10, <2>15
    <3>3. \A r \in Records, role \in Roles :
            w.link[r][role] = IF t.link[r][role] = m THEN s ELSE t.link[r][role]
      BY <1>2, <1>11, <2>13
    <3>4. w.employed = t.employed /\ \A x \in w.cand : \E b \in t.cand : b.record = x.record
      BY <1>2, <1>13, <1>14
    <3>5. QED
      BY <3>1, <3>2, <3>3, <3>4 DEF Merging
  <2>18. MergingStrong(t, w, m, s)
    <3>1. ASSUME NEW x \in 1..Len(rows), NEW k \in more[x].strong
          PROVE  k \in rows[x].strong \/ (x = s /\ k \in rows[m].strong)
      <4>1. CASE x = m
        BY <1>16, <2>3, <2>8, <2>11, <3>1, <4>1
      <4>2. CASE x = s
        BY <1>16, <2>3, <2>4, <2>8, <2>11, <3>1, <4>2
      <4>3. CASE x # m /\ x # s
        BY <2>11, <3>1, <4>3
      <4>4. QED
        BY <4>1, <4>2, <4>3
    <3>2. QED
      BY <1>2, <1>4, <1>11, <1>14, <2>10, <3>1 DEF MergingStrong
  <2>19. QED
    BY <1>1, <1>4, <1>8, <1>10, <1>16, <2>1, <2>14, <2>17, <2>18
<1>17. QED
  BY <1>15, <1>16

LEMMA AcceptKeepsInv ==
  ASSUME Inv, NEW c \in cand, Accept(c)
  PROVE  Inv'
<1>1. PICK m, s : m = Resolve(entity, EntityOfRecord(c)) /\ s = Resolve(entity, c.entity)
  OBVIOUS
<1>2. /\ m \in 1..Len(entity) /\ entity[m].into = 0
      /\ s \in 1..Len(entity) /\ entity[s].into = 0
      /\ TypedTables(Tables)'
      /\ m = s => UNCHANGED <<entity, link, crossed>>
      /\ m # s => /\ Merging(Tables, Tables', m, s)
                  /\ crossed' = (crossed \/ entity[m].kind # entity[s].kind)
  BY <1>1, AcceptingMerges
<1>3. /\ UNCHANGED <<says, done, employed, doubted>> /\ decisions' = decisions + 1
      /\ decisions < MaxDecisions /\ cand' = Close(c, "accepted")
  BY DEF Accept, Decided
<1>4. PICK t, w, said : t = Tables /\ w = Tables' /\ said = says
  OBVIOUS
<1>5. /\ t.entity = entity /\ t.link = link /\ t.cand = cand /\ t.employed = employed
      /\ w.entity = entity' /\ w.link = link' /\ w.cand = cand' /\ w.employed = employed'
      /\ t.doubted = doubted /\ w.doubted = doubted'
  BY <1>4 DEF Tables
<1>6. /\ Sound(t, Records) /\ Pending(t, done) /\ said \in [Records -> Statements]
      /\ (crossed \/ KindsAgree(t, said)) /\ crossed \in BOOLEAN /\ done \in 0..NumRecords
      /\ decisions \in 0..MaxDecisions
  BY <1>4 DEF Inv
<1>7. TypedTables(w)
  BY <1>2, <1>4
<1>8. decisions' \in 0..MaxDecisions
  BY <1>3, <1>6, BoundAssumption
<1>9. CASE m = s
  <2>1. UNCHANGED <<entity, link, crossed>>
    BY <1>2, <1>9
  <2>2. cand \subseteq [record : Records, entity : 1..Len(entity), status : CandStatuses]
    BY <1>5, <1>6 DEF Sound, TypedTables
  <2>3. \A x \in w.cand : \E b \in t.cand : b.record = x.record
    BY <1>3, <1>5, <2>2, ClosingKeepsCands
  <2>4. Standing(w) /\ Pending(w, done)
    BY <1>3, <1>5, <1>6, <2>1, <2>3 DEF Sound, Standing, Pending
  <2>5. Backed(w, Records) /\ (KindsAgree(t, said) => KindsAgree(w, said))
    BY <1>3, <1>5, <1>6, <2>1 DEF Sound, Backed, Cites, Relates, KindsAgree
  <2>6. Sound(w, Records)
    BY <1>5, <1>6, <1>7, <2>1, <2>4, <2>5 DEF Sound
  <2>7. QED
    BY <1>3, <1>4, <1>6, <1>8, <2>1, <2>4, <2>5, <2>6 DEF Inv
<1>10. CASE m # s
  <2>1. Merging(t, w, m, s) /\ crossed' = (crossed \/ entity[m].kind # entity[s].kind)
    BY <1>2, <1>4, <1>10
  <2>2. /\ m \in 1..Len(t.entity) /\ s \in 1..Len(t.entity)
        /\ t.entity[m].into = 0 /\ t.entity[s].into = 0
    BY <1>2, <1>5
  <2>3. Sound(w, Records)
    BY <1>6, <1>7, <1>10, <2>1, <2>2, MergingKeepsSound
  <2>4. ASSUME ~crossed' PROVE KindsAgree(w, said)
    <3>1. KindsAgree(t, said) /\ t.entity[m].kind = t.entity[s].kind
      BY <1>5, <1>6, <2>1, <2>4
    <3>2. TypedTables(t)
      BY <1>6 DEF Sound
    <3>3. QED
      BY <1>7, <2>1, <2>2, <3>1, <3>2, MergingKeepsKinds
  <2>5. Pending(w, done)
    <3>1. m # 0
      BY <1>2
    <3>2. QED
      BY <1>6, <2>1, <3>1 DEF Pending, Merging
  <2>6. crossed' \in BOOLEAN
    BY <1>6, <2>1
  <2>7. QED
    BY <1>3, <1>4, <1>6, <1>8, <2>3, <2>4, <2>5, <2>6 DEF Inv
<1>11. QED
  BY <1>9, <1>10

LEMMA RejectKeepsInv ==
  ASSUME Inv, NEW c \in cand, Reject(c)
  PROVE  Inv'
<1>1. /\ UNCHANGED <<says, done, employed, doubted, entity, link, crossed>> /\ decisions' = decisions + 1
      /\ decisions < MaxDecisions /\ cand' = Close(c, "rejected")
  BY DEF Reject, Decided
<1>2. PICK t, w, said : t = Tables /\ w = Tables' /\ said = says
  OBVIOUS
<1>3. /\ t.entity = entity /\ t.link = link /\ t.cand = cand /\ t.employed = employed
      /\ w.entity = entity' /\ w.link = link' /\ w.cand = cand' /\ w.employed = employed'
      /\ t.doubted = doubted /\ w.doubted = doubted'
  BY <1>2 DEF Tables
<1>4. /\ Sound(t, Records) /\ Pending(t, done) /\ said \in [Records -> Statements]
      /\ (crossed \/ KindsAgree(t, said)) /\ crossed \in BOOLEAN /\ done \in 0..NumRecords
      /\ decisions \in 0..MaxDecisions
  BY <1>2 DEF Inv
<1>5. decisions' \in 0..MaxDecisions
  BY <1>1, <1>4, BoundAssumption
<1>6. cand \subseteq [record : Records, entity : 1..Len(entity), status : CandStatuses]
  BY <1>3, <1>4 DEF Sound, TypedTables
<1>7. /\ w.cand \subseteq [record : Records, entity : 1..Len(entity), status : CandStatuses]
      /\ \A x \in w.cand : \E b \in t.cand : b.record = x.record
  <2>1. w.cand = Close(c, "rejected") /\ t.cand = cand
    BY <1>1, <1>3
  <2>2. Close(c, "rejected") \subseteq [record : Records, entity : 1..Len(entity), status : CandStatuses]
    BY <1>6, ClosingKeepsCands
  <2>3. \A x \in Close(c, "rejected") : \E b \in cand : b.record = x.record
    BY <1>6, ClosingKeepsCands
  <2>4. QED
    BY <2>1, <2>2, <2>3
<1>8. /\ w.entity = t.entity /\ w.link = t.link /\ w.employed = t.employed
      /\ w.doubted = t.doubted
  BY <1>1, <1>3
<1>9. TypedTables(w)
  BY <1>3, <1>4, <1>7, <1>8 DEF Sound, TypedTables
<1>10. Standing(w) /\ Pending(w, done)
  BY <1>4, <1>7, <1>8 DEF Sound, Standing, Pending
<1>11. Backed(w, Records) /\ (KindsAgree(t, said) => KindsAgree(w, said))
  <2>1. Backed(w, Records)
    BY <1>4, <1>8 DEF Sound, Backed, Cites, Relates
  <2>2. KindsAgree(t, said) => KindsAgree(w, said)
    BY <1>8 DEF KindsAgree
  <2>3. QED
    BY <2>1, <2>2
<1>12. Sound(w, Records)
  BY <1>4, <1>8, <1>9, <1>10, <1>11 DEF Sound
<1>13. QED
  BY <1>1, <1>2, <1>4, <1>5, <1>10, <1>11, <1>12 DEF Inv

LEMMA NextKeepsInv == Inv /\ [Next]_vars => Inv'
<1> SUFFICES ASSUME Inv, [Next]_vars PROVE Inv'
  OBVIOUS
<1>1. CASE \E r \in Records : ResolveRecord(r)
  BY <1>1, ResolveRecordKeepsInv
<1>2. CASE \E c \in cand : Accept(c)
  BY <1>2, AcceptKeepsInv
<1>3. CASE \E c \in cand : Reject(c)
  BY <1>3, RejectKeepsInv
<1>4. CASE UNCHANGED vars
  <2>1. Tables' = Tables
    BY <1>4 DEF vars, Tables
  <2>2. QED
    BY <1>4, <2>1 DEF vars, Inv
<1>5. QED
  BY <1>1, <1>2, <1>3, <1>4 DEF Next

LEMMA InvHolds == Spec => []Inv
<1>1. Init => Inv
  BY InitKeepsInv
<1>2. Inv /\ [Next]_vars => Inv'
  BY NextKeepsInv
<1>3. QED
  BY <1>1, <1>2, PTL DEF Spec

LEMMA InvIsTyped == Inv => TypeOK
<1> SUFFICES ASSUME Inv PROVE TypeOK
  OBVIOUS
<1>1. PICK t : t = Tables
  OBVIOUS
<1>2. /\ t.entity = entity /\ t.link = link /\ t.cand = cand /\ t.employed = employed
      /\ t.doubted = doubted
  BY <1>1, TablesAre
<1>3. PICK n : n = Len(entity)
  OBVIOUS
<1>4. TypedTables(t) /\ (crossed \/ KindsAgree(t, says))
  BY <1>1 DEF Inv, Sound
<1>5. n \in Nat
  BY <1>2, <1>3, <1>4, LinksAreIds
<1>6. PICK ids : ids = 1..n
  OBVIOUS
<1>7. 0..n = ids \cup {NoEntity}
  BY <1>5, <1>6 DEF NoEntity
<1>8. entity \in Seq([kind : Kinds, into : ids \cup {NoEntity}, keys : SUBSET Keys,
                    strong : SUBSET StrongKeys])
  BY <1>2, <1>3, <1>4, <1>7 DEF TypedTables, TypedRows, Row
<1>9. link \in [Records -> [Roles -> ids \cup {NoEntity}]]
  BY <1>2, <1>3, <1>4, <1>7 DEF TypedTables
<1>10. /\ cand \subseteq [record : Records, entity : ids, status : {"open", "accepted", "rejected"}]
       /\ employed \subseteq [from : ids, to : ids, record : Records]
       /\ doubted \subseteq StrongKeys
  BY <1>2, <1>3, <1>4, <1>6 DEF TypedTables, CandStatuses
<1>11. crossed \/ (LinkRoleMatchesEntity /\ EmploymentRunsToCompany)
  BY <1>2, <1>4
     DEF KindsAgree, LinkRoleMatchesEntity, EmploymentRunsToCompany, Linked, KindOf, NoEntity
<1>12. QED
  BY <1>3, <1>6, <1>8, <1>9, <1>10, <1>11 DEF TypeOK, Inv

\* Every table holds values of its kinds and names rows that exist; and unless entities
\* of two types were merged, verify.sql's checks 7 and 8 find nothing: a record is linked
\* to an entity of its type, its employer is a company, and employment runs from a person
\* to a company.
THEOREM TypeCorrect == Spec => []TypeOK
<1>1. Spec => []Inv
  BY InvHolds
<1>2. Inv => TypeOK
  BY InvIsTyped
<1>3. QED
  BY <1>1, <1>2, PTL

\* The record that an employment cites still links the survivors of its two ends,
\* through any sequence of merges, and every employer link has its employment
\* (employer.py, assert_relationship; repository.py, merge_entities).
THEOREM EmploymentsAreBacked == Spec => []EmploymentIsBacked
<1>1. Spec => []Inv
  BY InvHolds
<1>2. Inv => EmploymentIsBacked
  <2> SUFFICES ASSUME Inv PROVE EmploymentIsBacked
    OBVIOUS
  <2>1. PICK t : t = Tables
    OBVIOUS
  <2>2. t.entity = entity /\ t.link = link /\ t.employed = employed
    BY <2>1, TablesAre
  <2>3. Backed(t, Records)
    BY <2>1 DEF Inv, Sound
  <2>4. QED
    BY <2>2, <2>3 DEF Backed, Cites, Relates, EmploymentIsBacked, Linked, NoEntity
<1>3. QED
  BY <1>1, <1>2, PTL

---------------------------------------------------------------------------
(* Whoever has a decisive key.                                             *)

\* The keys of a statement and the decisive ones, for either subject.
KeysIn(x, role) == IF role = "self" THEN x.keys ELSE x.employer.keys
StrongIn(x, role) ==
    (KeysIn(x, role) \cap StrongKeys)
    \ (IF role = "self" /\ x.demoting THEN DemotedKeys ELSE {})

\* A subject is linked to who has its keys.
KeysHeld(t, said) ==
    \A r \in Records, role \in Roles : t.link[r][role] # 0 =>
        KeysIn(said[r], role) \subseteq t.entity[t.link[r][role]].keys

\* What is decisive for an entity that stands is decisive for a subject linked to it.
StrongBacked(t, said) ==
    \A e \in 1..Len(t.entity) : t.entity[e].into = 0 =>
        \A k \in t.entity[e].strong : \E q \in Records, part \in Roles :
            t.link[q][part] = e /\ k \in StrongIn(said[q], part)

\* Subjects with a decisive key that is not doubted are one entity.
Meeting(t, said) ==
    \A r, q \in Records : \A role, part \in Roles :
        t.link[r][role] # 0 /\ t.link[q][part] # 0 =>
            \A k \in (StrongIn(said[r], role) \cap StrongIn(said[q], part)) \ t.doubted :
                t.link[r][role] = t.link[q][part]

KeysMeet(t, said) == KeysHeld(t, said) /\ StrongBacked(t, said) /\ Meeting(t, said)

LEMMA SubjectIn ==
  ASSUME NEW r, NEW role, NEW said, said = says
  PROVE  KeysSaid(r, role) = KeysIn(said[r], role) /\ StrongSaid(r, role) = StrongIn(said[r], role)
BY DEF KeysSaid, StrongSaid, KeysIn, StrongIn

LEMMA WeightsAreNumbers == \A k \in Keys : Weight[k] \in Nat
BY WeightAssumption

LEMMA ConfidenceIsEnough ==
  ASSUME NEW best \in Keys, NEW matched \in SUBSET Keys, NEW strong
  PROVE  /\ Confidence(best, matched, strong) \in Nat
         /\ best \in strong /\ Weight[best] >= AutoLinkThreshold
              => Confidence(best, matched, strong) >= AutoLinkThreshold
<1> DEFINE types == {KeyType[k] : k \in matched}
           extra == Cardinality(types \ {KeyType[best]})
           raw == Weight[best] + CorroborationBoost * extra
<1>1. IsFiniteSet(matched)
  BY KeysAreFinite, FS_Subset
<1>2. IsFiniteSet(types)
  <2> DEFINE f == [k \in matched |-> KeyType[k]]
  <2>1. f \in Surjection(matched, types)
    BY DEF Surjection
  <2>2. QED
    BY <1>1, <2>1, FS_Surjection
<1>3. extra \in Nat
  BY <1>2, FS_Difference, FS_CardinalityType
<1>4. Weight[best] \in Nat
  BY WeightAssumption
<1>5. raw \in Nat /\ Weight[best] <= raw
  BY <1>3, <1>4 DEF CorroborationBoost
<1>6. Confidence(best, matched, strong)
        = Lesser(MaxConfidence,
                 IF best \in strong THEN raw ELSE Lesser(raw, AutoLinkThreshold - 1))
  BY DEF Confidence
<1> HIDE DEF raw
<1>7. QED
  BY <1>4, <1>5, <1>6 DEF Lesser, MaxConfidence, AutoLinkThreshold

\* An entity whose heaviest keys are decisive, when no other has a decisive key, is the
\* one that is linked to.
LEMMA StrongKeyLinks ==
  ASSUME NEW rows, TypedRows(rows), NEW keys \in SUBSET Keys, NEW strong \in SUBSET StrongKeys,
         NEW d \in Decisions(rows, keys, strong), NEW e \in 1..Len(rows), rows[e].into = 0,
         keys \cap rows[e].keys # {},
         Heaviest(keys \cap rows[e].keys) \subseteq strong \cap rows[e].strong,
         \A f \in 1..Len(rows) :
           rows[f].into = 0 /\ keys \cap rows[f].keys \cap strong \cap rows[f].strong # {} => f = e
  PROVE  d.kind = "link" /\ d.match = e
<1> DEFINE D == {x \in Ids(rows) : Active(rows, x) /\ keys \cap rows[x].keys # {}}
           overlap == [x \in D |-> keys \cap rows[x].keys]
           decisive == [x \in D |-> overlap[x] \cap strong \cap rows[x].strong]
<1>1. Len(rows) \in Nat /\ Ids(rows) = 1..Len(rows)
  BY DEF TypedRows, Ids
<1>2. \A x \in D : /\ overlap[x] = keys \cap rows[x].keys
                   /\ decisive[x] = overlap[x] \cap strong \cap rows[x].strong
  OBVIOUS
<1>3. overlap \in [D -> SUBSET Keys] /\ decisive \in [D -> SUBSET Keys]
  OBVIOUS
<1>4. d \in Outcomes(overlap, decisive)
  <2>1. Overlaps(rows, keys) = overlap /\ DOMAIN overlap = D
    BY DEF Overlaps
  <2>2. QED
    BY <2>1 DEF Decisions
<1>5. e \in D
  BY <1>1 DEF Active, NoEntity
<1> HIDE DEF overlap, decisive
<1>6. DOMAIN overlap = D /\ D # {}
  BY <1>3, <1>5
<1>7. PICK top \in Tops(overlap) : d \in Decide(overlap, decisive, top)
  BY <1>4, <1>6 DEF Outcomes
<1>8. \A x \in D : top[x] \in Heaviest(overlap[x]) /\ top[x] \in overlap[x] /\ top[x] \in Keys
  BY <1>6, <1>7 DEF Tops, Heaviest
<1>9. PICK score : score = [x \in D |-> Confidence(top[x], overlap[x], decisive[x])]
  OBVIOUS
<1>10. PICK m \in D :
         /\ \A f \in D : score[f] <= score[m]
         /\ d.match = m
         /\ score[m] >= AutoLinkThreshold /\ {x \in D : \A f \in D : score[f] <= score[x]} = {m}
              => d.kind = "link"
  <2> DEFINE scores == [x \in DOMAIN overlap |-> Confidence(top[x], overlap[x], decisive[x])]
             best == {x \in DOMAIN overlap : \A f \in DOMAIN overlap : scores[f] <= scores[x]}
             kind(m) == IF scores[m] >= AutoLinkThreshold /\ best = {m} THEN "link"
                        ELSE IF scores[m] >= ReviewThreshold THEN "review" ELSE "new_entity"
  <2>1. PICK m \in best : d = [kind |-> kind(m), match |-> m]
    BY <1>7 DEF Decide
  <2>2. scores = score
    BY <1>6, <1>9
  <2> HIDE DEF scores
  <2>3. m \in D /\ d.match = m /\ \A f \in D : score[f] <= score[m]
    BY <1>6, <2>1, <2>2
  <2>4. best = {x \in D : \A f \in D : score[f] <= score[x]}
    BY <1>6, <2>2
  <2> HIDE DEF best
  <2>5. score[m] >= AutoLinkThreshold /\ best = {m} => d.kind = "link"
    BY <2>1, <2>2
  <2>6. QED
    BY <2>3, <2>4, <2>5
<1>11. \A x \in D : score[x] \in Nat
  <2>1. TAKE x \in D
  <2>2. overlap[x] \in SUBSET Keys /\ top[x] \in Keys
    BY <1>3, <1>8
  <2>3. QED
    BY <1>9, <2>2, ConfidenceIsEnough
<1>12. score[e] >= AutoLinkThreshold
  <2>1. top[e] \in decisive[e] /\ top[e] \in Keys /\ top[e] \in StrongKeys
    BY <1>2, <1>5, <1>8
  <2>2. Weight[top[e]] >= AutoLinkThreshold
    BY <2>1, KeyAssumption
  <2>3. overlap[e] \in SUBSET Keys
    BY <1>3, <1>5
  <2>4. QED
    BY <1>5, <1>9, <2>1, <2>2, <2>3, ConfidenceIsEnough
<1>13. \A x \in D : x # e => score[x] < AutoLinkThreshold
  <2>1. SUFFICES ASSUME NEW x \in D, x # e PROVE score[x] < AutoLinkThreshold
    OBVIOUS
  <2>2. x \in 1..Len(rows) /\ rows[x].into = 0
    BY <1>1, <2>1 DEF Active, NoEntity
  <2>3. decisive[x] = {}
    BY <1>2, <2>1, <2>2
  <2>4. overlap[x] \in SUBSET Keys /\ top[x] \in Keys
    BY <1>3, <1>8
  <2>5. ~(Confidence(top[x], overlap[x], decisive[x]) >= AutoLinkThreshold)
    BY <2>3, <2>4, ConfidenceNeedsStrongKey
  <2>6. QED
    BY <1>9, <1>11, <2>5 DEF AutoLinkThreshold
<1> HIDE DEF D
<1>14. m = e
  BY <1>5, <1>10, <1>11, <1>12, <1>13 DEF AutoLinkThreshold
<1>15. {x \in D : \A f \in D : score[f] <= score[x]} = {m}
  <2>1. \A x \in D : (\A f \in D : score[f] <= score[x]) => x = e
    BY <1>5, <1>11, <1>12, <1>13 DEF AutoLinkThreshold
  <2>2. QED
    BY <1>10, <1>14, <2>1
<1>16. QED
  BY <1>10, <1>12, <1>14, <1>15

\* A clear lookup finds the entity that a subject with the same decisive key is.
LEMMA ClearLookupLinks ==
  ASSUME NEW t, Sound(t, Records), NEW said, said = says, KeysMeet(t, said),
         NEW r, NEW role, NEW kind, NEW keys, NEW strong, NEW d, NEW u,
         Linking(t, u, r, role, kind, keys, strong, d), ~Unclear(t, keys, strong),
         NEW q \in Records, NEW part \in Roles, t.link[q][part] # 0,
         NEW k \in strong, k \in StrongIn(said[q], part)
  PROVE  d.kind = "link" /\ d.match = t.link[q][part]
<1>1. PICK rows, e : rows = t.entity /\ e = t.link[q][part]
  OBVIOUS
<1>2. TypedTables(t) /\ Standing(t)
  BY DEF Sound
<1>3. TypedRows(rows) /\ Len(rows) \in Nat
  BY <1>1, <1>2, LinksAreIds DEF TypedTables
<1>4. e \in 1..Len(rows) /\ rows[e].into = 0
  <2>1. e \in 0..Len(rows) /\ e # 0
    BY <1>1, <1>2, LinksAreIds
  <2>2. rows[e].into = 0
    BY <1>1, <1>2 DEF Standing
  <2>3. QED
    BY <1>3, <2>1, <2>2
<1>5. /\ keys \in SUBSET Keys /\ strong \in SUBSET StrongKeys /\ d \in Decisions(rows, keys, strong)
      /\ strong \subseteq keys
  BY <1>1 DEF Linking, Subject, StrongSaid
<1>6. k \in rows[e].keys
  <2>1. KeysIn(said[q], part) \subseteq rows[e].keys
    BY <1>1 DEF KeysMeet, KeysHeld
  <2>2. QED
    BY <2>1 DEF StrongIn
<1>7. ASSUME NEW f \in 1..Len(rows), NEW p \in Records, NEW side \in Roles,
             t.link[p][side] = f, NEW j \in strong, j \in StrongIn(said[p], side)
      PROVE  Claims(t, f, strong)
  BY <1>7, SubjectIn DEF Claims
<1>8. Claims(t, e, strong)
  BY <1>1, <1>4, <1>7
<1>9. Ids(rows) = 1..Len(rows)
  BY <1>3 DEF Ids, TypedRows
<1>10. /\ \A f \in 1..Len(rows) : Claims(t, f, strong) => f = e
       /\ Heaviest(keys \cap rows[e].keys) \subseteq strong \cap rows[e].strong
  BY <1>1, <1>4, <1>6, <1>8, <1>9 DEF Unclear
<1>11. ASSUME NEW f \in 1..Len(rows), rows[f].into = 0,
              keys \cap rows[f].keys \cap strong \cap rows[f].strong # {}
       PROVE  f = e
  <2>1. PICK j \in strong : j \in rows[f].strong
    BY <1>11
  <2>2. PICK p \in Records, side \in Roles : t.link[p][side] = f /\ j \in StrongIn(said[p], side)
    BY <1>1, <1>11, <2>1 DEF KeysMeet, StrongBacked
  <2>3. QED
    BY <1>7, <1>10, <2>1, <2>2
<1>12. keys \cap rows[e].keys # {}
  BY <1>5, <1>6
<1>13. d.kind = "link" /\ d.match = e
  BY <1>3, <1>4, <1>5, <1>10, <1>11, <1>12, StrongKeyLinks
<1>14. QED
  BY <1>1, <1>13

LEMMA SubjectKeepsKeys ==
  ASSUME NEW t, Sound(t, Records), NEW said, said = says, KeysMeet(t, said),
         NEW r, NEW role, NEW kind, NEW keys, NEW strong, NEW d, NEW u,
         Linking(t, u, r, role, kind, keys, strong, d)
  PROVE  KeysMeet(u, said)
<1>1. TypedTables(t)
  BY DEF Sound
<1>2. /\ r \in Records /\ role \in Roles /\ Subject(r, role, kind, keys, strong)
      /\ d \in Decisions(t.entity, keys, strong) /\ u = Applied(t, r, role, d)
      /\ t.link[r][role] = 0
  BY DEF Linking
<1>3. keys = KeysIn(said[r], role) /\ strong = StrongIn(said[r], role)
  BY <1>2, SubjectIn DEF Subject
<1>4. /\ TypedTables(u)
      /\ \E e : Effect(t, u, r, role, kind, keys, e) /\ Strengthens(t, u, keys, strong, e)
      /\ d.kind = "link" => u.link[r][role] = d.match
  BY <1>1, <1>2, AppliedHasEffect
<1>5. PICK e : Effect(t, u, r, role, kind, keys, e) /\ Strengthens(t, u, keys, strong, e)
  BY <1>4
<1>6. PICK n, k : n = Len(t.entity) /\ k = Len(u.entity)
  OBVIOUS
<1>7. n \in Nat /\ \A q \in Records, part \in Roles : t.link[q][part] \in 0..n
  BY <1>1, <1>6, LinksAreIds
<1>8. /\ k \in {n, n + 1} /\ e \in 1..k
      /\ \A x \in 1..n :
           /\ u.entity[x].into = t.entity[x].into
           /\ u.entity[x].keys = IF x = e THEN t.entity[x].keys \cup keys ELSE t.entity[x].keys
      /\ k = n + 1 => e = k /\ u.entity[e].keys = keys
      /\ u.link[r][role] = e
      /\ \A q \in Records, part \in Roles :
           q # r \/ part # role => u.link[q][part] = t.link[q][part]
  BY <1>5, <1>6 DEF Effect
<1>9. /\ \A x \in 1..k : \A j \in u.entity[x].strong :
           (x \in 1..n /\ j \in t.entity[x].strong) \/ (x = e /\ j \in strong)
      /\ u.doubted = t.doubted \cup (IF Unclear(t, keys, strong) THEN strong ELSE {})
  BY <1>5, <1>6 DEF Strengthens
<1>10. KeysHeld(u, said)
  <2>1. SUFFICES ASSUME NEW q \in Records, NEW part \in Roles, u.link[q][part] # 0
                 PROVE  KeysIn(said[q], part) \subseteq u.entity[u.link[q][part]].keys
    BY DEF KeysHeld
  <2>2. CASE q = r /\ part = role
    <3>1. keys \subseteq u.entity[e].keys
      <4>1. CASE e \in 1..n
        BY <1>8, <4>1
      <4>2. CASE e \notin 1..n
        BY <1>7, <1>8, <4>2
      <4>3. QED
        BY <4>1, <4>2
    <3>2. QED
      BY <1>3, <1>8, <2>2, <3>1
  <2>3. CASE q # r \/ part # role
    <3>1. u.link[q][part] = t.link[q][part] /\ t.link[q][part] # 0
      BY <1>8, <2>1, <2>3
    <3>2. t.link[q][part] \in 1..n
      BY <1>7, <3>1
    <3>3. KeysIn(said[q], part) \subseteq t.entity[t.link[q][part]].keys
      BY <3>1 DEF KeysMeet, KeysHeld
    <3>4. \A x \in 1..n : t.entity[x].keys \subseteq u.entity[x].keys
      BY <1>8
    <3>5. QED
      BY <3>1, <3>2, <3>3, <3>4
  <2>4. QED
    BY <2>2, <2>3
<1>11. StrongBacked(u, said)
  <2>1. SUFFICES ASSUME NEW x \in 1..k, u.entity[x].into = 0, NEW j \in u.entity[x].strong
                 PROVE  \E q \in Records, part \in Roles :
                          u.link[q][part] = x /\ j \in StrongIn(said[q], part)
    BY <1>6 DEF StrongBacked
  <2>2. CASE x = e /\ j \in strong
    BY <1>2, <1>3, <1>8, <2>2
  <2>3. CASE x \in 1..n /\ j \in t.entity[x].strong
    <3>1. t.entity[x].into = 0
      BY <1>8, <2>1, <2>3
    <3>2. PICK q \in Records, part \in Roles :
            t.link[q][part] = x /\ j \in StrongIn(said[q], part)
      BY <1>6, <2>3, <3>1 DEF KeysMeet, StrongBacked
    <3>3. x # 0
      BY <2>1
    <3>4. u.link[q][part] = x
      BY <1>2, <1>8, <3>2, <3>3
    <3>5. QED
      BY <3>2, <3>4
  <2>4. QED
    BY <1>9, <2>1, <2>2, <2>3
<1>12. ASSUME NEW q \in Records, NEW part \in Roles, q # r \/ part # role, u.link[q][part] # 0,
              NEW j \in (strong \cap StrongIn(said[q], part)) \ u.doubted
       PROVE  u.link[q][part] = u.link[r][role]
  <2>1. u.link[q][part] = t.link[q][part] /\ t.link[q][part] # 0
    BY <1>8, <1>12
  <2>2. ~Unclear(t, keys, strong)
    BY <1>9, <1>12
  <2>3. d.kind = "link" /\ d.match = t.link[q][part]
    BY <1>12, <2>1, <2>2, ClearLookupLinks
  <2>4. QED
    BY <1>4, <2>1, <2>3
<1>13. t.doubted \subseteq u.doubted
  BY <1>9
<1>14. Meeting(u, said)
  <2>1. SUFFICES ASSUME NEW p \in Records, NEW side \in Roles, NEW q \in Records, NEW part \in Roles,
                        u.link[p][side] # 0, u.link[q][part] # 0,
                        NEW j \in (StrongIn(said[p], side) \cap StrongIn(said[q], part)) \ u.doubted
                 PROVE  u.link[p][side] = u.link[q][part]
    BY DEF Meeting
  <2>2. CASE p = r /\ side = role
    <3>1. CASE q = r /\ part = role
      BY <2>2, <3>1
    <3>2. CASE q # r \/ part # role
      <4>1. j \in (strong \cap StrongIn(said[q], part)) \ u.doubted
        BY <1>3, <2>1, <2>2
      <4>2. QED
        BY <1>12, <2>1, <2>2, <3>2, <4>1
    <3>3. QED
      BY <3>1, <3>2
  <2>3. CASE (p # r \/ side # role) /\ q = r /\ part = role
    <3>1. j \in (strong \cap StrongIn(said[p], side)) \ u.doubted
      BY <1>3, <2>1, <2>3
    <3>2. QED
      BY <1>12, <2>1, <2>3, <3>1
  <2>4. CASE (p # r \/ side # role) /\ (q # r \/ part # role)
    <3>1. /\ u.link[p][side] = t.link[p][side] /\ t.link[p][side] # 0
          /\ u.link[q][part] = t.link[q][part] /\ t.link[q][part] # 0
      BY <1>8, <2>1, <2>4
    <3>2. j \in (StrongIn(said[p], side) \cap StrongIn(said[q], part)) \ t.doubted
      BY <1>13, <2>1
    <3>3. QED
      BY <3>1, <3>2 DEF KeysMeet, Meeting
  <2>5. QED
    BY <2>2, <2>3, <2>4
<1>15. QED
  BY <1>10, <1>11, <1>14 DEF KeysMeet

LEMMA MergingKeepsKeys ==
  ASSUME NEW t, TypedTables(t), NEW u, TypedTables(u), NEW said, KeysMeet(t, said),
         NEW m \in 1..Len(t.entity), NEW s \in 1..Len(t.entity), m # s,
         Merging(t, u, m, s), MergingStrong(t, u, m, s),
         t.entity[m].into = 0, t.entity[s].into = 0
  PROVE  KeysMeet(u, said)
<1>1. PICK n : n = Len(t.entity)
  OBVIOUS
<1>2. n \in Nat /\ \A q \in Records, part \in Roles : t.link[q][part] \in 0..n
  BY <1>1, LinksAreIds
<1>3. /\ m \in 1..n /\ s \in 1..n /\ m # 0 /\ s # 0
      /\ Len(u.entity) = n /\ u.entity[m].into = s
      /\ \A e \in 1..n :
           /\ e # m => u.entity[e].into = t.entity[e].into
           /\ u.entity[e].keys = IF e = s THEN t.entity[s].keys \cup t.entity[m].keys
                                 ELSE t.entity[e].keys
  <2>1. m \in 1..n /\ s \in 1..n
    BY <1>1
  <2>2. s # 0 /\ m # 0
    BY <1>2, <2>1
  <2>3. QED
    BY <1>1, <2>1, <2>2 DEF Merging
<1>4. /\ \A r \in Records, role \in Roles :
           u.link[r][role] = IF t.link[r][role] = m THEN s ELSE t.link[r][role]
      /\ u.doubted = t.doubted
      /\ \A x \in 1..n : \A k \in u.entity[x].strong :
           k \in t.entity[x].strong \/ (x = s /\ k \in t.entity[m].strong)
  BY <1>1 DEF Merging, MergingStrong
<1>5. ASSUME NEW q \in Records, NEW part \in Roles, u.link[q][part] # 0
      PROVE  /\ t.link[q][part] # 0
             /\ t.entity[t.link[q][part]].keys \subseteq u.entity[u.link[q][part]].keys
  <2>1. CASE t.link[q][part] = m
    BY <1>3, <1>4, <2>1
  <2>2. CASE t.link[q][part] # m
    <3>1. u.link[q][part] = t.link[q][part] /\ t.link[q][part] \in 0..n
      BY <1>2, <1>4, <2>2
    <3>2. t.link[q][part] \in 1..n
      BY <1>2, <1>5, <3>1
    <3>3. QED
      BY <1>3, <1>5, <3>1, <3>2
  <2>3. QED
    BY <2>1, <2>2
<1>6. KeysHeld(u, said)
  BY <1>5 DEF KeysMeet, KeysHeld
<1>7. StrongBacked(u, said)
  <2>1. SUFFICES ASSUME NEW x \in 1..n, u.entity[x].into = 0, NEW k \in u.entity[x].strong
                 PROVE  \E q \in Records, part \in Roles :
                          u.link[q][part] = x /\ k \in StrongIn(said[q], part)
    BY <1>3 DEF StrongBacked
  <2>2. x # m /\ t.entity[x].into = 0
    BY <1>3, <2>1
  <2>3. PICK y \in 1..n : /\ t.entity[y].into = 0 /\ k \in t.entity[y].strong
                          /\ (IF y = m THEN s ELSE y) = x
    BY <1>1, <1>3, <1>4, <2>1, <2>2
  <2>4. PICK q \in Records, part \in Roles : t.link[q][part] = y /\ k \in StrongIn(said[q], part)
    BY <1>1, <2>3 DEF KeysMeet, StrongBacked
  <2>5. u.link[q][part] = x
    BY <1>4, <2>3, <2>4
  <2>6. QED
    BY <2>4, <2>5
<1>8. Meeting(u, said)
  <2>1. SUFFICES ASSUME NEW r \in Records, NEW role \in Roles, NEW q \in Records, NEW part \in Roles,
                        u.link[r][role] # 0, u.link[q][part] # 0,
                        NEW k \in (StrongIn(said[r], role) \cap StrongIn(said[q], part)) \ u.doubted
                 PROVE  u.link[r][role] = u.link[q][part]
    BY DEF Meeting
  <2>2. t.link[r][role] # 0 /\ t.link[q][part] # 0 /\ k \notin t.doubted
    BY <1>4, <1>5, <2>1
  <2>3. t.link[r][role] = t.link[q][part]
    BY <2>1, <2>2 DEF KeysMeet, Meeting
  <2>4. QED
    BY <1>4, <2>3
<1>9. QED
  BY <1>6, <1>7, <1>8 DEF KeysMeet

LEMMA ResolvingKeepsKeys ==
  ASSUME NEW t, Sound(t, Records), NEW r \in Records, says[r] \in Statements,
         NEW said, said = says, Unlinked(t, r),
         NEW u, NEW v, Resolved(t, u, v, r), KeysMeet(t, said)
  PROVE  KeysMeet(v, said)
<1> USE DEF Roles, Unlinked
<1>1. PICK kind, keys, strong :
        Subject(r, "self", kind, keys, strong) /\ keys \subseteq KeysOf(kind)
  BY SubjectsOfRecord
<1>2. PICK company, theirs, decisive :
        Subject(r, "employer", company, theirs, decisive) /\ theirs \subseteq KeysOf(company)
  BY SubjectsOfRecord
<1>3. PICK d \in Decisions(t.entity, keys, strong) :
        /\ u = Applied(t, r, "self", d)
        /\ \/ v = u
           \/ \E c \in Decisions(u.entity, theirs, decisive) :
                v = Asserted(Applied(u, r, "employer", c), r, c)
  BY <1>1, <1>2 DEF Resolved, Subject
<1>4. Linking(t, u, r, "self", kind, keys, strong, d)
  BY <1>1, <1>3 DEF Linking
<1>5. Sound(u, Records) /\ HasLink(u, r, "self") /\ LinksBut(t, u, r, "self")
  BY <1>4, SubjectKeepsTables
<1>6. KeysMeet(u, said)
  BY <1>4, SubjectKeepsKeys
<1>7. ASSUME NEW c \in Decisions(u.entity, theirs, decisive),
             v = Asserted(Applied(u, r, "employer", c), r, c)
      PROVE  KeysMeet(v, said)
  <2>1. PICK w : w = Applied(u, r, "employer", c)
    OBVIOUS
  <2>2. u.link[r]["employer"] = 0
    BY <1>5 DEF LinksBut
  <2>3. Linking(u, w, r, "employer", company, theirs, decisive, c)
    BY <1>2, <1>5, <2>1, <2>2 DEF Linking, HasLink
  <2>4. KeysMeet(w, said)
    BY <1>5, <1>6, <2>3, SubjectKeepsKeys
  <2>5. Sound(w, Records \ {r}) /\ HasLink(w, r, "employer") /\ LinksBut(u, w, r, "employer")
    BY <1>5, <2>3, SubjectKeepsTables
  <2>6. w.link[r]["self"] # 0 /\ w.link[r]["employer"] # 0
    BY <1>5, <2>5 DEF LinksBut, HasLink
  <2>7. v.entity = w.entity /\ v.link = w.link /\ v.doubted = w.doubted
    <3>1. v = Asserted(w, r, c)
      BY <1>7, <2>1
    <3>2. QED
      BY <2>5, <2>6, <3>1, AssertingBacks
  <2>8. KeysHeld(v, said)
    BY <2>4, <2>7 DEF KeysMeet, KeysHeld
  <2>9. StrongBacked(v, said)
    BY <2>4, <2>7 DEF KeysMeet, StrongBacked
  <2>10. Meeting(v, said)
    BY <2>4, <2>7 DEF KeysMeet, Meeting
  <2>11. QED
    BY <2>8, <2>9, <2>10 DEF KeysMeet
<1>8. QED
  BY <1>3, <1>6, <1>7

LEMMA NextKeepsKeys ==
  ASSUME Inv, KeysMeet(Tables, says), [Next]_vars
  PROVE  KeysMeet(Tables, says)'
<1>1. PICK t, w, said : t = Tables /\ w = Tables' /\ said = says
  OBVIOUS
<1>2. /\ t.entity = entity /\ t.link = link /\ t.cand = cand /\ t.employed = employed
      /\ w.entity = entity' /\ w.link = link' /\ w.cand = cand' /\ w.employed = employed'
      /\ t.doubted = doubted /\ w.doubted = doubted'
  BY <1>1 DEF Tables
<1>3. /\ Sound(t, Records) /\ Pending(t, done) /\ said \in [Records -> Statements]
      /\ KeysMeet(t, said) /\ done \in 0..NumRecords
  BY <1>1 DEF Inv
<1>4. SUFFICES KeysMeet(w, said) /\ says' = says
  BY <1>1
<1>5. ASSUME NEW r \in Records, ResolveRecord(r)
      PROVE  KeysMeet(w, said) /\ says' = says
  <2>1. r = done + 1 /\ UNCHANGED says
    BY <1>5, RecordsAreResolved
  <2>2. PICK u, v : /\ Resolved(t, u, v, r)
                    /\ entity' = v.entity /\ link' = v.link
                    /\ cand' = v.cand /\ employed' = v.employed /\ doubted' = v.doubted
    BY <1>1, <1>5, RecordsAreResolved
  <2>3. r > done
    BY <1>3, <2>1, BoundAssumption
  <2>4. Unlinked(t, r)
    BY <1>3, <2>3 DEF Pending, Unlinked
  <2>5. KeysMeet(v, said)
    BY <1>1, <1>3, <2>2, <2>4, ResolvingKeepsKeys
  <2>6. QED
    BY <1>2, <2>1, <2>2, <2>5 DEF KeysMeet, KeysHeld, StrongBacked, Meeting
<1>6. ASSUME NEW c \in cand, Accept(c)
      PROVE  KeysMeet(w, said) /\ says' = says
  <2>1. PICK m, s : m = Resolve(entity, EntityOfRecord(c)) /\ s = Resolve(entity, c.entity)
    OBVIOUS
  <2>2. /\ m \in 1..Len(entity) /\ entity[m].into = 0
        /\ s \in 1..Len(entity) /\ entity[s].into = 0
        /\ TypedTables(Tables)'
        /\ m = s => UNCHANGED <<entity, link, crossed>>
        /\ m # s => Merging(Tables, Tables', m, s) /\ MergingStrong(Tables, Tables', m, s)
    BY <1>6, <2>1, AcceptingMerges
  <2>3. /\ TypedTables(w) /\ TypedTables(t)
        /\ m # s => Merging(t, w, m, s) /\ MergingStrong(t, w, m, s)
        /\ UNCHANGED <<says, doubted>>
    BY <1>1, <1>3, <1>6, <2>2 DEF Sound, Accept, Decided
  <2>4. CASE m = s
    BY <1>2, <1>3, <2>2, <2>3, <2>4 DEF KeysMeet, KeysHeld, StrongBacked, Meeting
  <2>5. CASE m # s
    BY <1>2, <1>3, <2>2, <2>3, <2>5, MergingKeepsKeys
  <2>6. QED
    BY <2>4, <2>5
<1>7. ASSUME NEW c \in cand, Reject(c)
      PROVE  KeysMeet(w, said) /\ says' = says
  BY <1>2, <1>3, <1>7 DEF Reject, Decided, KeysMeet, KeysHeld, StrongBacked, Meeting
<1>8. CASE UNCHANGED vars
  BY <1>2, <1>3, <1>8 DEF vars, KeysMeet, KeysHeld, StrongBacked, Meeting
<1>9. QED
  BY <1>5, <1>6, <1>7, <1>8 DEF Next

\* "The two halves of what is known about a company" meet (employer.py): subjects that
\* share a decisive key are one entity, whichever rows name them, in whatever order and
\* with however many keys, and whatever stewards merge in between, as long as no subject
\* with that key was looked up when its decisive keys led to two entities, or when the
\* heaviest key that led to the one was not decisive.
THEOREM HalvesDoMeet == Spec => []HalvesMeet
<1> DEFINE Meet == Inv /\ KeysMeet(Tables, says)
<1>1. Init => Meet
  <2>1. Init => Inv
    BY InitKeepsInv
  <2>2. Init => KeysMeet(Tables, says)
    <3> SUFFICES ASSUME Init PROVE KeysMeet(Tables, says)
      OBVIOUS
    <3>1. PICK t, rows : t = Tables /\ rows = t.entity
      OBVIOUS
    <3>2. rows = <<>> /\ t.link = [r \in Records |-> [role \in Roles |-> NoEntity]]
      BY <3>1, TablesAre DEF Init
    <3>3. 1..Len(rows) = {} /\ \A r \in Records, role \in Roles : t.link[r][role] = 0
      BY <3>2 DEF NoEntity
    <3>4. QED
      BY <3>1, <3>3 DEF KeysMeet, KeysHeld, StrongBacked, Meeting
  <2>3. QED
    BY <2>1, <2>2
<1>2. Meet /\ [Next]_vars => Meet'
  BY NextKeepsInv, NextKeepsKeys
<1>3. Meet => HalvesMeet
  <2> SUFFICES ASSUME Meet PROVE HalvesMeet
    OBVIOUS
  <2>1. PICK t, said : t = Tables /\ said = says
    OBVIOUS
  <2>2. t.link = link /\ t.doubted = doubted
    BY <2>1, TablesAre
  <2>3. Meeting(t, said)
    BY <2>1 DEF KeysMeet
  <2>4. \A r \in Records, role \in Roles : StrongSaid(r, role) = StrongIn(said[r], role)
    BY <2>1, SubjectIn
  <2>5. QED
    BY <2>2, <2>3, <2>4 DEF HalvesMeet, Meeting, Linked, NoEntity
<1>4. QED
  BY <1>1, <1>2, <1>3, PTL DEF Spec
=============================================================================
