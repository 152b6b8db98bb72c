----------------------------- MODULE GroupProofs -----------------------------
(***************************************************************************)
(* Proofs about GroupStore, for any number of environments, groups,        *)
(* administrators and revisions: every tree that is read has a path for    *)
(* each of its groups, what is restored is numbered parents first, nothing *)
(* an environment does reaches another one's rows unless a change named    *)
(* one, and each history is a chain that ends in what is there.            *)
(***************************************************************************)
EXTENDS GroupStore, FiniteSetTheorems, WellFoundedInduction, TLAPS

-----------------------------------------------------------------------------
(* Induction and recursion.                                                *)

\* Induction over the subsets of a finite set: inclusion is well founded.
LEMMA SubsetInduction ==
    ASSUME NEW S, IsFiniteSet(S), NEW T,
           \A R \in SUBSET S : (\A Q \in SUBSET R : Q # R => Q \in T) => R \in T
    PROVE  S \in T
<1> DEFINE others == {R \in SUBSET S : R \notin T}
<1>1. ASSUME others # {} PROVE FALSE
  <2>1. others \subseteq FiniteSubsetsOf(S)
    BY FS_Subset DEF FiniteSubsetsOf
  <2>2. PICK R \in others : \A Q \in others : ~(<<Q, R>> \in StrictSubsetOrdering(S))
    <3> HIDE DEF others
    <3> QED BY <1>1, <2>1, FS_StrictSubsetOrderingWellFounded, WFMin
  <2>3. \A Q \in SUBSET R : Q # R => Q \in T
    BY <2>2 DEF StrictSubsetOrdering
  <2> QED BY <2>2, <2>3
<1> QED BY <1>1

\* Induction over the numbers, from all those before.
LEMMA NumberInduction ==
    ASSUME NEW T, \A n \in Nat : (\A m \in 0..(n - 1) : m \in T) => n \in T
    PROVE  \A n \in Nat : n \in T
<1> SUFFICES ASSUME NEW n \in Nat PROVE n \in T
  OBVIOUS
<1> DEFINE Upto == {R \in SUBSET (0..n) : \A k \in 0..n : R = 0..k => k \in T}
<1>1. ASSUME NEW R \in SUBSET (0..n), \A Q \in SUBSET R : Q # R => Q \in Upto
      PROVE  R \in Upto
  <2> SUFFICES ASSUME NEW k \in 0..n, R = 0..k PROVE k \in T
    OBVIOUS
  <2>1. ASSUME NEW m \in 0..(k - 1) PROVE m \in T
    <3>1. 0..m \in SUBSET R /\ 0..m # R /\ m \in 0..n
      BY <2>1
    <3> QED BY <1>1, <3>1
  <2> QED BY <2>1
<1> HIDE DEF Upto
<1>2. IsFiniteSet(0..n)
  BY FS_Interval
<1>3. 0..n \in Upto
  <2> DEFINE U == 0..n
  <2>1. \A R \in SUBSET U : (\A Q \in SUBSET R : Q # R => Q \in Upto) => R \in Upto
    BY <1>1
  <2>2. IsFiniteSet(U)
    BY <1>2
  <2> HIDE DEF U
  <2>3. U \in Upto
    BY <2>1, <2>2, SubsetInduction
  <2> QED BY <2>3 DEF U
<1> QED BY <1>3 DEF Upto

\* A function on 0..N whose value at n rests on its values below n, as G says.
RestsBelow(N, D, G) ==
    /\ D # {}
    /\ G \in [0..N -> [[0..N -> D] -> D]]
    /\ \A n \in 0..N : \A f, h \in [0..N -> D] :
          (\A m \in 0..(n - 1) : f[m] = h[m]) => G[n][f] = G[n][h]

IsRecursive(N, D, G, f) == f \in [0..N -> D] /\ \A n \in 0..N : f[n] = G[n][f]

LEMMA Recursion ==
    ASSUME NEW N \in Nat, NEW D, NEW G, RestsBelow(N, D, G)
    PROVE  \E f : IsRecursive(N, D, G, f)
<1> USE DEF RestsBelow
<1> DEFINE T == {n \in Nat : n <= N =>
                    \E f \in [0..N -> D] : \A m \in 0..n : f[m] = G[m][f]}
<1>1. ASSUME NEW n \in Nat, \A m \in 0..(n - 1) : m \in T PROVE n \in T
  <2> SUFFICES ASSUME n <= N PROVE \E f \in [0..N -> D] : \A m \in 0..n : f[m] = G[m][f]
    OBVIOUS
  <2>1. PICK f \in [0..N -> D] : \A m \in 0..(n - 1) : f[m] = G[m][f]
    <3>1. CASE n = 0
      <4>1. PICK d \in D : TRUE
        OBVIOUS
      <4>2. [i \in 0..N |-> d] \in [0..N -> D]
        BY <4>1
      <4>3. 0..(n - 1) = {}
        BY <3>1
      <4> QED BY <4>2, <4>3
    <3>2. CASE n # 0
      <4>1. n - 1 \in 0..(n - 1) /\ n - 1 <= N
        BY <3>2
      <4> QED BY <1>1, <4>1
    <3> QED BY <3>1, <3>2
  <2> DEFINE g == [f EXCEPT ![n] = G[n][f]]
  <2>2. n \in 0..N /\ G[n][f] \in D
    OBVIOUS
  <2>3. /\ g \in [0..N -> D] /\ g[n] = G[n][f]
        /\ \A m \in 0..(n - 1) : g[m] = f[m]
    BY <2>2
  <2> HIDE DEF g
  <2>4. ASSUME NEW m \in 0..n PROVE g[m] = G[m][g]
    <3>1. \A i \in 0..(m - 1) : g[i] = f[i]
      BY <2>3
    <3>2. m \in 0..N
      BY <2>2
    <3>3. G[m][g] = G[m][f]
      BY <2>3, <3>1, <3>2
    <3> QED BY <2>1, <2>3, <3>3
  <2> QED BY <2>3, <2>4
<1> HIDE DEF T
<1>2. N \in T
  BY <1>1, NumberInduction
<1> QED BY <1>2 DEF T, IsRecursive

-----------------------------------------------------------------------------
(* Finite sets.                                                            *)

\* What a finite set has that counts most.
LEMMA HasLargest ==
    ASSUME NEW S, IsFiniteSet(S), S # {}, NEW size \in [S -> Nat]
    PROVE  \E x \in S : \A y \in S : size[y] <= size[x]
<1> DEFINE T == {R \in SUBSET S : R # {} => \E x \in R : \A y \in R : size[y] <= size[x]}
<1>1. ASSUME NEW R \in SUBSET S, \A Q \in SUBSET R : Q # R => Q \in T PROVE R \in T
  <2> SUFFICES ASSUME R # {} PROVE \E x \in R : \A y \in R : size[y] <= size[x]
    OBVIOUS
  <2>1. PICK z \in R : TRUE
    OBVIOUS
  <2>2. R \ {z} \in T
    BY <1>1
  <2>3. CASE R \ {z} = {}
    <3>1. \A y \in R : y = z
      BY <2>3
    <3> QED BY <2>1, <3>1
  <2>4. CASE R \ {z} # {}
    <3>1. PICK x \in R \ {z} : \A y \in R \ {z} : size[y] <= size[x]
      BY <2>2, <2>4
    <3>2. size[x] \in Nat /\ size[z] \in Nat /\ \A y \in R : size[y] \in Nat
      OBVIOUS
    <3>3. CASE size[z] <= size[x]
      BY <3>1, <3>3
    <3>4. CASE size[x] <= size[z]
      <4>1. \A y \in R : size[y] <= size[z]
        BY <3>1, <3>2, <3>4
      <4> QED BY <4>1
    <3> QED BY <3>2, <3>3, <3>4
  <2> QED BY <2>3, <2>4
<1> HIDE DEF T
<1>2. S \in T
  BY <1>1, SubsetInduction
<1> QED BY <1>2 DEF T

\* A finite set can be numbered so that what is smaller comes first.
LEMMA SmallerFirst ==
    ASSUME NEW S, IsFiniteSet(S), NEW size \in [S -> Nat]
    PROVE  \E f \in [S -> 1..Cardinality(S)] :
              \A x, y \in S : /\ f[x] = f[y] => x = y
                              /\ size[x] < size[y] => f[x] < f[y]
<1> DEFINE Good(R, f) ==
              \A x, y \in R : /\ f[x] = f[y] => x = y
                              /\ size[x] < size[y] => f[x] < f[y]
           T == {R \in SUBSET S : \E f \in [R -> 1..Cardinality(R)] : Good(R, f)}
<1>1. ASSUME NEW R \in SUBSET S, \A Q \in SUBSET R : Q # R => Q \in T PROVE R \in T
  <2>1. IsFiniteSet(R) /\ Cardinality(R) \in Nat
    BY FS_Subset, FS_CardinalityType
  <2>2. CASE R = {}
    <3>1. [x \in R |-> 1] \in [R -> 1..Cardinality(R)]
      BY <2>2
    <3> QED BY <2>2, <3>1
  <2>3. CASE R # {}
    <3>1. PICK z \in R : \A y \in R : size[y] <= size[z]
      <4>1. [x \in R |-> size[x]] \in [R -> Nat]
        OBVIOUS
      <4>2. \E x \in R : \A y \in R : [w \in R |-> size[w]][y] <= [w \in R |-> size[w]][x]
        BY <2>1, <2>3, <4>1, HasLargest
      <4> QED BY <4>2
    <3> DEFINE Q == R \ {z}
               n == Cardinality(R)
    <3>2. Q \in T /\ Cardinality(Q) = n - 1 /\ n - 1 \in Nat /\ n \in Nat
      <4>1. Q \in T
        <5>1. Q \in SUBSET R /\ Q # R
          OBVIOUS
        <5> HIDE DEF T, Q
        <5> QED BY <1>1, <5>1
      <4>2. Cardinality(Q) = n - 1 /\ Cardinality(Q) \in Nat
        BY <2>1, FS_RemoveElement, FS_CardinalityType
      <4> QED BY <2>1, <4>1, <4>2
    <3>3. PICK f \in [Q -> 1..Cardinality(Q)] : Good(Q, f)
      BY <3>2
    <3> HIDE DEF n
    <3>4. \A x \in Q : f[x] \in 1..n /\ f[x] < n /\ x # z
      BY <3>2, <3>3
    <3> DEFINE g == [x \in R |-> IF x = z THEN n ELSE f[x]]
    <3>5. g[z] = n /\ \A x \in Q : g[x] = f[x]
      OBVIOUS
    <3>6. g \in [R -> 1..n]
      BY <3>2, <3>4
    <3> HIDE DEF g
    <3>7. ASSUME NEW x \in R, NEW y \in R
          PROVE  (g[x] = g[y] => x = y) /\ (size[x] < size[y] => g[x] < g[y])
      <4>0. size[x] \in Nat /\ size[y] \in Nat /\ size[z] \in Nat
        OBVIOUS
      <4>1. CASE x = z /\ y = z
        BY <4>0, <4>1
      <4>2. CASE x = z /\ y # z
        <5>1. g[x] = n /\ g[y] = f[y] /\ f[y] < n /\ f[y] \in 1..n
          BY <3>4, <3>5, <4>2
        <5>2. ~(size[x] < size[y])
          BY <3>1, <4>0, <4>2
        <5> QED BY <3>2, <5>1, <5>2
      <4>3. CASE x # z /\ y = z
        <5>1. g[y] = n /\ g[x] = f[x] /\ f[x] < n /\ f[x] \in 1..n
          BY <3>4, <3>5, <4>3
        <5> QED BY <3>2, <5>1
      <4>4. CASE x # z /\ y # z
        <5>1. g[x] = f[x] /\ g[y] = f[y] /\ x \in Q /\ y \in Q
          BY <3>5, <4>4
        <5> QED BY <3>3, <5>1
      <4> QED BY <4>1, <4>2, <4>3, <4>4
    <3>8. Good(R, g)
      BY <3>7
    <3> QED BY <3>6, <3>8 DEF n
  <2> QED BY <2>2, <2>3
<1> HIDE DEF T
<1>2. S \in T
  BY <1>1, SubsetInduction
<1> QED BY <1>2 DEF T

-----------------------------------------------------------------------------
(* Paths.                                                                  *)

\* A parent is an older row than its child.
Rooted(table) == table \subseteq GroupRows /\ \A g \in table : g.parent < g.row

\* The function a path is read from.
UpFrom(table, n, up) ==
    up = [row \in 0..n |->
            IF ~\E p \in table : p.row = row THEN <<>>
            ELSE LET p == CHOOSE p \in table : p.row = row
                 IN Append(up[p.parent], p.name)]

LEMMA ParentBelow ==
    ASSUME NEW table, Rooted(table), NEW n \in Nat, NEW row \in 0..n, \E p \in table : p.row = row
    PROVE  LET p == CHOOSE p \in table : p.row = row
           IN  p.parent \in 0..n /\ p.parent < row /\ p.parent \in 0..(row - 1)
               /\ p.name \in GroupNames
<1> DEFINE p == CHOOSE p \in table : p.row = row
<1>1. p \in table /\ p.row = row
  OBVIOUS
<1> HIDE DEF p
<1>2. p \in GroupRows /\ p.parent < row
  BY <1>1 DEF Rooted
<1>3. p.parent \in Nat /\ p.name \in GroupNames
  BY <1>2, GroupStoreAssumption DEF GroupRows
<1> QED BY <1>2, <1>3 DEF p

LEMMA PathsExist ==
    ASSUME NEW table, Rooted(table), NEW n \in Nat
    PROVE  \E up : UpFrom(table, n, up)
<1> DEFINE D == Seq(GroupNames)
           has(row) == \E p \in table : p.row = row
           at(row) == CHOOSE p \in table : p.row = row
           G == [row \in 0..n |-> [f \in [0..n -> D] |->
                    IF ~has(row) THEN <<>> ELSE Append(f[at(row).parent], at(row).name)]]
<1>1. \A row \in 0..n : has(row) =>
          /\ at(row).parent \in 0..n /\ at(row).parent \in 0..(row - 1)
          /\ at(row).name \in GroupNames
  BY ParentBelow
<1>2. <<>> \in D
  OBVIOUS
<1> HIDE DEF has, at
<1>3. ASSUME NEW row \in 0..n, NEW f \in [0..n -> D]
      PROVE  (IF ~has(row) THEN <<>> ELSE Append(f[at(row).parent], at(row).name)) \in D
  <2>1. CASE has(row)
    <3>1. f[at(row).parent] \in Seq(GroupNames) /\ at(row).name \in GroupNames
      BY <1>1, <2>1
    <3> QED BY <2>1, <3>1
  <2> QED BY <1>2, <2>1
<1> HIDE DEF D
<1>4. G \in [0..n -> [[0..n -> D] -> D]]
  BY <1>3
<1>5. \A row \in 0..n : \A f \in [0..n -> D] :
          G[row][f] = IF ~has(row) THEN <<>> ELSE Append(f[at(row).parent], at(row).name)
  OBVIOUS
<1> HIDE DEF G
<1>6. ASSUME NEW row \in 0..n, NEW f \in [0..n -> D], NEW h \in [0..n -> D],
             \A m \in 0..(row - 1) : f[m] = h[m]
      PROVE  G[row][f] = G[row][h]
  BY <1>1, <1>5, <1>6
<1>7. RestsBelow(n, D, G)
  <2>1. D # {}
    BY <1>2
  <2> QED BY <1>4, <1>6, <2>1 DEF RestsBelow
<1>8. PICK up : IsRecursive(n, D, G, up)
  BY <1>7, Recursion
<1>9. \A row \in 0..n :
          up[row] = IF ~has(row) THEN <<>> ELSE Append(up[at(row).parent], at(row).name)
  BY <1>5, <1>8 DEF IsRecursive
<1>10. up = [row \in 0..n |-> IF ~has(row) THEN <<>>
                             ELSE Append(up[at(row).parent], at(row).name)]
  BY <1>8, <1>9 DEF IsRecursive
<1>11. UpFrom(table, n, up)
  BY <1>10 DEF UpFrom, has, at
<1> QED BY <1>11

\* Every group of a table has a path, and it is not empty.
LEMMA PathFits ==
    ASSUME NEW table, Rooted(table), NEW g \in table
    PROVE  Path(table, g) \in Seq(GroupNames) \ {<<>>}
<1> DEFINE up == CHOOSE up : UpFrom(table, g.row, up)
           has(row) == \E p \in table : p.row = row
           at(row) == CHOOSE p \in table : p.row = row
<1>1. g.row \in Nat
  BY GroupStoreAssumption DEF Rooted, GroupRows
<1>2. Path(table, g) = up[g.row]
  BY DEF Path, UpFrom
<1>3. UpFrom(table, g.row, up)
  BY <1>1, PathsExist
<1>4. \A row \in 0..g.row : has(row) =>
          /\ at(row).parent \in 0..g.row /\ at(row).parent \in 0..(row - 1)
          /\ at(row).name \in GroupNames
  BY <1>1, ParentBelow
<1> HIDE DEF up
<1>5. \A row \in 0..g.row :
          up[row] = IF ~has(row) THEN <<>> ELSE Append(up[at(row).parent], at(row).name)
  BY <1>3 DEF UpFrom
<1> HIDE DEF at
<1> DEFINE T == {n \in Nat : n <= g.row => up[n] \in Seq(GroupNames)}
<1>6. ASSUME NEW n \in Nat, \A m \in 0..(n - 1) : m \in T PROVE n \in T
  <2> SUFFICES ASSUME n <= g.row PROVE up[n] \in Seq(GroupNames)
    OBVIOUS
  <2>1. n \in 0..g.row
    BY <1>1
  <2> HIDE DEF has
  <2>2. CASE has(n)
    <3>1. at(n).parent \in 0..(n - 1) /\ at(n).parent \in 0..g.row /\ at(n).name \in GroupNames
      BY <1>4, <2>1, <2>2
    <3>2. up[at(n).parent] \in Seq(GroupNames)
      BY <1>1, <1>6, <3>1
    <3>3. up[n] = Append(up[at(n).parent], at(n).name)
      BY <1>5, <2>1, <2>2, Zenon
    <3> QED BY <3>1, <3>2, <3>3
  <2>3. CASE ~has(n)
    <3>1. up[n] = <<>>
      BY <1>5, <2>1, <2>3, Zenon
    <3> QED BY <3>1
  <2> QED BY <2>2, <2>3
<1> HIDE DEF T
<1>7. \A n \in Nat : n \in T
  BY <1>6, NumberInduction
<1>8. has(g.row) /\ g.row \in 0..g.row
  BY <1>1
<1>9. at(g.row).parent \in Nat /\ at(g.row).parent <= g.row /\ at(g.row).name \in GroupNames
  BY <1>1, <1>4, <1>8
<1>10. up[at(g.row).parent] \in Seq(GroupNames)
  BY <1>7, <1>9 DEF T
<1>11. up[g.row] = Append(up[at(g.row).parent], at(g.row).name)
  BY <1>5, <1>8
<1> QED BY <1>2, <1>9, <1>10, <1>11

-----------------------------------------------------------------------------
(* Trees.                                                                  *)

Branches == [row : 1..MaxSerial, path : Seq(GroupNames) \ {<<>>}, value : Values]
Trees == [groups : FiniteSubsetsOf(Branches), selectors : FiniteSubsetsOf(SelectorRows)]

\* The rows of the two tables when the last id given out is last.
RowsFit(table, sels, last) ==
    /\ Rooted(table) /\ IsFiniteSet(table)
    /\ sels \subseteq SelectorRows /\ IsFiniteSet(sels)
    /\ \A g \in table : g.row <= last
    /\ \A g, h \in table : g.row = h.row => g = h
    /\ \A s \in sels : s.target <= last

LEMMA RowTypes ==
    /\ \A g \in GroupRows : /\ g.row \in 1..MaxSerial /\ g.row \in Nat /\ g.env \in Environments
                            /\ g.parent \in 0..MaxSerial /\ g.name \in GroupNames
                            /\ g.value \in Values
    /\ \A s \in SelectorRows : s.target \in 1..MaxSerial /\ s.all \in BOOLEAN
    /\ MaxSerial \in Nat
BY GroupStoreAssumption DEF GroupRows, SelectorRows

\* What is made of each member of a finite set.
LEMMA ImageFinite ==
    ASSUME NEW S, IsFiniteSet(S), NEW f, DOMAIN f = S
    PROVE  IsFiniteSet({f[x] : x \in S})
<1> DEFINE T == {f[x] : x \in S}
           g == [x \in S |-> f[x]]
<1>1. g \in [S -> T] /\ \A y \in T : \E x \in S : g[x] = y
  OBVIOUS
<1> HIDE DEF g, T
<1>2. g \in Surjection(S, T)
  BY <1>1 DEF Surjection
<1>3. IsFiniteSet(T)
  BY <1>2, FS_Surjection
<1> QED BY <1>3 DEF T

\* What is read is a tree.
LEMMA TreeFits ==
    ASSUME NEW env, NEW table, NEW sels, NEW last, RowsFit(table, sels, last)
    PROVE  Tree(env, table, sels) \in Trees
<1> DEFINE own == Of(env, table)
           branch == [g \in own |-> [row |-> g.row, path |-> Path(own, g), value |-> g.value]]
           targets == {g.row : g \in own}
           kept == {s \in sels : s.target \in targets}
<1>1. own \in SUBSET table /\ Rooted(own) /\ IsFiniteSet(own)
  <2>1. own \in SUBSET table
    BY DEF Of
  <2> QED BY <2>1, FS_Subset DEF RowsFit, Rooted
<1> HIDE DEF own
<1>2. \A g \in own : branch[g] \in Branches
  <2> SUFFICES ASSUME NEW g \in own PROVE branch[g] \in Branches
    OBVIOUS
  <2>1. Path(own, g) \in Seq(GroupNames) \ {<<>>}
    BY <1>1, PathFits
  <2>2. g.row \in 1..MaxSerial /\ g.value \in Values
    BY <1>1, RowTypes DEF Rooted
  <2> QED BY <2>1, <2>2 DEF Branches
<1>3. {branch[g] : g \in own} \in FiniteSubsetsOf(Branches)
  <2>1. DOMAIN branch = own
    OBVIOUS
  <2> HIDE DEF branch
  <2>2. IsFiniteSet({branch[g] : g \in own})
    BY <1>1, <2>1, ImageFinite
  <2> QED BY <1>2, <2>2 DEF FiniteSubsetsOf
<1>4. kept \in FiniteSubsetsOf(SelectorRows)
  <2>1. kept \in SUBSET sels
    OBVIOUS
  <2> HIDE DEF kept
  <2> QED BY <2>1, FS_Subset DEF FiniteSubsetsOf, RowsFit
<1>5. {branch[g] : g \in own} =
         {[row |-> g.row, path |-> Path(own, g), value |-> g.value] : g \in own}
  OBVIOUS
<1>6. Tree(env, table, sels) = [groups |-> {branch[g] : g \in own}, selectors |-> kept]
  BY <1>5 DEF Tree, own
<1> HIDE DEF branch, kept
<1> QED BY <1>3, <1>4, <1>6 DEF Trees

\* A tree depends on its own environment's rows and on the selectors of those.
LEMMA SameTree ==
    ASSUME NEW env, NEW table, NEW sels, NEW table2, NEW sels2,
           Of(env, table2) = Of(env, table),
           \A s : s \in sels2 /\ s.target \in {g.row : g \in Of(env, table)} <=>
                  s \in sels /\ s.target \in {g.row : g \in Of(env, table)}
    PROVE  Tree(env, table2, sels2) = Tree(env, table, sels)
<1> DEFINE targets == {g.row : g \in Of(env, table)}
<1>1. {s \in sels2 : s.target \in targets} = {s \in sels : s.target \in targets}
  <2> HIDE DEF targets
  <2>1. \A s : s \in sels2 /\ s.target \in targets <=> s \in sels /\ s.target \in targets
    BY DEF targets
  <2> QED BY <2>1
<1> QED BY <1>1 DEF Tree

-----------------------------------------------------------------------------
(* The cascade.                                                            *)

\* The parent of a group, when it is a row, is one of the group's environment.
OwnParents(table) == \A g, h \in table : g.parent = h.row => g.env = h.env

Under(row, n, under) ==
    under = [r \in 0..n |-> IF r = row THEN TRUE
                ELSE \E g \in groups : g.row = r /\ g.parent # NoRow /\ under[g.parent]]

LEMMA UnderExists ==
    ASSUME Rooted(groups), NEW row, NEW n \in Nat, \A g \in groups : g.row <= n
    PROVE  \E under : Under(row, n, under)
<1> DEFINE below(r, f) == \E g \in groups : g.row = r /\ g.parent # NoRow /\ f[g.parent]
           G == [r \in 0..n |-> [f \in [0..n -> BOOLEAN] |-> r = row \/ below(r, f)]]
<1>1. \A g \in groups : g.row \in Nat /\ g.parent \in 0..(g.row - 1) /\ g.parent \in 0..n
  BY RowTypes DEF Rooted
<1>2. \A r \in 0..n : \A f \in [0..n -> BOOLEAN] : G[r][f] = (r = row \/ below(r, f))
  OBVIOUS
<1>3. G \in [0..n -> [[0..n -> BOOLEAN] -> BOOLEAN]]
  OBVIOUS
<1>4. ASSUME NEW r \in 0..n, NEW f \in [0..n -> BOOLEAN], NEW h \in [0..n -> BOOLEAN],
             \A m \in 0..(r - 1) : f[m] = h[m]
      PROVE  below(r, f) <=> below(r, h)
  <2>1. \A g \in groups : g.row = r => f[g.parent] = h[g.parent]
    BY <1>1, <1>4
  <2> QED BY <2>1
<1> HIDE DEF below, G
<1>5. RestsBelow(n, BOOLEAN, G)
  <2>1. ASSUME NEW r \in 0..n, NEW f \in [0..n -> BOOLEAN], NEW h \in [0..n -> BOOLEAN],
               \A m \in 0..(r - 1) : f[m] = h[m]
        PROVE  G[r][f] = G[r][h]
    BY <1>2, <1>4, <2>1
  <2>2. BOOLEAN # {}
    OBVIOUS
  <2> QED BY <1>3, <2>1, <2>2 DEF RestsBelow
<1>6. PICK f : IsRecursive(n, BOOLEAN, G, f)
  BY <1>5, Recursion
<1>7. \A r \in 0..n : f[r] = IF r = row THEN TRUE ELSE below(r, f)
  <2> SUFFICES ASSUME NEW r \in 0..n PROVE f[r] = IF r = row THEN TRUE ELSE below(r, f)
    OBVIOUS
  <2>1. f[r] = (r = row \/ below(r, f))
    BY <1>2, <1>6 DEF IsRecursive
  <2>2. below(r, f) \in BOOLEAN
    BY DEF below
  <2> QED BY <2>1, <2>2
<1>8. f = [r \in 0..n |-> IF r = row THEN TRUE ELSE below(r, f)]
  BY <1>6, <1>7 DEF IsRecursive
<1> QED BY <1>8 DEF Under, below

\* What a delete takes with it is of the environment of what it was asked for,
\* as long as parents are.
LEMMA DoomedStay ==
    ASSUME NEW sels, NEW last, RowsFit(groups, sels, last), OwnParents(groups),
           NEW row, NEW g \in groups, g.row = row
    PROVE  \A h \in groups : h.row \in Doomed(row) => h.env = g.env
<1> DEFINE under == CHOOSE under : Under(row, MaxSerial, under)
<1>1. \A h \in groups : /\ h.row \in 0..MaxSerial /\ h.row \in Nat
                        /\ h.parent \in 0..(h.row - 1) /\ h.parent \in 0..MaxSerial
  BY RowTypes DEF RowsFit, Rooted
<1>2. Doomed(row) = {r \in 1..MaxSerial : under[r]}
  BY DEF Doomed, Under
<1>3. Under(row, MaxSerial, under)
  <2>1. Rooted(groups) /\ MaxSerial \in Nat /\ \A h \in groups : h.row <= MaxSerial
    BY <1>1, RowTypes DEF RowsFit
  <2> QED BY <2>1, UnderExists
<1> HIDE DEF under
<1>4. \A r \in 0..MaxSerial : under[r] /\ r # row =>
          \E h \in groups : h.row = r /\ h.parent # NoRow /\ under[h.parent]
  BY <1>3 DEF Under
<1> DEFINE T == {n \in Nat : n <= MaxSerial /\ under[n] =>
                    \A h \in groups : h.row = n => h.env = g.env}
<1>5. ASSUME NEW n \in Nat, \A m \in 0..(n - 1) : m \in T PROVE n \in T
  <2> SUFFICES ASSUME n <= MaxSerial, under[n], NEW h \in groups, h.row = n
               PROVE  h.env = g.env
    OBVIOUS
  <2>1. CASE n = row
    BY <2>1 DEF RowsFit
  <2>2. CASE n # row
    <3>1. n \in 0..MaxSerial
      BY RowTypes
    <3>2. PICK p \in groups : p.row = n /\ under[p.parent]
      BY <1>4, <2>2, <3>1
    <3>3. p = h
      BY <3>2 DEF RowsFit
    <3>4. h.parent \in 0..(n - 1) /\ h.parent \in 0..MaxSerial /\ h.parent \in Nat
      BY <1>1
    <3>5. h.parent \in T
      BY <1>5, <3>4
    <3>6. \A q \in groups : q.row = h.parent => q.env = g.env
      BY <3>2, <3>3, <3>4, <3>5
    <3>7. \E q \in groups : q.row = h.parent
      <4>1. CASE h.parent = row
        BY <4>1
      <4>2. CASE h.parent # row
        BY <1>4, <3>2, <3>3, <3>4, <4>2
      <4> QED BY <4>1, <4>2
    <3>8. PICK q \in groups : q.row = h.parent
      BY <3>7
    <3>9. h.env = q.env
      BY <3>8 DEF OwnParents
    <3> QED BY <3>6, <3>8, <3>9
  <2> QED BY <2>1, <2>2
<1> HIDE DEF T
<1>6. \A n \in Nat : n \in T
  BY <1>5, NumberInduction
<1>7. ASSUME NEW h \in groups, h.row \in Doomed(row) PROVE h.env = g.env
  <2>1. under[h.row] /\ h.row <= MaxSerial /\ h.row \in Nat
    BY <1>1, <1>2, <1>7
  <2>2. h.row \in T
    BY <1>6, <2>1
  <2> QED BY <2>1, <2>2 DEF T
<1> QED BY <1>7

-----------------------------------------------------------------------------
(* What a revert restores.                                                 *)

\* Parents get the smaller ids.
LEMMA OrderExists ==
    ASSUME NEW snapshot \in Trees
    PROVE  /\ Cardinality(snapshot.groups) \in Nat
           /\ \E f \in [snapshot.groups -> 1..Cardinality(snapshot.groups)] :
                 \A g, h \in snapshot.groups :
                    /\ f[g] = f[h] => g = h
                    /\ Len(g.path) < Len(h.path) => f[g] < f[h]
<1> DEFINE S == snapshot.groups
           size == [g \in S |-> Len(g.path)]
<1>1. IsFiniteSet(S) /\ S \subseteq Branches
  BY DEF Trees, FiniteSubsetsOf
<1>2. size \in [S -> Nat]
  BY <1>1 DEF Branches
<1>3. \A g \in S : size[g] = Len(g.path)
  OBVIOUS
<1> HIDE DEF S, size
<1>4. \E f \in [S -> 1..Cardinality(S)] :
          \A x, y \in S : (f[x] = f[y] => x = y) /\ (size[x] < size[y] => f[x] < f[y])
  BY <1>1, <1>2, SmallerFirst
<1>5. Cardinality(S) \in Nat
  BY <1>1, FS_CardinalityType
<1>6. \E f \in [S -> 1..Cardinality(S)] :
          \A x, y \in S : (f[x] = f[y] => x = y) /\ (Len(x.path) < Len(y.path) => f[x] < f[y])
  BY <1>3, <1>4
<1> QED BY <1>5, <1>6 DEF S

LEMMA PlaceExists ==
    ASSUME NEW S, IsFiniteSet(S)
    PROVE  /\ Cardinality(S) \in Nat
           /\ \E f \in [S -> 1..Cardinality(S)] : \A s, t \in S : f[s] = f[t] => s = t
<1>1. [s \in S |-> 0] \in [S -> Nat]
  OBVIOUS
<1>2. \E f \in [S -> 1..Cardinality(S)] : \A x, y \in S : f[x] = f[y] => x = y
  <2> DEFINE size == [s \in S |-> 0]
  <2>1. size \in [S -> Nat]
    OBVIOUS
  <2> HIDE DEF size
  <2>2. PICK f \in [S -> 1..Cardinality(S)] :
            \A x, y \in S : (f[x] = f[y] => x = y) /\ (size[x] < size[y] => f[x] < f[y])
    BY <2>1, SmallerFirst
  <2> QED BY <2>2
<1> QED BY <1>2, FS_CardinalityType

\* The groups of a snapshot under their new ids.
NewGroups(env, S, order) ==
    LET parent(g) == {p \in S : Len(g.path) = Len(p.path) + 1 /\ Beneath(p, g)}
    IN  {[row |-> serial + order[g], env |-> env, name |-> g.path[Len(g.path)],
          value |-> g.value,
          parent |-> IF parent(g) = {} THEN NoRow
                     ELSE serial + order[CHOOSE p \in parent(g) : TRUE]] : g \in S}

IsOrder(S, f) ==
    /\ f \in [S -> 1..Cardinality(S)]
    /\ \A g, h \in S : /\ f[g] = f[h] => g = h
                       /\ Len(g.path) < Len(h.path) => f[g] < f[h]

LEMMA RestoredGroups ==
    ASSUME NEW env \in Environments, NEW snapshot \in Trees, serial \in Nat,
           serial + Cardinality(snapshot.groups) <= MaxSerial,
           NEW order, IsOrder(snapshot.groups, order)
    PROVE  LET made == NewGroups(env, snapshot.groups, order)
           IN  /\ made \subseteq GroupRows /\ IsFiniteSet(made)
               /\ \A g \in made : /\ g.env = env /\ g.row > serial
                                  /\ g.row <= serial + Cardinality(snapshot.groups)
                                  /\ g.parent < g.row /\ (g.parent > serial \/ g.parent = NoRow)
               /\ \A g, h \in made : g.row = h.row => g = h
<1> DEFINE S == snapshot.groups
           n == Cardinality(S)
           parent(g) == {p \in S : Len(g.path) = Len(p.path) + 1 /\ Beneath(p, g)}
           above(g) == IF parent(g) = {} THEN NoRow
                       ELSE serial + order[CHOOSE p \in parent(g) : TRUE]
           new(g) == [row |-> serial + order[g], env |-> env, name |-> g.path[Len(g.path)],
                      value |-> g.value, parent |-> above(g)]
           make == [g \in S |-> new(g)]
<1>1. IsFiniteSet(S) /\ S \subseteq Branches /\ n \in Nat
  BY OrderExists DEF Trees, FiniteSubsetsOf
<1>2. /\ \A g \in S : order[g] \in 1..n
      /\ \A g, h \in S : /\ order[g] = order[h] => g = h
                         /\ Len(g.path) < Len(h.path) => order[g] < order[h]
  BY DEF IsOrder
<1>3. ASSUME NEW g \in S
      PROVE  /\ above(g) \in Nat /\ above(g) < serial + order[g]
             /\ above(g) > serial \/ above(g) = NoRow
  <2>1. CASE parent(g) = {}
    BY <1>1, <1>2, <2>1 DEF NoRow
  <2>2. CASE parent(g) # {}
    <3> DEFINE p == CHOOSE p \in parent(g) : TRUE
    <3>1. p \in parent(g)
      BY <2>2
    <3> HIDE DEF p
    <3>2. p \in S /\ Len(g.path) = Len(p.path) + 1
      BY <3>1
    <3>3. Len(p.path) \in Nat /\ Len(g.path) \in Nat
      BY <1>1, <3>2 DEF Branches
    <3>4. order[p] < order[g] /\ order[p] \in 1..n /\ order[g] \in 1..n
      BY <1>2, <3>2, <3>3
    <3>5. above(g) = serial + order[p]
      BY <2>2 DEF p
    <3> HIDE DEF above
    <3> QED BY <1>1, <3>4, <3>5
  <2> QED BY <2>1, <2>2
<1>4. \A g \in S : g.path[Len(g.path)] \in GroupNames /\ g.value \in Values
  <2> SUFFICES ASSUME NEW g \in S PROVE g.path[Len(g.path)] \in GroupNames /\ g.value \in Values
    OBVIOUS
  <2>1. g.path \in Seq(GroupNames) /\ g.path # <<>> /\ g.value \in Values
    BY <1>1 DEF Branches
  <2>2. Len(g.path) \in 1..Len(g.path)
    BY <2>1
  <2> QED BY <2>1, <2>2
<1> HIDE DEF above
<1>5. \A g \in S : make[g] = new(g)
  OBVIOUS
<1>6. DOMAIN make = S
  OBVIOUS
<1> HIDE DEF make
<1>7. ASSUME NEW g \in S
      PROVE  /\ make[g] \in GroupRows /\ make[g].env = env
             /\ make[g].row = serial + order[g] /\ make[g].parent = above(g)
  <2>1. serial + order[g] \in 1..MaxSerial /\ above(g) \in 0..MaxSerial
    BY <1>1, <1>2, <1>3, RowTypes
  <2>2. g.path[Len(g.path)] \in GroupNames /\ g.value \in Values
    BY <1>4
  <2>3. new(g) \in GroupRows
    BY <2>1, <2>2 DEF GroupRows
  <2>4. new(g).env = env /\ new(g).row = serial + order[g] /\ new(g).parent = above(g)
    OBVIOUS
  <2> HIDE DEF new
  <2> QED BY <1>5, <2>3, <2>4
<1> DEFINE made == {make[g] : g \in S}
<1>8. IsFiniteSet(made)
  BY <1>1, <1>6, ImageFinite
<1>9. made \subseteq GroupRows
  BY <1>7
<1>10. ASSUME NEW g \in S
       PROVE  /\ make[g].env = env /\ make[g].row > serial /\ make[g].row <= serial + n
              /\ make[g].parent < make[g].row
              /\ make[g].parent > serial \/ make[g].parent = NoRow
  <2> HIDE DEF n
  <2> QED BY <1>1, <1>2, <1>3, <1>7
<1>11. ASSUME NEW g \in S, NEW h \in S, make[g].row = make[h].row PROVE make[g] = make[h]
  <2>1. order[g] = order[h]
    <3> HIDE DEF n
    <3> QED BY <1>2, <1>7, <1>11
  <2> QED BY <1>2, <2>1
<1>12. made = {new(g) : g \in S}
  <2> HIDE DEF new
  <2> QED BY <1>5
<1>13. /\ made \subseteq GroupRows /\ IsFiniteSet(made)
       /\ \A g \in made : /\ g.env = env /\ g.row > serial /\ g.row <= serial + n
                          /\ g.parent < g.row /\ (g.parent > serial \/ g.parent = NoRow)
       /\ \A g, h \in made : g.row = h.row => g = h
  BY <1>8, <1>9, <1>10, <1>11
<1> HIDE DEF made
<1> QED BY <1>12, <1>13 DEF above, NewGroups

\* The parts of what is restored, named.
Returning(env) == {g.row : g \in Of(env, groups)}
Falling(env) == UNION {Doomed(row) : row \in Returning(env)}

\* What stays of the tables when an environment's rows are deleted.
StaysOf(env, table, sels) ==
    /\ {g \in groups : g.row \notin Falling(env)} \subseteq table
    /\ {s \in selectors : s.target \notin Falling(env)} \subseteq sels
    /\ \A g \in table : \/ g \in groups /\ g.row \notin Falling(env)
                        \/ g.row > serial /\ g.env = env
    /\ \A s \in sels : \/ s \in selectors /\ s.target \notin Falling(env)
                       \/ s.target > serial

\* The rows a revert leaves are rows, and none of them is new but its own.
LEMMA RestoredFits ==
    ASSUME NEW env \in Environments, NEW snapshot \in Trees, serial \in Nat,
           RowsFit(groups, selectors, serial),
           serial + Restored(env, snapshot).taken <= MaxSerial
    PROVE  LET restored == Restored(env, snapshot) IN
           /\ restored.taken \in Nat
           /\ RowsFit(restored.groups, restored.selectors, serial + restored.taken)
           /\ OwnParents(groups) => OwnParents(restored.groups)
           /\ StaysOf(env, restored.groups, restored.selectors)
<1> DEFINE S == snapshot.groups
           order == CHOOSE f \in [S -> 1..Cardinality(S)] :
                       \A g, h \in S : /\ f[g] = f[h] => g = h
                                       /\ Len(g.path) < Len(h.path) => f[g] < f[h]
           kept == {s \in snapshot.selectors : \E g \in S : g.row = s.target}
           n == Cardinality(S)
           m == Cardinality(kept)
           place == CHOOSE f \in [kept -> 1..Cardinality(kept)] :
                       \A s, t \in kept : f[s] = f[t] => s = t
           target(s) == CHOOSE g \in S : g.row = s.target
           made == NewGroups(env, S, order)
           select(s) == [row |-> serial + n + place[s], target |-> serial + order[target(s)],
                         all |-> s.all]
           stay == {g \in groups : g.row \notin Falling(env)}
           remain == {s \in selectors : s.target \notin Falling(env)}
<1>1. Restored(env, snapshot) = [groups |-> stay \union made,
                                 selectors |-> remain \union {select(s) : s \in kept},
                                 taken |-> n + m]
  BY DEF Restored, Falling, Returning, NewGroups
<1>2. IsFiniteSet(S) /\ IsFiniteSet(kept) /\ kept \subseteq SelectorRows
  <2>1. IsFiniteSet(snapshot.selectors) /\ kept \in SUBSET snapshot.selectors
        /\ snapshot.selectors \subseteq SelectorRows /\ IsFiniteSet(S)
    BY DEF Trees, FiniteSubsetsOf
  <2> HIDE DEF kept, S
  <2> QED BY <2>1, FS_Subset
<1>3. /\ n \in Nat /\ order \in [S -> 1..n]
      /\ \A g, h \in S : /\ order[g] = order[h] => g = h
                         /\ Len(g.path) < Len(h.path) => order[g] < order[h]
  BY OrderExists
<1>4. m \in Nat /\ place \in [kept -> 1..m]
  <2> HIDE DEF kept
  <2> QED BY <1>2, PlaceExists
<1>5. serial + n <= MaxSerial /\ serial + n + m <= MaxSerial /\ n + m \in Nat
  <2>1. serial + (n + m) <= MaxSerial
    BY <1>1
  <2> HIDE DEF n, m
  <2> QED BY <1>3, <1>4, <2>1, RowTypes
<1> HIDE DEF order, place
<1>ordered. IsOrder(S, order)
  BY <1>3 DEF IsOrder
<1>6. /\ made \subseteq GroupRows /\ IsFiniteSet(made)
      /\ \A g \in made : /\ g.env = env /\ g.row > serial /\ g.row <= serial + n
                         /\ g.parent < g.row /\ (g.parent > serial \/ g.parent = NoRow)
      /\ \A g, h \in made : g.row = h.row => g = h
  BY <1>ordered, <1>5, RestoredGroups
<1> HIDE DEF made
<1>7. ASSUME NEW s \in kept
      PROVE  /\ select(s) \in SelectorRows
             /\ select(s).target > serial /\ select(s).target <= serial + n
  <2>1. target(s) \in S
    BY DEF kept
  <2>2. order[target(s)] \in 1..n /\ place[s] \in 1..m
    <3> HIDE DEF target, n, m, S, kept
    <3> QED BY <1>3, <1>4, <2>1
  <2>3. s.all \in BOOLEAN
    BY <1>2, RowTypes
  <2> HIDE DEF n, m, target
  <2>4. /\ serial + n + place[s] \in 1..MaxSerial /\ serial + order[target(s)] \in 1..MaxSerial
        /\ serial + order[target(s)] > serial /\ serial + order[target(s)] <= serial + n
    BY <1>3, <1>4, <1>5, <2>2, RowTypes
  <2>5. select(s) \in SelectorRows
    BY <2>3, <2>4 DEF SelectorRows
  <2> QED BY <2>4, <2>5
<1> DEFINE selected == {select(s) : s \in kept}
<1>8. IsFiniteSet(selected)
  <2> DEFINE f == [s \in kept |-> select(s)]
  <2>1. DOMAIN f = kept /\ \A s \in kept : f[s] = select(s)
    OBVIOUS
  <2> HIDE DEF f, select, kept
  <2>2. IsFiniteSet({f[s] : s \in kept})
    BY <1>2, <2>1, ImageFinite
  <2>3. {f[s] : s \in kept} = selected
    BY <2>1
  <2> QED BY <2>2, <2>3
<1>9. /\ selected \subseteq SelectorRows
      /\ \A s \in selected : s.target > serial /\ s.target <= serial + n
  BY <1>7
<1>10. /\ stay \in SUBSET groups /\ IsFiniteSet(stay) /\ remain \in SUBSET selectors
       /\ IsFiniteSet(remain) /\ IsFiniteSet(stay \union made)
       /\ IsFiniteSet(remain \union selected)
  <2>1. stay \in SUBSET groups /\ remain \in SUBSET selectors
    OBVIOUS
  <2> HIDE DEF stay, remain, selected
  <2>2. IsFiniteSet(stay) /\ IsFiniteSet(remain)
    BY <2>1, FS_Subset DEF RowsFit
  <2> QED BY <1>6, <1>8, <2>1, <2>2, FS_Union
<1> HIDE DEF selected, n, m, select, kept, S
<1>11. \A g \in groups : /\ g.row <= serial /\ g.row \in Nat /\ g.parent \in Nat
                         /\ g.parent < g.row /\ g \in GroupRows
  BY RowTypes DEF RowsFit, Rooted
<1>12. \A g \in made : g.row \in Nat /\ g.parent \in Nat
  BY <1>6, RowTypes
<1>13. RowsFit(stay \union made, remain \union selected, serial + (n + m))
  <2>1. Rooted(stay \union made)
    BY <1>6, <1>10, <1>11 DEF Rooted
  <2>2. remain \union selected \subseteq SelectorRows
    BY <1>9, <1>10 DEF RowsFit
  <2>3. \A g \in stay \union made : g.row <= serial + (n + m)
    <3> HIDE DEF stay
    <3>1. \A g \in stay : g.row <= serial + (n + m)
      BY <1>3, <1>4, <1>10, <1>11
    <3>2. \A g \in made : g.row <= serial + (n + m)
      BY <1>3, <1>4, <1>6, <1>12
    <3> QED BY <3>1, <3>2
  <2>4. \A s \in remain \union selected : s.target <= serial + (n + m)
    <3> HIDE DEF remain
    <3>1. \A s \in remain : s.target <= serial /\ s.target \in Nat
      BY <1>10, RowTypes DEF RowsFit
    <3>2. \A s \in selected : s.target <= serial + n /\ s.target \in Nat
      BY <1>9, RowTypes
    <3> QED BY <1>3, <1>4, <3>1, <3>2
  <2>5. \A g, h \in stay \union made : g.row = h.row => g = h
    <3> SUFFICES ASSUME NEW g \in stay \union made, NEW h \in stay \union made, g.row = h.row
                 PROVE  g = h
      OBVIOUS
    <3>1. CASE g \in stay /\ h \in stay
      BY <1>10, <3>1 DEF RowsFit
    <3>2. CASE g \in made /\ h \in made
      BY <1>6, <3>2
    <3>3. CASE (g \in stay /\ h \in made) \/ (g \in made /\ h \in stay)
      BY <1>6, <1>10, <1>11, <1>12, <3>3
    <3> QED BY <3>1, <3>2, <3>3
  <2> HIDE DEF stay, remain
  <2> QED BY <1>10, <2>1, <2>2, <2>3, <2>4, <2>5 DEF RowsFit
<1>14. ASSUME OwnParents(groups) PROVE OwnParents(stay \union made)
  <2> SUFFICES ASSUME NEW g \in stay \union made, NEW h \in stay \union made, g.parent = h.row
               PROVE  g.env = h.env
    BY DEF OwnParents
  <2>1. CASE g \in stay /\ h \in stay
    BY <1>10, <1>14, <2>1 DEF OwnParents
  <2>2. CASE g \in made /\ h \in made
    BY <1>6, <2>2
  <2>3. CASE g \in stay /\ h \in made
    BY <1>6, <1>10, <1>11, <1>12, <2>3
  <2>4. CASE g \in made /\ h \in stay
    <3>1. h.row <= serial /\ h.row \in Nat /\ h.row # NoRow
      BY <1>10, <1>11, <2>4, RowTypes DEF NoRow
    <3> QED BY <1>6, <1>12, <2>4, <3>1
  <2> QED BY <2>1, <2>2, <2>3, <2>4
<1>15. StaysOf(env, stay \union made, remain \union selected)
  BY <1>6, <1>9, <1>10 DEF StaysOf
<1>16. /\ Restored(env, snapshot).groups = stay \union made
       /\ Restored(env, snapshot).selectors = remain \union selected
       /\ Restored(env, snapshot).taken = n + m
  BY <1>1 DEF selected
<1> HIDE DEF stay, remain
<1> QED BY <1>5, <1>13, <1>14, <1>15, <1>16

-----------------------------------------------------------------------------
(* The invariant.                                                          *)

Records == [before : Trees, after : Trees]

\* A history is a chain that ends in what is there.
EndsInCurrent(env) ==
    LET last == Len(revisions[env]) IN
    /\ \A n \in 1..last - 1 : revisions[env][n].after = revisions[env][n + 1].before
    /\ last > 0 => revisions[env][last].after = Current(env)

\* A transaction holds the lock of its environment, which has room for one more
\* revision.
EnvironmentLocked ==
    \A a \in Administrators : change[a] # NoChange =>
        /\ change[a].env \in Environments
        /\ lockedBy[change[a].env] = a
        /\ Len(revisions[change[a].env]) < MaxRevisions

StoreTyped ==
    /\ serial \in 0..MaxSerial
    /\ RowsFit(groups, selectors, serial)
    /\ revisions \in [Environments -> Seq(Records)]
    /\ \A env \in Environments : Len(revisions[env]) <= MaxRevisions
    /\ lockedBy \in [Environments -> Administrators \union {"nobody"}]
    /\ change \in [Administrators -> [env : Environments \union {"none"}, before : Trees]]
    /\ crossed \in BOOLEAN

\* Until a change named a row of another environment, an environment is changed
\* by nobody but the one who holds its lock.
Apart ==
    /\ OwnParents(groups)
    /\ \A a \in Administrators : change[a] # NoChange =>
          change[a].before = Tree(change[a].env, groups, selectors)
    /\ \A env \in Environments : EndsInCurrent(env) /\ HasCatchAll(Current(env))

GroupInv == StoreTyped /\ EnvironmentLocked /\ (~crossed => Apart)

LEMMA NoChangeTyped == NoChange \in [env : Environments \union {"none"}, before : Trees]
<1>1. {} \in FiniteSubsetsOf(Branches) /\ {} \in FiniteSubsetsOf(SelectorRows)
  BY FS_EmptySet DEF FiniteSubsetsOf
<1> QED BY <1>1 DEF NoChange, Trees

\* One who begins reads the tree as it stands.
LEMMA BeginKeeps ==
    ASSUME GroupInv, NEW a \in Administrators, NEW env \in Environments, BeginChange(a, env)
    PROVE  GroupInv'
<1>1. /\ UNCHANGED <<groups, selectors, serial, revisions, crossed>>
      /\ change[a] = NoChange /\ lockedBy[env] = "nobody" /\ Len(revisions[env]) < MaxRevisions
      /\ lockedBy' = [lockedBy EXCEPT ![env] = a]
      /\ change' = [change EXCEPT ![a] = Editing(env)]
  BY DEF BeginChange, LockGranted
<1>2. Editing(env) \in [env : Environments \union {"none"}, before : Trees]
  <2>1. Current(env) \in Trees
    BY TreeFits DEF GroupInv, StoreTyped, Current
  <2> QED BY <2>1 DEF Editing
<1>3. /\ lockedBy' \in [Environments -> Administrators \union {"nobody"}]
      /\ change' \in [Administrators -> [env : Environments \union {"none"}, before : Trees]]
  BY <1>1, <1>2 DEF GroupInv, StoreTyped
<1>4. StoreTyped'
  BY <1>1, <1>3 DEF GroupInv, StoreTyped
<1>5. /\ change'[a] = Editing(env) /\ lockedBy'[env] = a
      /\ \A b \in Administrators \ {a} : change'[b] = change[b]
      /\ \A d \in Environments \ {env} : lockedBy'[d] = lockedBy[d]
  BY <1>1 DEF GroupInv, StoreTyped
<1>6. Editing(env).env = env /\ Editing(env).before = Current(env)
  BY DEF Editing
<1>7. EnvironmentLocked'
  <2> SUFFICES ASSUME NEW b \in Administrators, change'[b] # NoChange
               PROVE  /\ change'[b].env \in Environments /\ lockedBy'[change'[b].env] = b
                      /\ Len(revisions[change'[b].env]) < MaxRevisions
    BY <1>1 DEF EnvironmentLocked
  <2>1. CASE b = a
    BY <1>1, <1>5, <1>6, <2>1
  <2>2. CASE b # a
    <3>1. /\ change'[b] = change[b] /\ change[b].env \in Environments
          /\ lockedBy[change[b].env] = b /\ Len(revisions[change[b].env]) < MaxRevisions
      BY <1>5, <2>2 DEF GroupInv, EnvironmentLocked
    <3>2. change[b].env # env
      BY <1>1, <3>1, GroupStoreAssumption
    <3> QED BY <1>5, <3>1, <3>2
  <2> QED BY <2>1, <2>2
<1>8. ASSUME Apart PROVE Apart'
  <2>1. OwnParents(groups)'
    BY <1>1, <1>8 DEF Apart, OwnParents
  <2>2. ASSUME NEW b \in Administrators, change'[b] # NoChange
        PROVE  change'[b].before = Tree(change'[b].env, groups', selectors')
    <3>1. CASE b = a
      BY <1>1, <1>5, <1>6, <3>1 DEF Current
    <3>2. CASE b # a
      BY <1>1, <1>5, <1>8, <2>2, <3>2 DEF Apart
    <3> QED BY <3>1, <3>2
  <2>3. ASSUME NEW d \in Environments PROVE EndsInCurrent(d)' /\ HasCatchAll(Current(d))'
    BY <1>1, <1>8 DEF Apart, Current, EndsInCurrent
  <2> QED BY <2>1, <2>2, <2>3 DEF Apart
<1> QED BY <1>1, <1>4, <1>7, <1>8 DEF GroupInv

\* A transaction that is given up leaves nothing.
LEMMA ReleaseTyped ==
    ASSUME GroupInv, NEW a \in Administrators, Release(a)
    PROVE  /\ lockedBy' \in [Environments -> Administrators \union {"nobody"}]
           /\ change' \in [Administrators -> [env : Environments \union {"none"}, before : Trees]]
           /\ change'[a] = NoChange
           /\ \A b \in Administrators \ {a} :
                 /\ change'[b] = change[b]
                 /\ change[b] # NoChange =>
                       lockedBy'[change[b].env] = b /\ lockedBy[change[b].env] # a
<1>1. /\ lockedBy' = [e \in Environments |-> IF lockedBy[e] = a THEN "nobody" ELSE lockedBy[e]]
      /\ change' = [change EXCEPT ![a] = NoChange]
  BY DEF Release
<1>2. /\ lockedBy \in [Environments -> Administrators \union {"nobody"}]
      /\ change \in [Administrators -> [env : Environments \union {"none"}, before : Trees]]
  BY DEF GroupInv, StoreTyped
<1>3. lockedBy' \in [Environments -> Administrators \union {"nobody"}]
  BY <1>1, <1>2
<1>4. /\ change' \in [Administrators -> [env : Environments \union {"none"}, before : Trees]]
      /\ change'[a] = NoChange /\ \A b \in Administrators \ {a} : change'[b] = change[b]
  BY <1>1, <1>2, NoChangeTyped
<1>5. ASSUME NEW b \in Administrators \ {a}, change[b] # NoChange
      PROVE  lockedBy'[change[b].env] = b /\ lockedBy[change[b].env] # a
  <2>1. change[b].env \in Environments /\ lockedBy[change[b].env] = b
    BY <1>5 DEF GroupInv, EnvironmentLocked
  <2> QED BY <1>1, <2>1
<1> QED BY <1>3, <1>4, <1>5

LEMMA RollBackKeeps ==
    ASSUME GroupInv, NEW a \in Administrators, RollBack(a)
    PROVE  GroupInv'
<1>1. Release(a) /\ UNCHANGED <<groups, selectors, serial, revisions, crossed>>
  BY DEF RollBack
<1>2. /\ lockedBy' \in [Environments -> Administrators \union {"nobody"}]
      /\ change' \in [Administrators -> [env : Environments \union {"none"}, before : Trees]]
      /\ change'[a] = NoChange
      /\ \A b \in Administrators \ {a} :
            change'[b] = change[b] /\ (change[b] # NoChange => lockedBy'[change[b].env] = b)
  BY <1>1, ReleaseTyped
<1>3. StoreTyped'
  BY <1>1, <1>2 DEF GroupInv, StoreTyped
<1>4. EnvironmentLocked'
  BY <1>1, <1>2 DEF GroupInv, EnvironmentLocked
<1>5. ASSUME Apart PROVE Apart'
  <2>1. OwnParents(groups)'
    BY <1>1, <1>5 DEF Apart, OwnParents
  <2>2. ASSUME NEW b \in Administrators, change'[b] # NoChange
        PROVE  change'[b].before = Tree(change'[b].env, groups', selectors')
    <3>1. change'[b] = change[b] /\ b # a
      BY <1>2, <2>2
    <3> QED BY <1>1, <1>5, <2>2, <3>1 DEF Apart
  <2>3. ASSUME NEW d \in Environments PROVE EndsInCurrent(d)' /\ HasCatchAll(Current(d))'
    BY <1>1, <1>5 DEF Apart, Current, EndsInCurrent
  <2> QED BY <2>1, <2>2, <2>3 DEF Apart
<1> QED BY <1>1, <1>3, <1>4, <1>5 DEF GroupInv

-----------------------------------------------------------------------------
(* The changes.                                                            *)

\* Nothing of another environment is touched.
LeavesOthers(env, table, sels) ==
    \A d \in Environments \ {env} :
        /\ Of(d, table) = Of(d, groups)
        /\ \A s : s \in sels /\ s.target \in Returning(d) <=>
                  s \in selectors /\ s.target \in Returning(d)

\* A change that leaves rows and touches no other environment's keeps the
\* invariant: its revision starts where the last one ended and ends in what its
\* own validation has just read.
LEMMA CommitKeeps ==
    ASSUME GroupInv, NEW a \in Administrators, change[a] # NoChange,
           NEW table, NEW sels, NEW taken \in Nat, Commit(a, table, sels, taken),
           RowsFit(table, sels, serial + taken),
           crossed' \in BOOLEAN, crossed => crossed',
           ~crossed' => OwnParents(table) /\ LeavesOthers(change[a].env, table, sels)
    PROVE  GroupInv'
<1>0. PICK env : env = change[a].env
  OBVIOUS
<1> DEFINE after == Tree(env, table, sels)
           entry == [before |-> change[a].before, after |-> after]
<1>1. /\ serial + taken <= MaxSerial /\ ~Blocking(after)
      /\ groups' = table /\ selectors' = sels /\ serial' = serial + taken
      /\ revisions' = [revisions EXCEPT ![env] = Append(revisions[env], entry)]
      /\ Release(a)
  BY <1>0 DEF Commit
<1>2. env \in Environments /\ lockedBy[env] = a /\ Len(revisions[env]) < MaxRevisions
  BY <1>0 DEF GroupInv, EnvironmentLocked
<1>3. /\ lockedBy' \in [Environments -> Administrators \union {"nobody"}]
      /\ change' \in [Administrators -> [env : Environments \union {"none"}, before : Trees]]
      /\ change'[a] = NoChange
      /\ \A b \in Administrators \ {a} :
            /\ change'[b] = change[b]
            /\ change[b] # NoChange => lockedBy'[change[b].env] = b /\ lockedBy[change[b].env] # a
  BY <1>1, ReleaseTyped
<1>4. entry \in Records /\ after \in Trees
  <2>1. after \in Trees
    BY TreeFits
  <2>2. change[a].before \in Trees
    BY DEF GroupInv, StoreTyped
  <2> HIDE DEF after
  <2> QED BY <2>1, <2>2 DEF Records
<1>5. /\ revisions \in [Environments -> Seq(Records)]
      /\ \A d \in Environments : Len(revisions[d]) <= MaxRevisions
      /\ MaxRevisions \in Nat /\ serial \in 0..MaxSerial
  BY GroupStoreAssumption DEF GroupInv, StoreTyped
<1> HIDE DEF after, entry
<1>6. /\ revisions' \in [Environments -> Seq(Records)]
      /\ revisions'[env] = Append(revisions[env], entry)
      /\ \A d \in Environments \ {env} : revisions'[d] = revisions[d]
  BY <1>1, <1>2, <1>4, <1>5
<1>7. /\ revisions[env] \in Seq(Records) /\ Len(revisions[env]) \in Nat
      /\ Len(revisions'[env]) = Len(revisions[env]) + 1
  BY <1>2, <1>4, <1>5, <1>6
<1>8. StoreTyped'
  <2>1. \A d \in Environments : Len(revisions'[d]) <= MaxRevisions
    <3> SUFFICES ASSUME NEW d \in Environments PROVE Len(revisions'[d]) <= MaxRevisions
      OBVIOUS
    <3>1. CASE d = env
      BY <1>2, <1>5, <1>7, <3>1
    <3>2. CASE d # env
      BY <1>5, <1>6, <3>2
    <3> QED BY <3>1, <3>2
  <2>2. serial' \in 0..MaxSerial
    BY <1>1, <1>5, RowTypes
  <2>3. RowsFit(groups', selectors', serial')
    BY <1>1
  <2> QED BY <1>3, <1>6, <2>1, <2>2, <2>3 DEF StoreTyped
<1>9. EnvironmentLocked'
  <2> SUFFICES ASSUME NEW b \in Administrators, change'[b] # NoChange
               PROVE  /\ change'[b].env \in Environments /\ lockedBy'[change'[b].env] = b
                      /\ Len(revisions'[change'[b].env]) < MaxRevisions
    BY DEF EnvironmentLocked
  <2>1. /\ change'[b] = change[b] /\ change[b] # NoChange
        /\ lockedBy'[change[b].env] = b /\ lockedBy[change[b].env] # a
    BY <1>3
  <2>2. change[b].env \in Environments \ {env} /\ Len(revisions[change[b].env]) < MaxRevisions
    BY <1>2, <2>1 DEF GroupInv, EnvironmentLocked
  <2> QED BY <1>6, <2>1, <2>2
<1>10. ASSUME ~crossed' PROVE Apart'
  <2>1. Apart /\ OwnParents(table) /\ LeavesOthers(env, table, sels)
    BY <1>0, <1>10 DEF GroupInv
  <2>2. \A d \in Environments \ {env} : Tree(d, table, sels) = Tree(d, groups, selectors)
    <3> SUFFICES ASSUME NEW d \in Environments \ {env}
                 PROVE  Tree(d, table, sels) = Tree(d, groups, selectors)
      OBVIOUS
    <3>1. /\ Of(d, table) = Of(d, groups)
          /\ \A s : s \in sels /\ s.target \in {g.row : g \in Of(d, groups)} <=>
                    s \in selectors /\ s.target \in {g.row : g \in Of(d, groups)}
      BY <2>1 DEF LeavesOthers, Returning
    <3> QED BY <3>1, SameTree
  <2>3. ASSUME NEW b \in Administrators, change'[b] # NoChange
        PROVE  change'[b].before = Tree(change'[b].env, groups', selectors')
    <3>1. change'[b] = change[b] /\ change[b] # NoChange /\ lockedBy[change[b].env] # a
      BY <1>3, <2>3
    <3>2. change[b].env \in Environments \ {env}
      BY <1>2, <3>1 DEF GroupInv, EnvironmentLocked
    <3>3. change[b].before = Tree(change[b].env, groups, selectors)
      BY <2>1, <3>1 DEF Apart
    <3> QED BY <1>1, <2>2, <3>1, <3>2, <3>3
  <2>4. ASSUME NEW d \in Environments \ {env}
        PROVE  EndsInCurrent(d)' /\ HasCatchAll(Current(d))'
    <3>1. revisions'[d] = revisions[d] /\ Tree(d, groups', selectors') = Tree(d, groups, selectors)
      BY <1>1, <1>6, <2>2, <2>4
    <3>2. EndsInCurrent(d) /\ HasCatchAll(Current(d))
      BY <2>1, <2>4 DEF Apart
    <3> QED BY <3>1, <3>2 DEF EndsInCurrent, Current, HasCatchAll
  <2>5. Tree(env, groups', selectors') = after
    BY <1>1 DEF after
  <2>6. HasCatchAll(Current(env))'
    <3>1. HasCatchAll(after)
      BY <1>1 DEF Blocking
    <3> QED BY <2>5, <3>1 DEF HasCatchAll, Current
  <2>7. EndsInCurrent(env)'
    <3> DEFINE last == Len(revisions[env])
    <3>1. /\ \A n \in 1..last - 1 : revisions[env][n].after = revisions[env][n + 1].before
          /\ last > 0 => revisions[env][last].after = Tree(env, groups, selectors)
      BY <1>2, <2>1 DEF Apart, EndsInCurrent, Current
    <3>2. change[a].before = Tree(env, groups, selectors)
      BY <1>0, <2>1 DEF Apart
    <3>3. entry.before = change[a].before /\ entry.after = after
      BY DEF entry
    <3>4. /\ \A n \in 1..last : revisions'[env][n] = revisions[env][n]
          /\ revisions'[env][last + 1] = entry
          /\ Len(revisions'[env]) = last + 1 /\ last \in Nat
      BY <1>4, <1>6, <1>7
    <3> HIDE DEF last
    <3>5. ASSUME NEW n \in 1..last PROVE revisions'[env][n].after = revisions'[env][n + 1].before
      <4>1. CASE n = last
        <5>1. last > 0 /\ revisions'[env][n] = revisions[env][last]
              /\ revisions'[env][n + 1] = entry
          BY <3>4, <4>1
        <5> QED BY <3>1, <3>2, <3>3, <5>1
      <4>2. CASE n # last
        <5>1. n \in 1..last - 1 /\ n + 1 \in 1..last
          BY <3>4, <4>2
        <5> QED BY <3>1, <3>4, <5>1
      <4> QED BY <4>1, <4>2
    <3>6. (last + 1) - 1 = last /\ last + 1 > 0
      BY <3>4
    <3> QED BY <2>5, <3>3, <3>4, <3>5, <3>6 DEF EndsInCurrent, Current
  <2>8. ASSUME NEW d \in Environments PROVE EndsInCurrent(d)' /\ HasCatchAll(Current(d))'
    <3>1. CASE d = env
      BY <2>6, <2>7, <3>1
    <3>2. CASE d # env
      BY <2>4, <3>2
    <3> QED BY <3>1, <3>2
  <2>9. OwnParents(groups)'
    BY <1>1, <2>1 DEF OwnParents
  <2> QED BY <2>3, <2>8, <2>9 DEF Apart
<1> QED BY <1>8, <1>9, <1>10 DEF GroupInv

\* What the invariant says of the rows.
LEMMA RowFacts ==
    ASSUME GroupInv
    PROVE  /\ RowsFit(groups, selectors, serial) /\ serial \in Nat /\ crossed \in BOOLEAN
           /\ \A g \in groups : /\ g \in GroupRows /\ g.row \in Nat /\ g.row >= 1
                                /\ g.row <= serial /\ g.parent \in Nat /\ g.parent < g.row
           /\ \A s \in selectors : s \in SelectorRows /\ s.target \in Nat /\ s.target <= serial
           /\ ~crossed => OwnParents(groups)
<1>1. RowsFit(groups, selectors, serial) /\ serial \in Nat /\ crossed \in BOOLEAN
  BY DEF GroupInv, StoreTyped
<1>2. ~crossed => OwnParents(groups)
  BY DEF GroupInv, Apart
<1> QED BY <1>1, <1>2, RowTypes DEF RowsFit, Rooted

LEMMA UpdateGroupKeeps ==
    ASSUME GroupInv, NEW a \in Administrators, change[a] # NoChange,
           NEW g \in groups, NEW value \in Values, UpdateGroup(a, g, value)
    PROVE  GroupInv'
<1> DEFINE new(h) == IF h = g THEN [h EXCEPT !.value = value] ELSE h
           table == {new(h) : h \in groups}
<1>1. Commit(a, table, selectors, 0) /\ g.env = change[a].env /\ crossed' = crossed
  BY DEF UpdateGroup
<1>2. \A h \in groups : /\ new(h) \in GroupRows /\ new(h).row = h.row
                        /\ new(h).env = h.env /\ new(h).parent = h.parent
                        /\ (h.env # g.env => new(h) = h)
  BY RowFacts DEF GroupRows
<1>3. IsFiniteSet(table)
  <2> DEFINE f == [h \in groups |-> new(h)]
  <2>1. DOMAIN f = groups /\ \A h \in groups : f[h] = new(h)
    OBVIOUS
  <2>2. IsFiniteSet(groups)
    BY RowFacts DEF RowsFit
  <2> HIDE DEF f, new
  <2>3. IsFiniteSet({f[h] : h \in groups})
    BY <2>1, <2>2, ImageFinite
  <2>4. {f[h] : h \in groups} = table
    BY <2>1
  <2> QED BY <2>3, <2>4
<1> HIDE DEF new
<1>4. \A t \in table : \E h \in groups : t = new(h)
  OBVIOUS
<1>5. \A h \in groups : new(h) \in table
  OBVIOUS
<1> HIDE DEF table
<1>6. RowsFit(table, selectors, serial + 0)
  <2>1. serial + 0 = serial
    BY RowFacts
  <2>2. table \subseteq GroupRows /\ \A t \in table : t.parent < t.row /\ t.row <= serial
    BY <1>2, <1>4, RowFacts
  <2>3. \A t, u \in table : t.row = u.row => t = u
    BY <1>2, <1>4, RowFacts DEF RowsFit
  <2> QED BY <1>3, <2>1, <2>2, <2>3, RowFacts DEF RowsFit, Rooted
<1>7. OwnParents(groups) => OwnParents(table)
  BY <1>2, <1>4 DEF OwnParents
<1>8. LeavesOthers(change[a].env, table, selectors)
  <2> SUFFICES ASSUME NEW d, d # change[a].env PROVE Of(d, table) = Of(d, groups)
    BY DEF LeavesOthers
  <2>1. \A t \in table : t.env = d => t \in groups
    BY <1>1, <1>2, <1>4
  <2>2. \A h \in groups : h.env = d => h \in table
    BY <1>1, <1>2, <1>5
  <2> QED BY <2>1, <2>2 DEF Of
<1> QED BY <1>1, <1>6, <1>7, <1>8, CommitKeeps, RowFacts

LEMMA CreateGroupKeeps ==
    ASSUME GroupInv, NEW a \in Administrators, change[a] # NoChange,
           NEW name \in GroupNames, NEW parent \in 0..MaxSerial, NEW value \in Values,
           CreateGroup(a, name, parent, value)
    PROVE  GroupInv'
<1> DEFINE new == [row |-> serial + 1, env |-> change[a].env, parent |-> parent,
                   name |-> name, value |-> value]
           table == groups \union {new}
<1>1. /\ Commit(a, table, selectors, 1)
      /\ parent \in {NoRow} \union {g.row : g \in groups}
      /\ crossed' = (crossed \/ \E g \in groups : g.row = parent /\ g.env # change[a].env)
  BY DEF CreateGroup
<1>2. /\ new \in GroupRows /\ new.row = serial + 1 /\ new.env = change[a].env
      /\ new.parent = parent /\ parent \in Nat /\ parent < serial + 1
  <2>1. change[a].env \in Environments
    BY DEF GroupInv, EnvironmentLocked
  <2>2. serial + 1 \in 1..MaxSerial
    BY <1>1, RowFacts, RowTypes DEF Commit
  <2>3. parent \in Nat /\ parent < serial + 1
    BY <1>1, RowFacts DEF NoRow
  <2> QED BY <2>1, <2>2, <2>3 DEF GroupRows
<1> HIDE DEF new
<1>3. RowsFit(table, selectors, serial + 1)
  <2>1. IsFiniteSet(table)
    BY RowFacts, FS_AddElement DEF RowsFit
  <2>2. Rooted(table) /\ \A g \in table : g.row <= serial + 1
    BY <1>2, RowFacts DEF Rooted
  <2>3. \A g, h \in table : g.row = h.row => g = h
    <3> SUFFICES ASSUME NEW g \in table, NEW h \in table, g.row = h.row PROVE g = h
      OBVIOUS
    <3>1. CASE g \in groups /\ h \in groups
      BY <3>1, RowFacts DEF RowsFit
    <3>2. CASE g = new \/ h = new
      BY <1>2, <3>2, RowFacts
    <3> QED BY <3>1, <3>2
  <2>4. /\ selectors \subseteq SelectorRows /\ IsFiniteSet(selectors)
        /\ \A s \in selectors : s.target <= serial + 1
    BY RowFacts DEF RowsFit
  <2> QED BY <2>1, <2>2, <2>3, <2>4 DEF RowsFit
<1>4. ASSUME ~crossed' PROVE OwnParents(table)
  <2>1. OwnParents(groups) /\ \A g \in groups : g.row = parent => g.env = change[a].env
    BY <1>1, <1>4, RowFacts
  <2> SUFFICES ASSUME NEW g \in table, NEW h \in table, g.parent = h.row PROVE g.env = h.env
    BY DEF OwnParents
  <2>2. CASE g \in groups /\ h \in groups
    BY <2>1, <2>2 DEF OwnParents
  <2>3. CASE h = new
    BY <1>2, <2>3, RowFacts
  <2>4. CASE g = new /\ h \in groups
    BY <1>2, <2>1, <2>4
  <2> QED BY <2>2, <2>3, <2>4
<1>5. LeavesOthers(change[a].env, table, selectors)
  BY <1>2 DEF LeavesOthers, Of
<1>6. crossed' \in BOOLEAN /\ (crossed => crossed')
  BY <1>1
<1> HIDE DEF table
<1> QED BY <1>1, <1>3, <1>4, <1>5, <1>6, CommitKeeps

\* A delete goes down the tree: as long as parents are of their children's
\* environment, so is all of it.
LEMMA DeleteGroupKeeps ==
    ASSUME GroupInv, NEW a \in Administrators, change[a] # NoChange,
           NEW g \in groups, DeleteGroup(a, g)
    PROVE  GroupInv'
<1> DEFINE table == {h \in groups : h.row \notin Doomed(g.row)}
           sels == {s \in selectors : s.target \notin Doomed(g.row)}
<1>1. g.env = change[a].env /\ Commit(a, table, sels, 0) /\ crossed' = crossed
  BY DEF DeleteGroup
<1>2. table \in SUBSET groups /\ sels \in SUBSET selectors
  OBVIOUS
<1>3. ASSUME ~crossed PROVE LeavesOthers(change[a].env, table, sels)
  <2>1. \A h \in groups : h.row \in Doomed(g.row) => h.env = change[a].env
    BY <1>1, <1>3, DoomedStay, RowFacts
  <2> SUFFICES ASSUME NEW d \in Environments \ {change[a].env}
               PROVE  /\ Of(d, table) = Of(d, groups)
                      /\ \A s : s \in sels /\ s.target \in Returning(d) <=>
                                s \in selectors /\ s.target \in Returning(d)
    BY DEF LeavesOthers
  <2>2. Of(d, table) = Of(d, groups)
    BY <2>1 DEF Of
  <2>3. \A row \in Returning(d) : row \notin Doomed(g.row)
    BY <2>1 DEF Returning, Of
  <2> QED BY <2>2, <2>3
<1> HIDE DEF table, sels
<1>4. RowsFit(table, sels, serial + 0)
  <2>1. IsFiniteSet(table) /\ IsFiniteSet(sels)
    BY <1>2, RowFacts, FS_Subset DEF RowsFit
  <2>2. serial + 0 = serial
    BY RowFacts
  <2> QED BY <1>2, <2>1, <2>2, RowFacts DEF RowsFit, Rooted
<1>5. OwnParents(groups) => OwnParents(table)
  BY <1>2 DEF OwnParents
<1> QED BY <1>1, <1>3, <1>4, <1>5, CommitKeeps, RowFacts

LEMMA CreateSelectorKeeps ==
    ASSUME GroupInv, NEW a \in Administrators, change[a] # NoChange,
           NEW g \in groups, NEW all \in BOOLEAN, CreateSelector(a, g, all)
    PROVE  GroupInv'
<1> DEFINE new == [row |-> serial + 1, target |-> g.row, all |-> all]
           sels == selectors \union {new}
<1>1. Commit(a, groups, sels, 1) /\ crossed' = (crossed \/ g.env # change[a].env)
  BY DEF CreateSelector
<1>2. new \in SelectorRows /\ new.target = g.row
  <2>1. serial + 1 \in 1..MaxSerial /\ g.row \in 1..MaxSerial
    BY <1>1, RowFacts, RowTypes DEF Commit
  <2> QED BY <2>1 DEF SelectorRows
<1> HIDE DEF new
<1>3. RowsFit(groups, sels, serial + 1)
  <2>1. IsFiniteSet(sels)
    BY RowFacts, FS_AddElement DEF RowsFit
  <2>2. \A s \in sels : s.target <= serial + 1
    BY <1>2, RowFacts
  <2> QED BY <1>2, <2>1, <2>2, RowFacts DEF RowsFit
<1>4. ASSUME ~crossed' PROVE LeavesOthers(change[a].env, groups, sels)
  <2>1. g.env = change[a].env
    BY <1>1, <1>4
  <2>2. ASSUME NEW d \in Environments \ {change[a].env} PROVE new.target \notin Returning(d)
    <3>1. \A h \in groups : h.row = g.row => h = g
      BY RowFacts DEF RowsFit
    <3> QED BY <1>2, <2>1, <3>1 DEF Returning, Of
  <2> QED BY <2>2 DEF LeavesOthers
<1>5. crossed' \in BOOLEAN /\ (crossed => crossed') /\ (~crossed' => OwnParents(groups))
  BY <1>1, RowFacts
<1> HIDE DEF sels
<1> QED BY <1>1, <1>3, <1>4, <1>5, CommitKeeps

LEMMA DeleteSelectorKeeps ==
    ASSUME GroupInv, NEW a \in Administrators, change[a] # NoChange,
           NEW s \in selectors, DeleteSelector(a, s)
    PROVE  GroupInv'
<1> DEFINE sels == selectors \ {s}
<1>1. /\ Commit(a, groups, sels, 0) /\ crossed' = crossed
      /\ \E g \in Of(change[a].env, groups) : g.row = s.target
  BY DEF DeleteSelector
<1>2. RowsFit(groups, sels, serial + 0)
  <2>1. IsFiniteSet(sels)
    BY RowFacts, FS_RemoveElement DEF RowsFit
  <2>2. serial + 0 = serial
    BY RowFacts
  <2> QED BY <2>1, <2>2, RowFacts DEF RowsFit
<1>3. LeavesOthers(change[a].env, groups, sels)
  <2>1. PICK g \in groups : g.env = change[a].env /\ g.row = s.target
    BY <1>1 DEF Of
  <2>2. ASSUME NEW d \in Environments \ {change[a].env} PROVE s.target \notin Returning(d)
    <3>1. \A h \in groups : h.row = g.row => h = g
      BY RowFacts DEF RowsFit
    <3> QED BY <2>1, <3>1 DEF Returning, Of
  <2> QED BY <2>2 DEF LeavesOthers
<1> HIDE DEF sels
<1> QED BY <1>1, <1>2, <1>3, CommitKeeps, RowFacts

\* A revert deletes an environment's rows, with what falls with them, and gives
\* new ids to what it puts back.
LEMMA RevertKeeps ==
    ASSUME GroupInv, NEW a \in Administrators, change[a] # NoChange,
           NEW n \in DOMAIN revisions[change[a].env], Revert(a, n)
    PROVE  GroupInv'
<1>1. PICK env \in Environments : env = change[a].env
  BY DEF GroupInv, EnvironmentLocked
<1>2. PICK snapshot \in Trees : snapshot = revisions[env][n].before
  <2>1. revisions[env] \in Seq(Records)
    BY DEF GroupInv, StoreTyped
  <2>2. revisions[env][n] \in Records
    BY <1>1, <2>1
  <2> QED BY <2>2 DEF Records
<1> DEFINE restored == Restored(env, snapshot)
<1>3. Commit(a, restored.groups, restored.selectors, restored.taken) /\ crossed' = crossed
  BY <1>1, <1>2 DEF Revert
<1>4. serial + restored.taken <= MaxSerial
  BY <1>3 DEF Commit
<1>5. /\ restored.taken \in Nat
      /\ RowsFit(restored.groups, restored.selectors, serial + restored.taken)
      /\ OwnParents(groups) => OwnParents(restored.groups)
      /\ StaysOf(env, restored.groups, restored.selectors)
  BY <1>4, RestoredFits, RowFacts
<1> HIDE DEF restored
<1>6. ASSUME ~crossed PROVE LeavesOthers(env, restored.groups, restored.selectors)
  <2>1. \A h \in groups : h.row \in Falling(env) => h.env = env
    <3> SUFFICES ASSUME NEW h \in groups, NEW g \in groups, g.env = env, h.row \in Doomed(g.row)
                 PROVE  h.env = env
      BY DEF Falling, Returning, Of
    <3> QED BY <1>6, DoomedStay, RowFacts
  <2> SUFFICES ASSUME NEW d \in Environments \ {env}
               PROVE  /\ Of(d, restored.groups) = Of(d, groups)
                      /\ \A s : s \in restored.selectors /\ s.target \in Returning(d) <=>
                                s \in selectors /\ s.target \in Returning(d)
    BY DEF LeavesOthers
  <2>2. Of(d, restored.groups) = Of(d, groups)
    <3>1. \A g \in restored.groups : g.env = d => g \in groups
      BY <1>5 DEF StaysOf
    <3>2. \A g \in groups : g.env = d => g \in restored.groups
      BY <1>5, <2>1 DEF StaysOf
    <3> QED BY <3>1, <3>2 DEF Of
  <2>3. \A row \in Returning(d) : row \notin Falling(env) /\ row <= serial /\ row \in Nat
    BY <2>1, RowFacts DEF Returning, Of
  <2>4. ASSUME NEW s \in restored.selectors, s.target \in Returning(d) PROVE s \in selectors
    BY <1>5, <2>3, <2>4, RowFacts DEF StaysOf
  <2>5. ASSUME NEW s \in selectors, s.target \in Returning(d) PROVE s \in restored.selectors
    BY <1>5, <2>3, <2>5 DEF StaysOf
  <2> QED BY <2>2, <2>4, <2>5
<1> QED BY <1>1, <1>3, <1>5, <1>6, CommitKeeps, RowFacts

LEMMA GroupStep == ASSUME GroupInv, [GroupNext]_groupVars PROVE GroupInv'
<1>1. CASE UNCHANGED groupVars
  <2>1. UNCHANGED <<groups, selectors, serial, revisions, lockedBy, change, crossed>>
    BY <1>1 DEF groupVars
  <2>2. StoreTyped' /\ EnvironmentLocked'
    BY <2>1 DEF GroupInv, StoreTyped, EnvironmentLocked
  <2>3. Apart' = Apart
    BY <2>1 DEF Apart, EndsInCurrent, Current
  <2> QED BY <2>1, <2>2, <2>3 DEF GroupInv
<1>2. ASSUME NEW a \in Administrators, Changes(a) PROVE GroupInv'
  <2>1. change[a] # NoChange
    BY <1>2 DEF Changes
  <2>2. CASE \E g \in groups : \/ \E v \in Values : UpdateGroup(a, g, v)
                               \/ DeleteGroup(a, g)
                               \/ \E all \in BOOLEAN : CreateSelector(a, g, all)
    BY <2>1, <2>2, UpdateGroupKeeps, DeleteGroupKeeps, CreateSelectorKeeps
  <2>3. CASE \E name \in GroupNames, parent \in 0..MaxSerial, v \in Values :
                CreateGroup(a, name, parent, v)
    BY <2>1, <2>3, CreateGroupKeeps
  <2>4. CASE \E s \in selectors : DeleteSelector(a, s)
    BY <2>1, <2>4, DeleteSelectorKeeps
  <2>5. CASE \E n \in DOMAIN revisions[change[a].env] : Revert(a, n)
    BY <2>1, <2>5, RevertKeeps
  <2> QED BY <1>2, <2>2, <2>3, <2>4, <2>5 DEF Changes
<1> QED BY <1>1, <1>2, BeginKeeps, RollBackKeeps DEF GroupNext

\* Every environment starts with a group and its catch-all, under ids of their own.
LEMMA GroupStarts == ASSUME GroupInit PROVE GroupInv
<1> DEFINE n == Cardinality(Environments)
           first == CHOOSE name \in GroupNames : TRUE
           rowOf == CHOOSE f \in [Environments -> 1..Cardinality(Environments)] :
                       \A d, e \in Environments : f[d] = f[e] => d = e
           group(e) == [row |-> rowOf[e], env |-> e, parent |-> NoRow, name |-> first,
                        value |-> "fair"]
           select(e) == [row |-> n + rowOf[e], target |-> rowOf[e], all |-> TRUE]
<1>1. /\ groups = {group(e) : e \in Environments}
      /\ selectors = {select(e) : e \in Environments}
      /\ serial = 2 * n
      /\ revisions = [e \in Environments |-> <<>>]
      /\ lockedBy = [e \in Environments |-> "nobody"]
      /\ change = [a \in Administrators |-> NoChange]
      /\ crossed = FALSE
  BY DEF GroupInit
<1>2. /\ IsFiniteSet(Environments) /\ n \in Nat /\ 2 * n <= MaxSerial /\ MaxSerial \in Nat
      /\ "fair" \in Values /\ first \in GroupNames /\ MaxRevisions \in Nat
  BY GroupStoreAssumption, FS_CardinalityType
<1>3. /\ rowOf \in [Environments -> 1..n]
      /\ \A d, e \in Environments : rowOf[d] = rowOf[e] => d = e
  BY <1>2, PlaceExists
<1> HIDE DEF n, first, rowOf
<1>4. \A e \in Environments : /\ rowOf[e] \in 1..n /\ rowOf[e] \in 1..MaxSerial
                              /\ n + rowOf[e] \in 1..MaxSerial /\ rowOf[e] <= 2 * n
                              /\ rowOf[e] \in Nat /\ rowOf[e] > 0
  BY <1>2, <1>3
<1>5. ASSUME NEW e \in Environments PROVE group(e) \in GroupRows /\ select(e) \in SelectorRows
  <2>1. NoRow \in 0..MaxSerial
    BY <1>2 DEF NoRow
  <2> QED BY <1>2, <1>4, <2>1 DEF GroupRows, SelectorRows
<1>6. \A e \in Environments : /\ group(e).row = rowOf[e] /\ group(e).env = e
                              /\ group(e).parent = 0
                              /\ select(e).target = rowOf[e] /\ select(e).all = TRUE
  BY DEF NoRow
<1>7. IsFiniteSet(groups) /\ IsFiniteSet(selectors)
  <2> DEFINE f == [e \in Environments |-> group(e)]
             h == [e \in Environments |-> select(e)]
  <2>1. /\ DOMAIN f = Environments /\ \A e \in Environments : f[e] = group(e)
        /\ DOMAIN h = Environments /\ \A e \in Environments : h[e] = select(e)
    OBVIOUS
  <2> HIDE DEF f, h, group, select
  <2>2. IsFiniteSet({f[e] : e \in Environments}) /\ IsFiniteSet({h[e] : e \in Environments})
    BY <1>2, <2>1, ImageFinite
  <2>3. {f[e] : e \in Environments} = groups /\ {h[e] : e \in Environments} = selectors
    BY <1>1, <2>1
  <2> QED BY <2>2, <2>3
<1> HIDE DEF group, select
<1>8. /\ \A g \in groups : \E e \in Environments : g = group(e)
      /\ \A s \in selectors : \E e \in Environments : s = select(e)
      /\ \A e \in Environments : group(e) \in groups /\ select(e) \in selectors
  BY <1>1
<1>9. RowsFit(groups, selectors, serial)
  <2>1. Rooted(groups) /\ \A g \in groups : g.row <= serial
    <3>1. \A e \in Environments : group(e).row <= serial /\ group(e).parent < group(e).row
      BY <1>1, <1>4, <1>6
    <3>2. groups \subseteq GroupRows
      BY <1>5, <1>8
    <3> QED BY <1>8, <3>1, <3>2 DEF Rooted
  <2>2. \A g, h \in groups : g.row = h.row => g = h
    BY <1>3, <1>6, <1>8
  <2>3. selectors \subseteq SelectorRows /\ \A s \in selectors : s.target <= serial
    <3>1. \A e \in Environments : select(e).target <= serial
      BY <1>1, <1>4, <1>6
    <3> QED BY <1>5, <1>8, <3>1
  <2> QED BY <1>7, <2>1, <2>2, <2>3 DEF RowsFit
<1>10. StoreTyped
  <2>1. \A e \in Environments : revisions[e] = <<>> /\ Len(revisions[e]) = 0
    BY <1>1
  <2>2. revisions \in [Environments -> Seq(Records)]
    BY <1>1
  <2>3. lockedBy \in [Environments -> Administrators \union {"nobody"}] /\ crossed \in BOOLEAN
    BY <1>1
  <2>4. change \in [Administrators -> [env : Environments \union {"none"}, before : Trees]]
    BY <1>1, NoChangeTyped
  <2>5. serial \in 0..MaxSerial
    BY <1>1, <1>2
  <2> QED BY <1>2, <1>9, <2>1, <2>2, <2>3, <2>4, <2>5 DEF StoreTyped
<1>11. EnvironmentLocked
  BY <1>1 DEF EnvironmentLocked
<1>12. Apart
  <2>1. OwnParents(groups)
    BY <1>4, <1>6, <1>8 DEF OwnParents
  <2>2. ASSUME NEW e \in Environments PROVE EndsInCurrent(e)
    BY <1>1 DEF EndsInCurrent
  <2>3. ASSUME NEW e \in Environments PROVE HasCatchAll(Current(e))
    <3>1. group(e) \in Of(e, groups)
      BY <1>6, <1>8 DEF Of
    <3>2. select(e) \in Current(e).selectors
      BY <1>6, <1>8, <3>1 DEF Current, Tree
    <3> QED BY <1>6, <3>2 DEF HasCatchAll
  <2>4. \A a \in Administrators : change[a] = NoChange
    BY <1>1
  <2> QED BY <2>1, <2>2, <2>3, <2>4 DEF Apart
<1> QED BY <1>10, <1>11, <1>12 DEF GroupInv

\* What the invariant is for.
LEMMA GroupPromises == ASSUME GroupInv PROVE GroupTypeOK /\ GroupTreeKept
<1>1. GroupTypeOK
  BY DEF GroupInv, StoreTyped, RowsFit, Rooted, GroupTypeOK
<1>2. RevisionsChain
  BY DEF GroupInv, Apart, EndsInCurrent, RevisionsChain
<1>3. ASSUME ~crossed, NEW env \in Environments
      PROVE  HasCatchAll(Current(env)) /\ (Of(env, groups) # {} => Ready(env))
  <2>1. HasCatchAll(Current(env))
    BY <1>3 DEF GroupInv, Apart
  <2>2. ASSUME Of(env, groups) # {} PROVE Current(env).selectors # {}
    <3>1. Current(env).groups # {}
      BY <2>2 DEF Current, Tree
    <3> QED BY <2>1, <3>1 DEF HasCatchAll
  <2> QED BY <2>1, <2>2 DEF Ready
<1> QED BY <1>1, <1>2, <1>3 DEF GroupTreeKept, CatchAllKept

\* The history of every environment is a chain that ends in what is there, and an
\* environment with groups keeps its catch-all, until a change names a row of
\* another environment (ResourceGroupStore._apply): for any number of
\* environments, administrators, groups, row ids and revisions.
THEOREM GroupTreesAreKept == GroupSpec => [](GroupTypeOK /\ GroupTreeKept)
BY GroupStarts, GroupStep, GroupPromises, PTL DEF GroupSpec

=============================================================================
