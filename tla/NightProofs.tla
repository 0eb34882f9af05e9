----------------------------- MODULE NightProofs -----------------------------
(***************************************************************************)
(* What a night computes: how the union-find groups, what the needs on the *)
(* board are and what a bounty is paid for, and where a tool stands among  *)
(* its rivals.  For any callers, owners, queries, tools, thresholds, rules *)
(* and nearness.                                                           *)
(***************************************************************************)
EXTENDS Demand, Standing, FiniteSetTheorems, WellFoundedInduction, TLAPS

(* Wherever one starts, the parents end: among any elements there is one   *)
(* that is a root or whose parent is none of them.                         *)
Grounded(parent, S) ==
  /\ parent \in [S -> S]
  /\ \A T \in SUBSET S : T # {} =>
       \E y \in T : parent[y] = y \/ parent[y] \notin T

(* r is a root that every set closed under parents has which has y.        *)
RootOf(parent, S, y, r) ==
  /\ parent[r] = r
  /\ \A T \in SUBSET S : y \in T /\ (\A z \in T : parent[z] \in T) => r \in T

LEMMA RootExists ==
  ASSUME NEW S, NEW parent, Grounded(parent, S), NEW y \in S
  PROVE  \E r \in S : RootOf(parent, S, y, r)
<1> DEFINE Closed(T) == y \in T /\ \A z \in T : parent[z] \in T
           orbit == {z \in S : \A T \in SUBSET S : Closed(T) => z \in T}
<1>1. Closed(S)
  BY DEF Grounded
<1>2. Closed(orbit)
  BY <1>1
<1>3. PICK r \in orbit : parent[r] = r \/ parent[r] \notin orbit
  BY <1>2 DEF Grounded
<1> QED
  BY <1>2, <1>3 DEF RootOf

LEMMA RootIsUnique ==
  ASSUME NEW S, NEW parent, Grounded(parent, S)
  PROVE  \A y, r, q \in S : RootOf(parent, S, y, r) /\ RootOf(parent, S, y, q) => r = q
<1> DEFINE bad == {y \in S : \E r, q \in S : RootOf(parent, S, y, r) /\ RootOf(parent, S, y, q) /\ r # q}
<1> SUFFICES bad = {}
  OBVIOUS
<1> SUFFICES ASSUME bad # {} PROVE FALSE
  OBVIOUS
<1>1. PICK y \in bad : parent[y] = y \/ parent[y] \notin bad
  BY DEF Grounded
<1>2. PICK r \in S, q \in S : RootOf(parent, S, y, r) /\ RootOf(parent, S, y, q) /\ r # q
  BY <1>1
<1>3. CASE parent[y] = y
  <2>1. {y} \in SUBSET S /\ \A z \in {y} : parent[z] \in {y}
    BY <1>3
  <2> QED
    BY <2>1, <1>2 DEF RootOf
<1>4. CASE parent[y] # y
  <2>1. ASSUME NEW s \in S, RootOf(parent, S, y, s) PROVE RootOf(parent, S, parent[y], s)
    <3> SUFFICES ASSUME NEW T \in SUBSET S, parent[y] \in T, \A z \in T : parent[z] \in T
                 PROVE  s \in T
      BY <2>1 DEF RootOf
    <3>1. T \cup {y} \in SUBSET S /\ \A z \in T \cup {y} : parent[z] \in T \cup {y}
      OBVIOUS
    <3>2. s \in T \cup {y} /\ s # y
      BY <2>1, <3>1, <1>4 DEF RootOf
    <3> QED
      BY <3>2
  <2>2. parent[y] \in S
    BY DEF Grounded
  <2> QED
    BY <1>1, <1>2, <1>4, <2>1, <2>2
<1> QED
  BY <1>3, <1>4

LEMMA ParentHasTheRoot ==
  ASSUME NEW S, NEW parent, Grounded(parent, S), NEW y \in S, NEW r \in S,
         RootOf(parent, S, parent[y], r)
  PROVE  RootOf(parent, S, y, r)
BY DEF RootOf

(* Find() walks to the root.                                               *)
LEMMA FindsTheRoot ==
  ASSUME NEW S, NEW parent, Grounded(parent, S)
  PROVE  \A y \in S :
           /\ Find(parent, y) \in S
           /\ parent[Find(parent, y)] = Find(parent, y)
           /\ Find(parent, y) = IF parent[y] = y THEN y ELSE Find(parent, parent[y])
<1> DEFINE walk(g) == g = [y \in DOMAIN parent |-> IF parent[y] = y THEN y ELSE g[parent[y]]]
           f == [y \in S |-> CHOOSE r \in S : RootOf(parent, S, y, r)]
           found == CHOOSE g : walk(g)
<1>1. DOMAIN parent = S /\ \A y \in S : parent[y] \in S
  BY DEF Grounded
<1>2. \A y \in S : f[y] \in S /\ RootOf(parent, S, y, f[y])
  BY RootExists
<1>3. ASSUME NEW y \in S PROVE f[y] = IF parent[y] = y THEN y ELSE f[parent[y]]
  <2>1. CASE parent[y] = y
    <3>1. RootOf(parent, S, y, y)
      BY <2>1 DEF RootOf
    <3> QED
      BY <2>1, <3>1, <1>2, RootIsUnique
  <2>2. CASE parent[y] # y
    <3>1. RootOf(parent, S, parent[y], f[parent[y]]) /\ f[parent[y]] \in S
      BY <1>1, <1>2
    <3>2. RootOf(parent, S, y, f[parent[y]])
      BY <3>1, ParentHasTheRoot
    <3> QED
      BY <2>2, <3>1, <3>2, <1>2, RootIsUnique
  <2> QED
    BY <2>1, <2>2
<1>4. walk(f)
  <2> HIDE DEF f
  <2>1. f = [y \in S |-> f[y]]
    BY DEF f
  <2> QED
    BY <1>1, <1>3, <2>1
<1>5. walk(found)
  <2> HIDE DEF walk, f
  <2> QED
    BY <1>4
<1>6. \A y \in S : found[y] = IF parent[y] = y THEN y ELSE found[parent[y]]
  <2> HIDE DEF found
  <2> QED
    BY <1>1, <1>5
<1>7. \A y \in S : Find(parent, y) = found[y]
  BY DEF Find
<1> HIDE DEF found, f, walk
<1> DEFINE bad == {y \in S : found[y] # f[y]}
<1>8. bad = {}
  <2> SUFFICES ASSUME bad # {} PROVE FALSE
    OBVIOUS
  <2>1. PICK y \in bad : parent[y] = y \/ parent[y] \notin bad
    BY DEF Grounded
  <2> QED
    BY <2>1, <1>1, <1>3, <1>6
<1>9. \A y \in S : found[y] = f[y]
  BY <1>8
<1> QED
  BY <1>1, <1>2, <1>6, <1>7, <1>9 DEF RootOf

(* The group of a parent function: who has the same root.                  *)
LEMMA UnionJoins ==
  ASSUME NEW S, NEW parent, Grounded(parent, S), NEW a \in S, NEW b \in S, a # b
  PROVE  /\ Grounded(Union({a, b}, parent), S)
         /\ \E c, d \in {a, b} :
              /\ {c, d} = {a, b}
              /\ \A x \in S : Find(Union({a, b}, parent), x) =
                    IF Find(parent, x) = Find(parent, d) THEN Find(parent, c) ELSE Find(parent, x)
<1> DEFINE c == CHOOSE x \in {a, b} : TRUE
           d == CHOOSE x \in {a, b} : x # c
           root == Find(parent, d)
           new == Find(parent, c)
           joined == [parent EXCEPT ![root] = new]
<1>1. c \in {a, b} /\ d \in {a, b} /\ d # c
  BY Zenon
<1>2. {c, d} = {a, b} /\ c \in S /\ d \in S
  BY <1>1
<1>3. Union({a, b}, parent) = joined
  BY DEF Union
<1> HIDE DEF c, d
<1>4. root \in S /\ new \in S /\ parent[root] = root /\ parent[new] = new
  BY <1>2, FindsTheRoot
<1> HIDE DEF root, new
<1>5. joined \in [S -> S] /\ joined[root] = new /\ \A x \in S \ {root} : joined[x] = parent[x]
  BY <1>4 DEF Grounded
<1> HIDE DEF joined
<1>6. parent \in [S -> S]
  BY DEF Grounded
<1>7. \A x \in S : /\ Find(parent, x) \in S
                   /\ parent[Find(parent, x)] = Find(parent, x)
                   /\ Find(parent, x) = IF parent[x] = x THEN x ELSE Find(parent, parent[x])
  BY FindsTheRoot
<1>8. \A x \in S : Find(parent, parent[x]) = Find(parent, x)
  BY <1>7
<1>9. Find(parent, root) = root /\ Find(parent, new) = new
  BY <1>4, <1>7
<1>10. Grounded(joined, S)
  <2>1. ASSUME NEW T \in SUBSET S, T # {}
        PROVE  \E y \in T : joined[y] = y \/ joined[y] \notin T
    <3>1. CASE new = root
      <4>1. \A x \in S : joined[x] = parent[x]
        BY <3>1, <1>4, <1>5
      <4> QED
        BY <2>1, <4>1 DEF Grounded
    <3>2. CASE new # root
      <4> DEFINE others == {y \in T : Find(parent, y) # root}
      <4>1. CASE others # {}
        <5>1. PICK y \in others : parent[y] = y \/ parent[y] \notin others
          BY <4>1 DEF Grounded
        <5>2. y # root /\ joined[y] = parent[y] /\ y \in T
          BY <5>1, <1>5, <1>9
        <5>3. parent[y] \notin others => parent[y] \notin T
          BY <5>1, <1>8
        <5> QED
          BY <5>1, <5>2, <5>3
      <4>2. CASE others = {}
        <5>1. PICK y \in T : parent[y] = y \/ parent[y] \notin T
          BY <2>1 DEF Grounded
        <5>2. CASE y = root
          <6>1. joined[y] = new /\ new \notin T
            BY <5>2, <4>2, <1>5, <1>9, <3>2
          <6> QED
            BY <6>1
        <5>3. CASE y # root
          <6>1. joined[y] = parent[y]
            BY <5>3, <1>5
          <6> QED
            BY <5>1, <6>1
        <5> QED
          BY <5>2, <5>3
      <4> QED
        BY <4>1, <4>2
    <3> QED
      BY <3>1, <3>2
  <2> QED
    BY <2>1, <1>5 DEF Grounded
<1>11. \A x \in S : Find(joined, x) = IF joined[x] = x THEN x ELSE Find(joined, joined[x])
  BY <1>10, FindsTheRoot
<1>12. Find(joined, new) = new
  <2>1. CASE new = root
    BY <2>1, <1>4, <1>5, <1>11
  <2>2. CASE new # root
    BY <2>2, <1>4, <1>5, <1>11
  <2> QED
    BY <2>1, <2>2
<1>13. Find(joined, root) = new
  <2>1. Find(joined, root) = IF new = root THEN root ELSE Find(joined, new)
    BY <1>4, <1>5, <1>11
  <2> QED
    BY <2>1, <1>12
<1>14. \A x \in S : Find(joined, x) = IF Find(parent, x) = root THEN new ELSE Find(parent, x)
  <2> DEFINE wrong == {x \in S : Find(joined, x) # IF Find(parent, x) = root THEN new ELSE Find(parent, x)}
  <2> SUFFICES ASSUME wrong # {} PROVE FALSE
    OBVIOUS
  <2>1. PICK x \in wrong : parent[x] = x \/ parent[x] \notin wrong
    BY DEF Grounded
  <2>2. x \in S /\ x # root
    BY <2>1, <1>9, <1>13
  <2>3. joined[x] = parent[x] /\ parent[x] \in S
    BY <2>2, <1>5, <1>6
  <2>4. CASE parent[x] = x
    <3>1. Find(joined, x) = x /\ Find(parent, x) = x
      BY <2>2, <2>3, <2>4, <1>7, <1>11
    <3> QED
      BY <2>1, <2>2, <3>1
  <2>5. CASE parent[x] # x
    <3>1. Find(joined, x) = Find(joined, parent[x]) /\ Find(parent, x) = Find(parent, parent[x])
      BY <2>2, <2>3, <2>5, <1>7, <1>11
    <3>2. parent[x] \notin wrong
      BY <2>1, <2>5
    <3> QED
      BY <2>1, <2>3, <3>1, <3>2
  <2> QED
    BY <2>4, <2>5
<1>15. \A x \in S : Find(Union({a, b}, parent), x) =
          IF Find(parent, x) = Find(parent, d) THEN Find(parent, c) ELSE Find(parent, x)
  BY <1>14, <1>3 DEF root, new
<1> QED
  BY <1>1, <1>2, <1>3, <1>10, <1>15

(* What a parent function makes of a set of links: their ends are in one   *)
(* group, and nothing is in a group without a link that takes it there.    *)
Grouping(parent, S, links) ==
  /\ Grounded(parent, S)
  /\ \A link \in links : \A x, y \in link : Find(parent, x) = Find(parent, y)
  /\ \A Q \in SUBSET S :
       (\A link \in links : link \cap Q # {} => link \subseteq Q) =>
         (\A x \in S : x \in Q <=> Find(parent, x) \in Q)

IsLink(link, S) == \E a, b \in S : a # b /\ link = {a, b}

LEMMA NothingIsGrouped ==
  ASSUME NEW S
  PROVE  Grouping([x \in S |-> x], S, {})
<1> DEFINE parent == [x \in S |-> x]
<1>1. parent \in [S -> S] /\ \A x \in S : parent[x] = x
  OBVIOUS
<1> HIDE DEF parent
<1>2. Grounded(parent, S)
  BY <1>1 DEF Grounded
<1>3. \A x \in S : Find(parent, x) = x
  BY <1>1, <1>2, FindsTheRoot
<1>4. Grouping(parent, S, {})
  BY <1>2, <1>3 DEF Grouping
<1> QED
  BY <1>4 DEF parent

LEMMA UnionGroups ==
  ASSUME NEW S, NEW links \in SUBSET (SUBSET S), NEW parent, Grouping(parent, S, links),
         NEW link, IsLink(link, S)
  PROVE  Grouping(Union(link, parent), S, links \cup {link})
<1>1. PICK a \in S, b \in S : a # b /\ link = {a, b}
  BY DEF IsLink
<1> DEFINE joined == Union(link, parent)
<1>2. Grounded(parent, S)
  BY DEF Grouping
<1>3. Grounded(joined, S)
  BY <1>1, <1>2, UnionJoins
<1>4. PICK c \in {a, b}, d \in {a, b} :
        /\ {c, d} = {a, b}
        /\ \A x \in S : Find(joined, x) =
              IF Find(parent, x) = Find(parent, d) THEN Find(parent, c) ELSE Find(parent, x)
  BY <1>1, <1>2, UnionJoins
<1> HIDE DEF joined
<1>5. c \in S /\ d \in S /\ link = {c, d}
  BY <1>1, <1>4
<1>6. \A x \in S : Find(parent, x) \in S
  BY <1>2, FindsTheRoot
<1>7. ASSUME NEW l \in links \cup {link}, NEW x \in l, NEW y \in l
      PROVE  Find(joined, x) = Find(joined, y)
  <2>1. CASE l \in links
    <3>1. x \in S /\ y \in S /\ Find(parent, x) = Find(parent, y)
      BY <2>1, <1>7 DEF Grouping
    <3> QED
      BY <3>1, <1>4
  <2>2. CASE l = link
    <3>1. Find(joined, d) = Find(parent, c) /\ Find(joined, c) = Find(parent, c)
      BY <1>4, <1>5
    <3> QED
      BY <2>2, <3>1, <1>5, <1>7
  <2> QED
    BY <2>1, <2>2, <1>7
<1>8. ASSUME NEW Q \in SUBSET S, \A l \in links \cup {link} : l \cap Q # {} => l \subseteq Q,
             NEW x \in S
      PROVE  x \in Q <=> Find(joined, x) \in Q
  <2>1. \A y \in S : y \in Q <=> Find(parent, y) \in Q
    BY <1>8 DEF Grouping
  <2>2. c \in Q <=> d \in Q
    BY <1>5, <1>8
  <2>3. CASE Find(parent, x) = Find(parent, d)
    <3>1. Find(joined, x) = Find(parent, c)
      BY <2>3, <1>4
    <3> QED
      BY <2>1, <2>2, <2>3, <3>1, <1>5
  <2>4. CASE Find(parent, x) # Find(parent, d)
    <3>1. Find(joined, x) = Find(parent, x)
      BY <2>4, <1>4
    <3> QED
      BY <2>1, <3>1
  <2> QED
    BY <2>3, <2>4
<1>9. Grouping(joined, S, links \cup {link})
  BY <1>3, <1>7, <1>8 DEF Grouping
<1> QED
  BY <1>9 DEF joined

(* The fold over finitely many links exists, because one over n + 1 of     *)
(* them follows from those over n.                                         *)
Folds(g, links, n, base) ==
  LET few == {s \in SUBSET links : Cardinality(s) =< n}
  IN  g = [s \in few |->
             IF s = {} THEN base ELSE LET x == CHOOSE x \in s : TRUE IN Union(x, g[s \ {x}])]

LEMMA FoldsExtend ==
  ASSUME NEW links, IsFiniteSet(links), NEW n \in Nat, NEW base, NEW g, Folds(g, links, n, base)
  PROVE  \E h : Folds(h, links, n + 1, base)
<1> DEFINE few(m) == {s \in SUBSET links : Cardinality(s) =< m}
           next(f, s) == IF s = {} THEN base ELSE LET x == CHOOSE x \in s : TRUE IN Union(x, f[s \ {x}])
           h == [s \in few(n + 1) |-> next(g, s)]
<1>1. g = [s \in few(n) |-> next(g, s)]
  BY DEF Folds
<1>2. ASSUME NEW s \in few(n + 1) PROVE next(g, s) = next(h, s)
  <2>1. CASE s = {}
    BY <2>1
  <2>2. CASE s # {}
    <3> DEFINE x == CHOOSE x \in s : TRUE
    <3>1. x \in s
      BY <2>2
    <3>2. IsFiniteSet(s) /\ Cardinality(s) \in Nat /\ Cardinality(s) =< n + 1
      BY <1>2, FS_Subset, FS_CardinalityType
    <3>3. Cardinality(s \ {x}) = Cardinality(s) - 1
      BY <3>1, <3>2, FS_RemoveElement
    <3>4. s \ {x} \in few(n) /\ s \ {x} \in few(n + 1)
      BY <3>2, <3>3
    <3>5. g[s \ {x}] = next(g, s \ {x})
      <4> HIDE DEF next, x, few
      <4> QED
        BY <1>1, <3>4
    <3>6. h[s \ {x}] = next(g, s \ {x})
      <4> HIDE DEF next, x, few
      <4> QED
        BY <3>4
    <3> QED
      BY <2>2, <3>5, <3>6
  <2> QED
    BY <2>1, <2>2
<1>3. h = [s \in few(n + 1) |-> next(h, s)]
  <2> DEFINE k == [s \in few(n + 1) |-> next(h, s)]
  <2>1. h = [s \in few(n + 1) |-> next(g, s)]
    OBVIOUS
  <2> HIDE DEF h, next, few
  <2>2. [s \in few(n + 1) |-> next(g, s)] = k
    BY <1>2
  <2> QED
    BY <2>1, <2>2
<1>4. Folds(h, links, n + 1, base)
  <2> HIDE DEF h
  <2> QED
    BY <1>3 DEF Folds
<1> QED
  BY <1>4

LEMMA LeastNumber ==
  ASSUME NEW S \in SUBSET Nat, S # {}
  PROVE  \E n \in S : \A m \in S : n =< m
<1> DEFINE R == OpToRel(<, Nat)
<1>1. IsWellFoundedOn(R, Nat)
  BY NatLessThanWellFounded
<1>2. \A x, y \in Nat : x < y => <<x, y>> \in R
  BY DEF OpToRel
<1> HIDE DEF R
<1>3. PICK n \in S : \A m \in S : ~(<<m, n>> \in R)
  BY <1>1, WFMin
<1>4. ASSUME NEW m \in S PROVE n =< m
  <2>1. m \in Nat /\ n \in Nat
    OBVIOUS
  <2>2. ~(m < n)
    BY <1>2, <1>3, <2>1, Zenon
  <2> QED
    BY <2>1, <2>2
<1> QED
  BY <1>4

LEMMA FoldsExist ==
  ASSUME NEW links, IsFiniteSet(links), NEW base
  PROVE  \A n \in Nat : \E g : Folds(g, links, n, base)
<1> DEFINE none == {n \in Nat : ~ \E g : Folds(g, links, n, base)}
<1> SUFFICES ASSUME none # {} PROVE FALSE
  OBVIOUS
<1>1. PICK n \in none : \A m \in none : n =< m
  BY LeastNumber
<1>2. \E g : Folds(g, links, 0, base)
  <2> DEFINE few == {s \in SUBSET links : Cardinality(s) =< 0}
             next(f, s) == IF s = {} THEN base ELSE LET x == CHOOSE x \in s : TRUE IN Union(x, f[s \ {x}])
             g == [s \in few |-> base]
  <2>1. \A s \in few : s = {}
    <3> SUFFICES ASSUME NEW s \in few PROVE s = {}
      OBVIOUS
    <3>1. IsFiniteSet(s) /\ Cardinality(s) \in Nat /\ Cardinality(s) =< 0
      BY FS_Subset, FS_CardinalityType
    <3> QED
      BY <3>1, FS_EmptySet
  <2>2. \A s \in few : next(g, s) = base
    BY <2>1
  <2>3. g = [s \in few |-> next(g, s)]
    <3> DEFINE k == [s \in few |-> next(g, s)]
    <3>1. g = [s \in few |-> base]
      OBVIOUS
    <3> HIDE DEF g, next, few
    <3>2. [s \in few |-> base] = k
      BY <2>2
    <3> QED
      BY <3>1, <3>2
  <2>4. Folds(g, links, 0, base)
    <3> HIDE DEF g
    <3> QED
      BY <2>3 DEF Folds
  <2> QED
    BY <2>4
<1>3. n # 0
  BY <1>1, <1>2
<1>4. n - 1 \in Nat /\ ~(n =< n - 1) /\ (n - 1) + 1 = n
  BY <1>3
<1>5. PICK g : Folds(g, links, n - 1, base)
  BY <1>1, <1>4
<1>6. \E h : Folds(h, links, n, base)
  BY <1>4, <1>5, FoldsExtend
<1> QED
  BY <1>6

LEMMA FoldGroups ==
  ASSUME NEW S, NEW links, IsFiniteSet(links), \A link \in links : IsLink(link, S)
  PROVE  Grouping(FoldSet(Union, [x \in S |-> x], links), S, links)
<1> DEFINE base == [x \in S |-> x]
           next(g, s) == IF s = {} THEN base ELSE LET x == CHOOSE x \in s : TRUE IN Union(x, g[s \ {x}])
           folds(g) == g = [s \in SUBSET links |-> next(g, s)]
           found == CHOOSE g : folds(g)
<1>1. FoldSet(Union, base, links) = found[links]
  BY DEF FoldSet, MapThenFoldSet
<1>2. \E g : folds(g)
  <2> DEFINE n == Cardinality(links)
             few == {s \in SUBSET links : Cardinality(s) =< n}
  <2>1. n \in Nat /\ few = SUBSET links
    BY FS_Subset, FS_CardinalityType
  <2>2. PICK g : Folds(g, links, n, base)
    BY <2>1, FoldsExist
  <2>3. g = [s \in few |-> next(g, s)]
    BY <2>2 DEF Folds
  <2> HIDE DEF n, few, next
  <2>4. folds(g)
    BY <2>1, <2>3
  <2> QED
    BY <2>4
<1>3. folds(found)
  <2> HIDE DEF folds
  <2> QED
    BY <1>2, Zenon
<1> HIDE DEF found
<1>4. \A s \in SUBSET links : found[s] = next(found, s)
  <2> HIDE DEF next
  <2> QED
    BY <1>3
<1> HIDE DEF folds
<1>5. links \in SUBSET (SUBSET S)
  BY DEF IsLink
<1>6. ASSUME NEW n \in Nat, \A s \in SUBSET links : Cardinality(s) < n => Grouping(found[s], S, s),
             NEW s \in SUBSET links, Cardinality(s) = n
      PROVE  Grouping(found[s], S, s)
  <2>1. CASE s = {}
    BY <2>1, <1>4, NothingIsGrouped
  <2>2. CASE s # {}
    <3> DEFINE x == CHOOSE x \in s : TRUE
    <3>1. x \in s
      BY <2>2
    <3>2. found[s] = Union(x, found[s \ {x}])
      BY <2>2, <1>4
    <3> HIDE DEF x
    <3>3. IsFiniteSet(s) /\ Cardinality(s) \in Nat
      BY FS_Subset, FS_CardinalityType
    <3>4. Cardinality(s \ {x}) = Cardinality(s) - 1
      BY <3>1, <3>3, FS_RemoveElement
    <3>5. Cardinality(s \ {x}) < n
      BY <3>3, <3>4, <1>6
    <3>6. Grouping(found[s \ {x}], S, s \ {x})
      BY <3>5, <1>6
    <3>7. IsLink(x, S) /\ s \ {x} \in SUBSET (SUBSET S)
      BY <3>1, <1>5
    <3>8. Grouping(found[s], S, (s \ {x}) \cup {x})
      BY <3>2, <3>6, <3>7, UnionGroups
    <3>9. (s \ {x}) \cup {x} = s
      BY <3>1
    <3> QED
      BY <3>8, <3>9
  <2> QED
    BY <2>1, <2>2
<1>7. \A s \in SUBSET links : Grouping(found[s], S, s)
  <2> DEFINE bad == {s \in SUBSET links : ~Grouping(found[s], S, s)}
             sizes == {n \in Nat : \E s \in bad : Cardinality(s) = n}
  <2> SUFFICES ASSUME NEW s \in bad PROVE FALSE
    OBVIOUS
  <2>1. \A t \in SUBSET links : Cardinality(t) \in Nat
    BY FS_Subset, FS_CardinalityType
  <2>2. sizes # {} /\ sizes \in SUBSET Nat
    BY <2>1
  <2>3. PICK n \in sizes : \A m \in sizes : n =< m
    BY <2>2, LeastNumber
  <2>4. PICK t \in bad : Cardinality(t) = n
    BY <2>3
  <2>5. ASSUME NEW u \in SUBSET links, Cardinality(u) < n PROVE Grouping(found[u], S, u)
    <3>1. Cardinality(u) \in Nat /\ n \in Nat
      BY <2>1
    <3>2. Cardinality(u) \notin sizes
      BY <2>3, <2>5, <3>1
    <3> QED
      BY <3>1, <3>2
  <2> QED
    BY <1>6, <2>4, <2>5
<1> QED
  BY <1>1, <1>7

(* The links of the models are the sets of two elements.                   *)
LEMMA TwoAreALink ==
  ASSUME NEW S, IsFiniteSet(S)
  PROVE  /\ IsFiniteSet(kSubset(2, S))
         /\ \A link \in kSubset(2, S) : IsLink(link, S)
         /\ \A a, b \in S : a # b => {a, b} \in kSubset(2, S)
<1>1. IsFiniteSet(kSubset(2, S))
  <2>1. kSubset(2, S) \in SUBSET (SUBSET S)
    BY DEF kSubset
  <2> QED
    BY <2>1, FS_SUBSET, FS_Subset
<1>2. ASSUME NEW link \in kSubset(2, S) PROVE IsLink(link, S)
  <2>1. link \in SUBSET S /\ Cardinality(link) = 2
    BY DEF kSubset
  <2>2. IsFiniteSet(link)
    BY <2>1, FS_Subset
  <2>3. link # {}
    BY <2>1, FS_EmptySet
  <2>4. PICK a \in link : TRUE
    BY <2>3
  <2>5. IsFiniteSet(link \ {a}) /\ Cardinality(link \ {a}) = 1
    BY <2>1, <2>2, <2>4, FS_RemoveElement
  <2>6. PICK b : link \ {a} = {b}
    BY <2>5, FS_Singleton
  <2>7. a # b /\ link = {a, b} /\ a \in S /\ b \in S
    BY <2>1, <2>4, <2>6
  <2> QED
    BY <2>7 DEF IsLink
<1>3. ASSUME NEW a \in S, NEW b \in S, a # b PROVE {a, b} \in kSubset(2, S)
  <2>1. {a} \cup {b} = {a, b} /\ b \notin {a}
    BY <1>3
  <2>2. IsFiniteSet({a}) /\ Cardinality({a}) = 1
    BY FS_Singleton
  <2>3. Cardinality({a} \cup {b}) = 1 + 1
    BY <2>1, <2>2, FS_AddElement
  <2> QED
    BY <2>1, <2>3 DEF kSubset
<1> QED
  BY <1>1, <1>2, <1>3

(* What Groups() computes: a partition, which no link leaves, and none of  *)
(* its parts falls into two without a link between them.                   *)
THEOREM GroupsAreConnected ==
  ASSUME NEW S, NEW links, IsFiniteSet(links), \A link \in links : IsLink(link, S)
  PROVE  /\ UNION Groups(S, links) = S
         /\ \A G, H \in Groups(S, links) : G # H => G \cap H = {}
         /\ \A G \in Groups(S, links) : G # {}
         /\ \A link \in links : \E G \in Groups(S, links) : link \subseteq G
         /\ \A G \in Groups(S, links), Q \in SUBSET S :
              (\A link \in links : link \cap Q # {} => link \subseteq Q) =>
                (G \cap Q # {} => G \subseteq Q)
<1> DEFINE parent == FoldSet(Union, [x \in S |-> x], links)
<1>1. Grouping(parent, S, links)
  BY FoldGroups
<1>2. Groups(S, links) = {{x \in S : Find(parent, x) = root} : root \in {Find(parent, x) : x \in S}}
  BY DEF Groups
<1> HIDE DEF parent
<1>3. UNION Groups(S, links) = S
  BY <1>2
<1>4. \A G, H \in Groups(S, links) : G # H => G \cap H = {}
  BY <1>2
<1>5. \A G \in Groups(S, links) : G # {}
  BY <1>2
<1>6. \A link \in links : \E G \in Groups(S, links) : link \subseteq G
  <2> SUFFICES ASSUME NEW link \in links
               PROVE  \E G \in Groups(S, links) : link \subseteq G
    OBVIOUS
  <2>1. PICK a \in S, b \in S : link = {a, b}
    BY DEF IsLink
  <2>2. Find(parent, a) = Find(parent, b)
    BY <1>1, <2>1 DEF Grouping
  <2>3. {x \in S : Find(parent, x) = Find(parent, a)} \in Groups(S, links)
    BY <1>2
  <2> QED
    BY <2>1, <2>2, <2>3
<1>7. ASSUME NEW G \in Groups(S, links), NEW Q \in SUBSET S,
             \A link \in links : link \cap Q # {} => link \subseteq Q, G \cap Q # {}
      PROVE  G \subseteq Q
  <2>1. PICK root : G = {x \in S : Find(parent, x) = root}
    BY <1>2
  <2>2. \A x \in S : x \in Q <=> Find(parent, x) \in Q
    BY <1>1, <1>7 DEF Grouping
  <2> QED
    BY <2>1, <2>2, <1>7
<1> QED
  BY <1>3, <1>4, <1>5, <1>6, <1>7

-----------------------------------------------------------------------------
(* A need is a part of the table. *)
LEMMA NeedIsPartOfTable ==
  ASSUME NEW need \in Needs(gaps)
  PROVE  need \subseteq gaps
BY DEF Needs, Clusters, Groups, Real

(* The owners and the queries of finitely many gaps are finitely many. *)
LEMMA FinitelyManyOwners ==
  ASSUME NEW rows, IsFiniteSet(rows)
  PROVE  IsFiniteSet({Owner[g.caller] : g \in rows})
<1> DEFINE f == [g \in rows |-> Owner[g.caller]]
<1>1. f \in Surjection(rows, {Owner[g.caller] : g \in rows})
  BY DEF Surjection
<1> QED
  BY <1>1, FS_Surjection

LEMMA FinitelyManyQueries ==
  ASSUME NEW rows, IsFiniteSet(rows)
  PROVE  IsFiniteSet(Asked(rows))
<1> DEFINE f == [g \in rows |-> g.query]
<1>1. f \in Surjection(rows, Asked(rows))
  BY DEF Surjection, Asked
<1> QED
  BY <1>1, FS_Surjection

Finite == IsFiniteSet(gaps) /\ IsFiniteSet(used)

(* Both tables only grow by one entry at a time. *)
LEMMA TablesGrow ==
  ASSUME Finite, [Next]_vars
  PROVE  Finite' /\ used \subseteq used'
<1>1. ASSUME NEW q \in Queries, NEW c \in Callers, Ask(q, c)
      PROVE  Finite' /\ used \subseteq used'
  BY <1>1, FS_AddElement DEF Ask, Finite
<1>2. ASSUME NEW c \in Callers, Use(c)
      PROVE  Finite' /\ used \subseteq used'
  BY <1>2, FS_AddElement DEF Use, Finite
<1>3. CASE NextDay
  BY <1>3 DEF NextDay, Finite
<1>4. ASSUME NEW need \in Needs(gaps), Claim(need)
      PROVE  Finite' /\ used \subseteq used'
  BY <1>4 DEF Claim, Finite
<1>5. CASE UNCHANGED vars
  BY <1>5 DEF vars, Finite
<1> QED
  BY <1>1, <1>2, <1>3, <1>4, <1>5 DEF Next

LEMMA AllPhrasingsShown ==
  ASSUME NEW need, IsFiniteSet(need), NEW qs \in Phrasings(need),
         Cardinality(Asked(need)) <= MaxPhrasings, RuleAssumption
  PROVE  qs = Asked(need)
<1>1. IsFiniteSet(Asked(need)) /\ Cardinality(Asked(need)) \in Nat
  BY FinitelyManyQueries, FS_CardinalityType
<1>2. Min({Cardinality(Asked(need)), MaxPhrasings}) = Cardinality(Asked(need))
  BY <1>1 DEF Min, RuleAssumption
<1>3. qs \in SUBSET Asked(need) /\ Cardinality(qs) = Cardinality(Asked(need))
  BY <1>2 DEF Phrasings
<1> QED
  BY <1>1, <1>3, FS_Subset

-----------------------------------------------------------------------------
Paid == Finite /\ PaidForMostPhrasings

(* A bounty is paid for a tool the judge chose for most of the phrasings   *)
(* of a need, as long as the board shows all of them.                      *)
THEOREM MostPhrasingsAreAnswered == Spec => []PaidForMostPhrasings
<1>1. Init => Paid
  BY FS_EmptySet DEF Init, Paid, Finite, PaidForMostPhrasings
<1>2. Paid /\ [Next]_vars => Paid'
  <2> SUFFICES ASSUME Paid, [Next]_vars PROVE Paid'
    OBVIOUS
  <2>1. Finite'
    BY TablesGrow DEF Paid
  <2>2. CASE UNCHANGED award
    BY <2>1, <2>2 DEF Paid, PaidForMostPhrasings
  <2>3. ASSUME NEW need \in Needs(gaps), Claim(need)
        PROVE  Paid'
    <3>1. IsFiniteSet(need)
      BY NeedIsPartOfTable, FS_Subset DEF Paid, Finite
    <3>2. PICK qs \in Phrasings(need), answers \in [Queries -> Verdicts] :
            /\ Closes([q \in qs |-> answers[q]])
            /\ award' = [need |-> need, verdict |-> [q \in qs |-> answers[q]]]
      BY <2>3 DEF Claim
    <3>3. PaidForMostPhrasings'
      <4> SUFFICES ASSUME Cardinality(Asked(need)) <= MaxPhrasings
                   PROVE  5 * Cardinality({q \in DOMAIN award'.verdict : award'.verdict[q] = "tool"})
                            >= 4 * Cardinality(Asked(need))
        BY <3>2 DEF PaidForMostPhrasings, Asked
      <4>1. qs = Asked(need)
        BY <3>1, AllPhrasingsShown, RuleAssumption
      <4> QED
        BY <3>2, <4>1 DEF Closes
    <3> QED
      BY <2>1, <3>3 DEF Paid
  <2> QED
    BY <2>2, <2>3 DEF Next, NextDay, Ask, Use, vars
<1> QED
  BY <1>1, <1>2, PTL DEF Spec, Paid

-----------------------------------------------------------------------------
(* What the simulation asks joins no needs and confirms none, and what it  *)
(* calls adopts nothing: the board and the adoption of the tool are as     *)
(* they were.                                                              *)
THEOREM SimulationIsSplitOff == Spec => SimulationMovesNothing
<1>1. ASSUME NEW c \in Simulated, NEW q \in Queries, Ask(q, c)
      PROVE  Needs(gaps') = Needs(gaps) /\ Adopted' = Adopted
  <2> DEFINE g == [query |-> q, caller |-> c, day |-> today]
  <2>1. gaps' = gaps \cup {g} /\ g.caller = c
    BY <1>1 DEF Ask
  <2> HIDE DEF g
  <2>2. Real(gaps') = Real(gaps)
    BY <2>1 DEF Real
  <2>3. used' = used
    BY <1>1 DEF Ask
  <2> QED
    BY <2>2, <2>3, Zenon DEF Needs, Adopted
<1>2. ASSUME NEW c \in Simulated, Use(c)
      PROVE  Needs(gaps') = Needs(gaps) /\ Adopted' = Adopted
  <2>1. used' = used \cup {c} /\ gaps' = gaps /\ ~Counts(c)
    BY <1>2 DEF Use, Counts
  <2>2. {x \in used' : Counts(x)} = {x \in used : Counts(x)}
    BY <2>1
  <2>3. Adopted' = Adopted
    BY <2>2 DEF Adopted
  <2> QED
    BY <2>1, <2>3
<1>3. (\E c \in Simulated : Use(c) \/ \E q \in Queries : Ask(q, c)) =>
         Needs(gaps') = Needs(gaps) /\ Adopted' = Adopted
  BY <1>1, <1>2, Zenon
<1> QED
  BY <1>3, PTL DEF SimulationMovesNothing
-----------------------------------------------------------------------------
(* What the needs are, of any finite table. *)
Near2(rows) == {pair \in kSubset(2, rows) : \A g, h \in pair : Close(g, h)}

LEMMA PairsAreLinks ==
  ASSUME NEW rows, IsFiniteSet(rows)
  PROVE  /\ IsFiniteSet(Near2(rows))
         /\ \A link \in Near2(rows) : IsLink(link, rows)
         /\ \A g, h \in rows : g # h /\ Close(g, h) => {g, h} \in Near2(rows)
<1>1. Near2(rows) \subseteq kSubset(2, rows)
  BY DEF Near2
<1>2. ASSUME NEW g \in rows, NEW h \in rows, g # h, Close(g, h)
      PROVE  {g, h} \in Near2(rows)
  <2>1. {g, h} \in kSubset(2, rows)
    BY <1>2, TwoAreALink
  <2>2. \A x, y \in {g, h} : Close(x, y)
    <3>1. {g.query, h.query} = {h.query, g.query}
      OBVIOUS
    <3> QED
      BY <1>2, <3>1 DEF Close
  <2> QED
    BY <2>1, <2>2 DEF Near2
<1> QED
  BY <1>1, <1>2, TwoAreALink, FS_Subset

(* The needs are the parts of the table that no near pair leaves and that  *)
(* cannot be cut in two without parting one.                               *)
LEMMA ClustersAreChains ==
  ASSUME NEW rows, IsFiniteSet(rows)
  PROVE  /\ UNION Clusters(rows) = rows
         /\ \A need \in Clusters(rows) :
              /\ need # {}
              /\ \A g \in need, h \in rows \ need : ~ Close(g, h)
              /\ \A part \in (SUBSET need) \ {{}, need} : \E g \in part, h \in need \ part : Close(g, h)
<1> DEFINE links == Near2(rows)
<1>1. Clusters(rows) = Groups(rows, links)
  BY DEF Clusters, Near2
<1>2. IsFiniteSet(links) /\ \A link \in links : IsLink(link, rows)
  BY PairsAreLinks
<1>3. \A g, h \in rows : g # h /\ Close(g, h) => {g, h} \in links
  BY PairsAreLinks
<1>4. \A link \in links : \A g, h \in link : Close(g, h)
  BY DEF Near2
<1> HIDE DEF links
<1>5. /\ UNION Clusters(rows) = rows
      /\ \A G, H \in Clusters(rows) : G # H => G \cap H = {}
      /\ \A G \in Clusters(rows) : G # {}
      /\ \A link \in links : \E G \in Clusters(rows) : link \subseteq G
      /\ \A G \in Clusters(rows), Q \in SUBSET rows :
           (\A link \in links : link \cap Q # {} => link \subseteq Q) =>
             (G \cap Q # {} => G \subseteq Q)
  <2>1. Groups(rows, links) = Clusters(rows)
    BY <1>1
  <2> QED
    BY <1>2, <2>1, GroupsAreConnected
<1>6. ASSUME NEW need \in Clusters(rows), NEW g \in need, NEW h \in rows \ need, Close(g, h)
      PROVE  FALSE
  <2>1. g \in rows /\ {g, h} \in links
    BY <1>3, <1>5, <1>6
  <2>2. PICK G \in Clusters(rows) : {g, h} \subseteq G
    BY <1>5, <2>1
  <2> QED
    BY <1>5, <1>6, <2>2
<1>7. ASSUME NEW need \in Clusters(rows), NEW part \in (SUBSET need) \ {{}, need}
      PROVE  \E g \in part, h \in need \ part : Close(g, h)
  <2> SUFFICES ASSUME \A g \in part, h \in need \ part : ~ Close(g, h) PROVE FALSE
    OBVIOUS
  <2>1. part \in SUBSET rows /\ need \cap part # {}
    BY <1>5
  <2>2. ASSUME NEW link \in links, link \cap part # {} PROVE link \subseteq part
    <3>1. PICK g \in link : g \in part
      BY <2>2
    <3>2. ASSUME NEW h \in link PROVE h \in part
      <4>1. h \in rows /\ Close(g, h)
        BY <1>2, <1>4, <3>1 DEF IsLink
      <4>2. h \in need
        BY <1>6, <3>1, <4>1
      <4> QED
        BY <3>1, <4>1, <4>2
    <3> QED
      BY <3>2
  <2>3. need \subseteq part
    BY <1>5, <2>1, <2>2
  <2> QED
    BY <2>3
<1> QED
  BY <1>5, <1>6, <1>7

LEMMA FiniteIsInvariant == Spec => []Finite
<1>1. Init => Finite
  BY FS_EmptySet DEF Init, Finite
<1>2. Finite /\ [Next]_vars => Finite'
  BY TablesGrow
<1> QED
  BY <1>1, <1>2, PTL DEF Spec

(* The needs on the board are the chains of near gaps, in whatever order   *)
(* the union-find takes them: no two gaps that are near each other are     *)
(* apart, and no need could be cut in two without parting such a pair.     *)
THEOREM NeedsAreWhole == Spec => []NeedsAreChains
<1>1. Finite => NeedsAreChains
  <2> SUFFICES ASSUME Finite PROVE NeedsAreChains
    OBVIOUS
  <2>1. IsFiniteSet(Real(gaps))
    BY FS_Subset DEF Finite, Real
  <2> QED
    BY <2>1, ClustersAreChains DEF NeedsAreChains, Needs
<1> QED
  BY <1>1, FiniteIsInvariant, PTL
-----------------------------------------------------------------------------
(* Needs only gain evidence.  Every gap has a day on which it was asked.   *)
Dated == today \in 0..MaxDay /\ \A g \in gaps : g.day \in 0..MaxDay

LEMMA DatedIsInvariant == Spec => []Dated
<1>1. Init => Dated
  BY RuleAssumption DEF Init, Dated
<1>2. Dated /\ [Next]_vars => Dated'
  <2> SUFFICES ASSUME Dated, [Next]_vars PROVE Dated'
    OBVIOUS
  <2>1. CASE NextDay
    BY <2>1, RuleAssumption DEF NextDay, Dated
  <2>2. ASSUME NEW q \in Queries, NEW c \in Callers, Ask(q, c) PROVE Dated'
    <3> DEFINE asked == [query |-> q, caller |-> c, day |-> today]
    <3>1. gaps' = gaps \cup {asked} /\ asked.day = today /\ today' = today
      BY <2>2 DEF Ask
    <3> HIDE DEF asked
    <3> QED
      BY <3>1 DEF Dated
  <2>3. CASE UNCHANGED <<today, gaps>>
    BY <2>3 DEF Dated
  <2> QED
    BY <2>1, <2>2, <2>3 DEF Next, Use, Claim, vars
<1> QED
  BY <1>1, <1>2, PTL DEF Spec

LEMMA DaysHaveEnds ==
  ASSUME NEW days \in SUBSET (0..MaxDay), days # {}
  PROVE  /\ Min(days) \in days /\ \A d \in days : Min(days) =< d
         /\ Max(days) \in days /\ \A d \in days : Max(days) >= d
<1>1. \E x \in days : \A y \in days : x =< y
  <2>1. days \in SUBSET Nat
    OBVIOUS
  <2> QED
    BY <2>1, LeastNumber
<1>2. \E x \in days : \A y \in days : x >= y
  <2> DEFINE left == {n \in 0..MaxDay : MaxDay - n \in days}
  <2>1. left \in SUBSET Nat
    OBVIOUS
  <2>2. left # {}
    <3>1. PICK d \in days : TRUE
      OBVIOUS
    <3>2. MaxDay - d \in 0..MaxDay /\ MaxDay - (MaxDay - d) = d
      BY RuleAssumption
    <3> QED
      BY <3>1, <3>2
  <2>3. PICK n \in left : \A m \in left : n =< m
    BY <2>1, <2>2, LeastNumber
  <2>4. ASSUME NEW y \in days PROVE MaxDay - n >= y
    <3>1. y \in 0..MaxDay
      OBVIOUS
    <3>2. MaxDay - y \in 0..MaxDay /\ MaxDay - (MaxDay - y) = y
      BY <3>1, RuleAssumption
    <3>3. n =< MaxDay - y
      BY <2>3, <3>2
    <3> QED
      BY <3>1, <3>3, RuleAssumption
  <2> QED
    BY <2>4
<1> QED
  BY <1>1, <1>2 DEF Min, Max

(* Who judges a need sees: the days between the first request and the last, *)
(* and some of its callers.                                                *)
Seen(rows, who) == [callers |-> {g.caller : g \in rows} \cap who, spread |-> Spread(rows)]

(* Whatever a need is a part of is asked for by its callers too, and at    *)
(* least as long; so it is for whichever callers are counted.              *)
LEMMA EvidenceGrows ==
  ASSUME NEW later, IsFiniteSet(later), \A g \in later : g.day \in 0..MaxDay,
         NEW need \in SUBSET later, need # {}, NEW who, Confirmed(Seen(need, who))
  PROVE  Confirmed(Seen(later, who))
<1> DEFINE callers(rows) == {g.caller : g \in rows} \cap who
           days(rows) == {g.day : g \in rows}
<1>1. callers(need) \subseteq callers(later) /\ IsFiniteSet(callers(later))
  <2> DEFINE all == {g.caller : g \in later}
             f == [g \in later |-> g.caller]
  <2>1. f \in Surjection(later, all)
    BY DEF Surjection
  <2>2. IsFiniteSet(all)
    BY <2>1, FS_Surjection
  <2> QED
    BY <2>2, FS_Subset
<1>2. OwnersOf(callers(need)) \subseteq OwnersOf(callers(later))
  BY <1>1 DEF OwnersOf
<1>3. IsFiniteSet(OwnersOf(callers(later)))
  <2> DEFINE f == [g \in later |-> Owner[g.caller]]
             all == {Owner[g.caller] : g \in later}
  <2>1. OwnersOf(callers(later)) \in SUBSET all
    BY DEF OwnersOf
  <2> QED
    BY <2>1, FinitelyManyOwners, FS_Subset
<1>4. Spread(later) >= Spread(need)
  <2>1. /\ days(need) \in SUBSET (0..MaxDay) /\ days(need) # {}
        /\ days(later) \in SUBSET (0..MaxDay) /\ days(later) # {}
        /\ days(need) \subseteq days(later)
    OBVIOUS
  <2> HIDE DEF days
  <2>2. /\ Min(days(later)) =< Min(days(need)) /\ Max(days(later)) >= Max(days(need))
        /\ {Min(days(later)), Min(days(need)), Max(days(later)), Max(days(need))} \subseteq 0..MaxDay
    BY <2>1, DaysHaveEnds
  <2>3. Spread(later) = Max(days(later)) - Min(days(later)) /\ Spread(need) = Max(days(need)) - Min(days(need))
    BY DEF Spread, days
  <2> DEFINE a == Max(days(later))
             b == Min(days(later))
             c == Max(days(need))
             d == Min(days(need))
  <2>4. a \in Nat /\ b \in Nat /\ c \in Nat /\ d \in Nat /\ b =< d /\ a >= c
    BY <2>2
  <2> HIDE DEF a, b, c, d
  <2>5. a - b >= c - d
    BY <2>4
  <2> QED
    BY <2>3, <2>5 DEF a, b, c, d
<1>5. Spread(later) \in Int /\ Spread(need) \in Int
  <2>1. /\ days(need) \in SUBSET (0..MaxDay) /\ days(need) # {}
        /\ days(later) \in SUBSET (0..MaxDay) /\ days(later) # {}
    OBVIOUS
  <2> HIDE DEF days
  <2>2. {Min(days(later)), Min(days(need)), Max(days(later)), Max(days(need))} \subseteq 0..MaxDay
    BY <2>1, DaysHaveEnds
  <2> QED
    BY <2>2 DEF Spread, days
<1>6. /\ Cardinality(callers(need)) \in Nat /\ Cardinality(callers(later)) \in Nat
      /\ Cardinality(callers(need)) =< Cardinality(callers(later))
  BY <1>1, FS_Subset, FS_CardinalityType
<1>7. /\ Cardinality(OwnersOf(callers(need))) \in Nat /\ Cardinality(OwnersOf(callers(later))) \in Nat
      /\ Cardinality(OwnersOf(callers(need))) =< Cardinality(OwnersOf(callers(later)))
  BY <1>2, <1>3, FS_Subset, FS_CardinalityType
<1>8. /\ Cardinality(callers(need)) >= MinCallers
      /\ Cardinality(OwnersOf(callers(need))) >= MinCallers
      /\ Spread(need) >= MinSpread
  BY DEF Confirmed, Seen
<1>9. Seen(later, who).callers = callers(later) /\ Seen(later, who).spread = Spread(later)
  BY DEF Seen
<1> HIDE DEF callers
<1>10. Cardinality(callers(later)) >= MinCallers
  BY <1>6, <1>8, RuleAssumption
<1>11. Cardinality(OwnersOf(callers(later))) >= MinCallers
  BY <1>7, <1>8, RuleAssumption
<1>12. Spread(later) >= MinSpread
  BY <1>4, <1>5, <1>8, RuleAssumption
<1> QED
  BY <1>9, <1>10, <1>11, <1>12 DEF Confirmed

LEMMA ConfirmedGrows ==
  ASSUME NEW later, IsFiniteSet(later), \A g \in later : g.day \in 0..MaxDay,
         NEW need \in SUBSET later, need # {}, Confirmed(Summary(need))
  PROVE  Confirmed(Summary(later))
<1> DEFINE who == {g.caller : g \in later}
<1>1. Seen(need, who) = Summary(need) /\ Seen(later, who) = Summary(later)
  <2>1. {g.caller : g \in need} \cap who = {g.caller : g \in need}
    OBVIOUS
  <2> QED
    BY <2>1 DEF Seen, Summary
<1> HIDE DEF who
<1> QED
  BY <1>1, EvidenceGrows

LEMMA EligibleGrows ==
  ASSUME NEW later, IsFiniteSet(later), \A g \in later : g.day \in 0..MaxDay,
         NEW need \in SUBSET later, need # {}, NEW owner, Eligible(need, owner)
  PROVE  Eligible(later, owner)
<1> DEFINE who == {c \in {g.caller : g \in later} : owner = None \/ Owner[c] # owner}
<1>1. ASSUME NEW rows
      PROVE  WithoutBeneficiary(Summary(rows), owner) =
               [callers |-> {c \in {g.caller : g \in rows} : owner = None \/ Owner[c] # owner},
                spread  |-> Spread(rows)]
  <2> DEFINE all == {g.caller : g \in rows}
             days == Spread(rows)
             kept(callers) == {c \in callers : owner = None \/ Owner[c] # owner}
  <2>1. Summary(rows) = [callers |-> all, spread |-> days]
    BY DEF Summary
  <2>2. WithoutBeneficiary(Summary(rows), owner)
          = [Summary(rows) EXCEPT !.callers = kept(Summary(rows).callers)]
    BY Zenon DEF WithoutBeneficiary
  <2> HIDE DEF all, days, kept
  <2>3. WithoutBeneficiary(Summary(rows), owner) = [callers |-> kept(all), spread |-> days]
    BY <2>1, <2>2
  <2> QED
    BY <2>3 DEF all, days, kept
<1>2. {c \in {g.caller : g \in need} : owner = None \/ Owner[c] # owner}
        = {g.caller : g \in need} \cap who
  OBVIOUS
<1>3. who = {g.caller : g \in later} \cap who
  OBVIOUS
<1>4. WithoutBeneficiary(Summary(need), owner) = Seen(need, who)
  BY <1>1, <1>2, Zenon DEF Seen
<1>5. WithoutBeneficiary(Summary(later), owner) = Seen(later, who)
  <2>1. WithoutBeneficiary(Summary(later), owner) = [callers |-> who, spread |-> Spread(later)]
    BY <1>1, Zenon
  <2> HIDE DEF who
  <2> QED
    BY <2>1, <1>3 DEF Seen
<1> HIDE DEF who
<1> QED
  BY <1>4, <1>5, EvidenceGrows DEF Eligible

(* Gaps that are added split no need.                                      *)
LEMMA NeedsGrow ==
  ASSUME NEW rows, NEW more, IsFiniteSet(more), rows \subseteq more, NEW need \in Clusters(rows)
  PROVE  \E later \in Clusters(more) : need \subseteq later
<1>1. IsFiniteSet(rows)
  BY FS_Subset
<1>2. need # {} /\ need \subseteq rows
  BY <1>1, ClustersAreChains
<1>3. UNION Clusters(more) = more
  BY ClustersAreChains
<1>4. PICK later \in Clusters(more) : need \cap later # {}
  BY <1>2, <1>3
<1>5. \A g \in later, h \in more \ later : ~ Close(g, h)
  BY ClustersAreChains
<1> DEFINE part == need \cap later
<1>6. \A g \in part, h \in need \ part : ~ Close(g, h)
  BY <1>2, <1>5
<1>7. part = need
  <2> SUFFICES ASSUME part # need PROVE FALSE
    OBVIOUS
  <2>1. part \in (SUBSET need) \ {{}, need}
    BY <1>4
  <2>2. \E g \in part, h \in need \ part : Close(g, h)
    BY <1>1, <2>1, ClustersAreChains
  <2> QED
    BY <1>6, <2>2
<1> QED
  BY <1>7

(* A need that was confirmed stays part of a confirmed one, however needs  *)
(* grow and merge and whoever asks.                                        *)
THEOREM ConfirmationsAreKept == Spec => ConfirmedForGood
<1> DEFINE Keeps == LET confirmed == {need \in Needs(gaps') : Confirmed(Summary(need))}
                    IN  \A need \in Needs(gaps) : Confirmed(Summary(need)) =>
                          \E later \in confirmed : need \subseteq later
<1>1. ASSUME Finite, Finite', Dated', [Next]_vars PROVE gaps' # gaps => Keeps
  <2> SUFFICES ASSUME gaps' # gaps, NEW need \in Needs(gaps), Confirmed(Summary(need))
               PROVE  \E later \in Needs(gaps') : Confirmed(Summary(later)) /\ need \subseteq later
    OBVIOUS
  <2>1. gaps \subseteq gaps'
    BY <1>1 DEF Next, NextDay, Ask, Use, Claim, vars
  <2>2. Real(gaps) \subseteq Real(gaps') /\ IsFiniteSet(Real(gaps')) /\ IsFiniteSet(Real(gaps))
    BY <1>1, <2>1, FS_Subset DEF Real, Finite
  <2>3. PICK later \in Needs(gaps') : need \subseteq later
    BY <2>2, NeedsGrow DEF Needs
  <2>4. need # {} /\ later \subseteq Real(gaps')
    BY <2>2, ClustersAreChains DEF Needs
  <2>5. IsFiniteSet(later) /\ \A g \in later : g.day \in 0..MaxDay
    BY <1>1, <2>2, <2>4, FS_Subset DEF Real, Dated
  <2> QED
    BY <2>3, <2>4, <2>5, ConfirmedGrows
<1>2. Finite /\ Finite' /\ Dated' /\ [Next]_vars => [gaps' # gaps => Keeps]_vars
  BY <1>1
<1> QED
  BY <1>2, FiniteIsInvariant, DatedIsInvariant, PTL DEF Spec, ConfirmedForGood

-----------------------------------------------------------------------------
Awarded == AwardStands /\ (award # None => award.need # {})

(* What earned a bounty stays part of a need that is eligible for its      *)
(* claimant, however needs grow and merge and whoever asks.                *)
THEOREM AwardsStand == Spec => []AwardStands
<1>1. Init => Awarded
  BY DEF Init, Awarded, AwardStands
<1>2. ASSUME Finite, Finite', Dated', Awarded, [Next]_vars PROVE Awarded'
  <2>1. gaps \subseteq gaps'
    BY <1>2 DEF Next, NextDay, Ask, Use, Claim, vars
  <2>2. Real(gaps) \subseteq Real(gaps') /\ IsFiniteSet(Real(gaps')) /\ IsFiniteSet(Real(gaps))
    BY <1>2, <2>1, FS_Subset DEF Real, Finite
  <2>3. ASSUME NEW need \in Needs(gaps), Eligible(need, Claimant)
        PROVE  \E later \in Needs(gaps') : need \subseteq later /\ Eligible(later, Claimant)
    <3>1. PICK later \in Needs(gaps') : need \subseteq later
      BY <2>2, NeedsGrow DEF Needs
    <3>2. need # {} /\ later \subseteq Real(gaps')
      BY <2>2, ClustersAreChains DEF Needs
    <3>3. IsFiniteSet(later) /\ \A g \in later : g.day \in 0..MaxDay
      BY <1>2, <2>2, <3>2, FS_Subset DEF Dated, Real
    <3> QED
      BY <2>3, <3>1, <3>2, <3>3, EligibleGrows
  <2>4. CASE award' = award
    <3> SUFFICES ASSUME award # None PROVE Awarded'
      BY <2>4 DEF Awarded, AwardStands
    <3>1. PICK need \in Needs(gaps) : award.need \subseteq need /\ Eligible(need, Claimant)
      BY <1>2 DEF Awarded, AwardStands
    <3>2. PICK later \in Needs(gaps') : need \subseteq later /\ Eligible(later, Claimant)
      BY <2>3, <3>1
    <3>3. award'.need \subseteq later
      BY <2>4, <3>1, <3>2
    <3> QED
      BY <1>2, <2>4, <3>2, <3>3 DEF Awarded, AwardStands
  <2>5. ASSUME NEW need \in Needs(gaps), Claim(need) PROVE Awarded'
    <3>1. award'.need = need /\ Eligible(need, Claimant)
      BY <2>5 DEF Claim
    <3>2. need # {}
      BY <2>2, ClustersAreChains DEF Needs
    <3>3. \E later \in Needs(gaps') : need \subseteq later /\ Eligible(later, Claimant)
      BY <2>3, <3>1
    <3> QED
      BY <3>1, <3>2, <3>3 DEF Awarded, AwardStands
  <2> QED
    BY <1>2, <2>4, <2>5 DEF Next, NextDay, Ask, Use, vars
<1> QED
  BY <1>1, <1>2, FiniteIsInvariant, DatedIsInvariant, PTL DEF Spec, Awarded
-----------------------------------------------------------------------------
(* The sums of the model fold + over a finite set.  Such a sum is the      *)
(* number of units that its terms are made of, which makes sums comparable *)
(* like sets.                                                              *)
Units(f, S) == UNION {{x} \X (1..f[x]) : x \in S}

Sums(g, f, S) ==
  g = [s \in SUBSET S |->
         IF s = {} THEN 0 ELSE LET x == CHOOSE x \in s : TRUE IN f[x] + g[s \ {x}]]

LEMMA UnitsAreFinite ==
  ASSUME NEW S, IsFiniteSet(S), NEW f, \A x \in S : f[x] \in Nat
  PROVE  IsFiniteSet(Units(f, S))
<1> DEFINE terms == {{x} \X (1..f[x]) : x \in S}
           h == [x \in S |-> {x} \X (1..f[x])]
<1>1. h \in Surjection(S, terms)
  BY DEF Surjection
<1>2. IsFiniteSet(terms)
  BY <1>1, FS_Surjection
<1>3. ASSUME NEW t \in terms PROVE IsFiniteSet(t)
  <2>1. PICK x \in S : t = {x} \X (1..f[x])
    OBVIOUS
  <2>2. IsFiniteSet(1..f[x])
    BY FS_Interval
  <2>3. IsFiniteSet({x})
    BY FS_Singleton
  <2> QED
    BY <2>1, <2>2, <2>3, FS_Product
<1> QED
  BY <1>2, <1>3, FS_UNION DEF Units

LEMMA OneTermLess ==
  ASSUME NEW S, IsFiniteSet(S), NEW f, \A y \in S : f[y] \in Nat, NEW x \in S
  PROVE  Cardinality(Units(f, S)) = f[x] + Cardinality(Units(f, S \ {x}))
<1> DEFINE term == {x} \X (1..f[x])
           rest == Units(f, S \ {x})
<1>1. Units(f, S) = term \cup rest /\ term \cap rest = {}
  BY DEF Units
<1>2. IsFiniteSet(rest)
  BY FS_RemoveElement, UnitsAreFinite
<1>3. IsFiniteSet(term) /\ Cardinality(term) = f[x]
  <2>1. IsFiniteSet({x}) /\ Cardinality({x}) = 1
    BY FS_Singleton
  <2>2. IsFiniteSet(1..f[x]) /\ Cardinality(1..f[x]) = f[x]
    BY FS_Interval
  <2> QED
    BY <2>1, <2>2, FS_Product
<1>4. Cardinality(term \cup rest) = Cardinality(term) + Cardinality(rest) - Cardinality(term \cap rest)
  BY <1>2, <1>3, FS_Union
<1>5. Cardinality(term \cap rest) = 0 /\ Cardinality(rest) \in Nat
  BY <1>1, <1>2, FS_EmptySet, FS_CardinalityType
<1> QED
  BY <1>1, <1>3, <1>4, <1>5

LEMMA UnitsOfNothing == ASSUME NEW f PROVE Units(f, {}) = {}
BY DEF Units

LEMMA SumExists ==
  ASSUME NEW S, IsFiniteSet(S), NEW f, \A x \in S : f[x] \in Nat
  PROVE  \E g : Sums(g, f, S)
<1> DEFINE g == [s \in SUBSET S |-> Cardinality(Units(f, s))]
           next(s) == IF s = {} THEN 0 ELSE LET x == CHOOSE x \in s : TRUE IN f[x] + g[s \ {x}]
<1>1. ASSUME NEW s \in SUBSET S PROVE Cardinality(Units(f, s)) = next(s)
  <2>1. CASE s = {}
    BY <2>1, UnitsOfNothing, FS_EmptySet
  <2>2. CASE s # {}
    <3> DEFINE x == CHOOSE x \in s : TRUE
    <3>1. x \in s
      BY <2>2
    <3>2. next(s) = f[x] + g[s \ {x}]
      BY <2>2
    <3> HIDE DEF x, next
    <3>3. IsFiniteSet(s)
      BY FS_Subset
    <3>4. Cardinality(Units(f, s)) = f[x] + Cardinality(Units(f, s \ {x}))
      BY <3>1, <3>3, OneTermLess
    <3> QED
      BY <3>2, <3>4
  <2> QED
    BY <2>1, <2>2
<1>2. g = [s \in SUBSET S |-> next(s)]
  <2> DEFINE k == [s \in SUBSET S |-> next(s)]
  <2> HIDE DEF next
  <2>1. g = k
    BY <1>1
  <2> QED
    BY <2>1
<1>3. Sums(g, f, S)
  <2> HIDE DEF g
  <2> QED
    BY <1>2 DEF Sums
<1> QED
  BY <1>3

LEMMA SumIsUnits ==
  ASSUME NEW S, IsFiniteSet(S), NEW f, \A x \in S : f[x] \in Nat, NEW g, Sums(g, f, S)
  PROVE  g[S] = Cardinality(Units(f, S))
<1> DEFINE wrong == {s \in SUBSET S : g[s] # Cardinality(Units(f, s))}
           sizes == {n \in Nat : \E s \in wrong : Cardinality(s) = n}
           next(s) == IF s = {} THEN 0 ELSE LET x == CHOOSE x \in s : TRUE IN f[x] + g[s \ {x}]
<1> SUFFICES ASSUME S \in wrong PROVE FALSE
  OBVIOUS
<1>1. \A s \in SUBSET S : IsFiniteSet(s) /\ Cardinality(s) \in Nat
  BY FS_Subset, FS_CardinalityType
<1>2. \A s \in SUBSET S : g[s] = next(s)
  <2>1. g = [s \in SUBSET S |-> next(s)]
    BY DEF Sums
  <2> HIDE DEF next
  <2> QED
    BY <2>1
<1>3. sizes # {} /\ sizes \in SUBSET Nat
  BY <1>1
<1>4. PICK n \in sizes : \A m \in sizes : n =< m
  BY <1>3, LeastNumber
<1>5. PICK s \in wrong : Cardinality(s) = n
  BY <1>4
<1>6. CASE s = {}
  BY <1>2, <1>5, <1>6, UnitsOfNothing, FS_EmptySet
<1>7. CASE s # {}
  <2> DEFINE x == CHOOSE x \in s : TRUE
  <2>1. x \in s
    BY <1>7
  <2>2. g[s] = f[x] + g[s \ {x}]
    BY <1>2, <1>7
  <2> HIDE DEF x, next
  <2>3. Cardinality(s \ {x}) = Cardinality(s) - 1
    BY <1>1, <2>1, FS_RemoveElement
  <2>4. Cardinality(s \ {x}) \in Nat /\ ~(n =< Cardinality(s \ {x})) /\ s \ {x} \in SUBSET S
    BY <1>1, <1>5, <2>3
  <2>5. g[s \ {x}] = Cardinality(Units(f, s \ {x}))
    BY <1>4, <2>4
  <2>6. Cardinality(Units(f, s)) = f[x] + Cardinality(Units(f, s \ {x}))
    BY <1>1, <2>1, OneTermLess
  <2> QED
    BY <1>5, <2>2, <2>5, <2>6
<1> QED
  BY <1>6, <1>7

LEMMA UnitsCompare ==
  ASSUME NEW S, IsFiniteSet(S), NEW T, T \subseteq S,
         NEW f, NEW h, \A x \in S : h[x] \in Nat, \A x \in T : f[x] \in Nat /\ f[x] =< h[x]
  PROVE  Cardinality(Units(f, T)) =< Cardinality(Units(h, S))
<1>1. \A x \in T : 1..f[x] \subseteq 1..h[x]
  OBVIOUS
<1>2. Units(f, T) \subseteq Units(h, S)
  BY <1>1 DEF Units
<1> QED
  BY <1>2, UnitsAreFinite, FS_Subset

LEMMA UnitsBounded ==
  ASSUME NEW S, IsFiniteSet(S), NEW m \in Nat, NEW f, \A x \in S : f[x] \in Nat /\ f[x] =< m
  PROVE  Cardinality(Units(f, S)) =< Cardinality(S) * m
<1>1. Units(f, S) \subseteq S \X (1..m)
  BY DEF Units
<1>2. IsFiniteSet(1..m) /\ Cardinality(1..m) = m
  BY FS_Interval
<1>3. IsFiniteSet(S \X (1..m)) /\ Cardinality(S \X (1..m)) = Cardinality(S) * m
  BY <1>2, FS_Product
<1> QED
  BY <1>1, <1>3, FS_Subset

-----------------------------------------------------------------------------
(* The figures of the model, of any log at any time.                       *)
DirectIn(log, t) == {e \in BagToSet(log) : e.tool = t /\ e.via = None /\ Countable(e)}
RecentEvents(log, at, t) == {e \in DirectIn(log, t) : at - e.time <= Window}
CountIn(log, events) == MapThenSumSet(LAMBDA e : log[e], events)
RecentIn(log, at, t) == CountIn(log, RecentEvents(log, at, t))
TotalIn(log, at, S)  == MapThenSumSet(LAMBDA x : RecentIn(log, at, x), S)

IsLog(log) == IsFiniteSet(DOMAIN log) /\ \A e \in DOMAIN log : log[e] \in Nat

LEMMA CountIsUnits ==
  ASSUME NEW log, NEW events, IsFiniteSet(events), \A e \in events : log[e] \in Nat
  PROVE  CountIn(log, events) = Cardinality(Units(log, events))
<1> DEFINE found == CHOOSE g : Sums(g, log, events)
<1>1. CountIn(log, events) = found[events]
  BY DEF CountIn, MapThenSumSet, MapThenFoldSet, Sums
<1>2. Sums(found, log, events)
  BY SumExists
<1> QED
  BY <1>1, <1>2, SumIsUnits

LEMMA RecentIsUnits ==
  ASSUME NEW log, IsLog(log), NEW at, NEW t
  PROVE  /\ IsFiniteSet(RecentEvents(log, at, t))
         /\ \A e \in RecentEvents(log, at, t) : log[e] \in Nat
         /\ RecentIn(log, at, t) = Cardinality(Units(log, RecentEvents(log, at, t)))
         /\ RecentIn(log, at, t) \in Nat
<1>1. RecentEvents(log, at, t) \subseteq DOMAIN log
  BY DEF RecentEvents, DirectIn, BagToSet
<1>2. IsFiniteSet(RecentEvents(log, at, t)) /\ \A e \in RecentEvents(log, at, t) : log[e] \in Nat
  BY <1>1, FS_Subset DEF IsLog
<1> QED
  BY <1>2, CountIsUnits, UnitsAreFinite, FS_CardinalityType DEF RecentIn

LEMMA TotalIsUnits ==
  ASSUME NEW log, IsLog(log), NEW at, NEW S, IsFiniteSet(S)
  PROVE  LET use == [x \in S |-> RecentIn(log, at, x)]
         IN  /\ TotalIn(log, at, S) = Cardinality(Units(use, S))
             /\ \A x \in S : use[x] = RecentIn(log, at, x) /\ use[x] \in Nat
             /\ TotalIn(log, at, S) \in Nat
<1> DEFINE use == [x \in S |-> RecentIn(log, at, x)]
           folds(g) == g = [s \in SUBSET S |->
                              IF s = {} THEN 0
                              ELSE LET x == CHOOSE x \in s : TRUE IN RecentIn(log, at, x) + g[s \ {x}]]
           found == CHOOSE g : folds(g)
<1>1. TotalIn(log, at, S) = found[S]
  BY DEF TotalIn, MapThenSumSet, MapThenFoldSet
<1>2. \A x \in S : use[x] = RecentIn(log, at, x) /\ use[x] \in Nat
  BY RecentIsUnits
<1> HIDE DEF use
<1>3. ASSUME NEW g PROVE folds(g) <=> Sums(g, use, S)
  <2> DEFINE a(s) == IF s = {} THEN 0
                     ELSE LET x == CHOOSE x \in s : TRUE IN RecentIn(log, at, x) + g[s \ {x}]
             b(s) == IF s = {} THEN 0
                     ELSE LET x == CHOOSE x \in s : TRUE IN use[x] + g[s \ {x}]
  <2>1. \A s \in SUBSET S : a(s) = b(s)
    <3> SUFFICES ASSUME NEW s \in SUBSET S, s # {} PROVE a(s) = b(s)
      OBVIOUS
    <3> DEFINE x == CHOOSE x \in s : TRUE
    <3>1. x \in s
      OBVIOUS
    <3>2. use[x] = RecentIn(log, at, x)
      BY <1>2, <3>1
    <3> QED
      BY <3>2
  <2>2. folds(g) <=> g = [s \in SUBSET S |-> a(s)]
    OBVIOUS
  <2>3. Sums(g, use, S) <=> g = [s \in SUBSET S |-> b(s)]
    BY DEF Sums
  <2> HIDE DEF a, b, folds
  <2> DEFINE fa == [s \in SUBSET S |-> a(s)]
             fb == [s \in SUBSET S |-> b(s)]
  <2>4. fa = fb
    BY <2>1
  <2> QED
    BY <2>2, <2>3, <2>4
<1>4. Sums(found, use, S)
  <2>1. PICK g : Sums(g, use, S)
    BY <1>2, SumExists
  <2>2. folds(g)
    BY <1>3, <2>1
  <2>3. folds(found)
    <3> HIDE DEF folds
    <3> QED
      BY <2>2, Zenon
  <2> QED
    BY <1>3, <2>3
<1> HIDE DEF found
<1>5. TotalIn(log, at, S) = Cardinality(Units(use, S))
  BY <1>1, <1>2, <1>4, SumIsUnits
<1>6. TotalIn(log, at, S) \in Nat
  BY <1>2, <1>5, UnitsAreFinite, FS_CardinalityType
<1> QED
  BY <1>2, <1>5, <1>6 DEF use

-----------------------------------------------------------------------------
(* Standing, of a cluster.                                                 *)
ClusterStanding(log, at, cluster, t) ==
  IF Cardinality(cluster) < 2 \/ TotalIn(log, at, cluster) = 0 THEN Par
  ELSE Min({Par, Max({Floor, Rounded(Par * Cardinality(cluster) * RecentIn(log, at, t),
                                     TotalIn(log, at, cluster))})})

LEMMA StandingIs ==
  ASSUME NEW t
  PROVE  /\ Recent(t) = RecentIn(calls, now, t)
         /\ Recent(t)' = RecentIn(calls', now', t)
         /\ StandingOf(t) = ClusterStanding(calls, now, ClusterOf(t), t)
<1>1. Recent(t) = RecentIn(calls, now, t)
  BY DEF Recent, RecentIn, RecentEvents, Count, CountIn, Direct, DirectIn
<1>2. Recent(t)' = RecentIn(calls', now', t)
  BY DEF Recent, RecentIn, RecentEvents, Count, CountIn, Direct, DirectIn, MapThenSumSet, MapThenFoldSet
<1>3. MapThenSumSet(Recent, ClusterOf(t)) = TotalIn(calls, now, ClusterOf(t))
  BY DEF Recent, RecentIn, RecentEvents, Count, CountIn, Direct, DirectIn, TotalIn
<1>4. StandingOf(t) = ClusterStanding(calls, now, ClusterOf(t), t)
  BY <1>1, <1>3 DEF StandingOf, ClusterStanding
<1> QED
  BY <1>1, <1>2, <1>4

LEMMA MinMax ==
  ASSUME NEW q \in Int
  PROVE  /\ Min({Par, Max({Floor, q})}) \in Floor..Par
         /\ q >= Par => Min({Par, Max({Floor, q})}) = Par
         /\ Min({Par, Max({Floor, q})}) = IF q >= Par THEN Par ELSE IF q =< Floor THEN Floor ELSE q
<1>1. Max({Floor, q}) = IF q >= Floor THEN q ELSE Floor
  BY DEF Max, Floor
<1>2. \A m \in Int : Min({Par, m}) = IF m >= Par THEN Par ELSE m
  BY DEF Min, Par
<1> DEFINE m == Max({Floor, q})
<1>3. m \in Int /\ m = IF q >= Floor THEN q ELSE Floor
  BY <1>1 DEF Floor
<1> HIDE DEF m
<1>4. Min({Par, m}) = IF m >= Par THEN Par ELSE m
  BY <1>2, <1>3
<1> DEFINE k == Min({Par, m})
<1>5. k = IF m >= Par THEN Par ELSE m
  BY <1>4
<1> HIDE DEF k
<1>6. /\ k \in Floor..Par
      /\ q >= Par => k = Par
      /\ k = IF q >= Par THEN Par ELSE IF q =< Floor THEN Floor ELSE q
  BY <1>3, <1>5 DEF Par, Floor
<1> QED
  BY <1>6 DEF k, m

(* A quotient that is rounded to the nearest.                              *)
LEMMA RoundedIs ==
  ASSUME NEW n \in Nat, NEW d \in Nat \ {0}
  PROVE  /\ Rounded(n, d) \in Nat
         /\ 2 * d * Rounded(n, d) =< 2 * n + d
         /\ 2 * n + d < 2 * d * (Rounded(n, d) + 1)
<1> DEFINE a == 2 * n + d
           b == 2 * d
<1>1. a \in Nat /\ b \in Nat \ {0}
  OBVIOUS
<1>2. Rounded(n, d) = a \div b
  BY DEF Rounded
<1>3. a \div b \in Nat /\ b * (a \div b) =< a /\ a < b * (a \div b + 1)
  <2> HIDE DEF a, b
  <2> QED
    BY <1>1
<1> QED
  BY <1>2, <1>3

LEMMA RoundedAtLeast ==
  ASSUME NEW n \in Nat, NEW d \in Nat \ {0}, NEW k \in Nat, n >= k * d
  PROVE  Rounded(n, d) >= k
<1> DEFINE q == Rounded(n, d)
<1>1. q \in Nat /\ 2 * n + d < 2 * d * (q + 1)
  BY RoundedIs
<1> HIDE DEF q
<1> SUFFICES ASSUME q + 1 =< k PROVE FALSE
  BY <1>1 DEF q
<1>2. d * (q + 1) =< d * k
  BY <1>1
<1> DEFINE p == d * (q + 1)
<1>3. p \in Nat /\ p =< n /\ 2 * n + d < 2 * p
  BY <1>1, <1>2
<1> HIDE DEF p
<1> QED
  BY <1>3

-----------------------------------------------------------------------------
(* Nobody is below par unless a rival is used more: if none is, the use of *)
(* all is at most as many times that of the tool as there are rivals.      *)
LEMMA BelowParIsBehind ==
  ASSUME NEW log, IsLog(log), NEW at, NEW cluster, IsFiniteSet(cluster), NEW t \in cluster
  PROVE  /\ ClusterStanding(log, at, cluster, t) \in Floor..Par
         /\ ClusterStanding(log, at, cluster, t) < Par =>
              \E rival \in cluster : RecentIn(log, at, rival) > RecentIn(log, at, t)
<1> DEFINE n == Cardinality(cluster)
           total == TotalIn(log, at, cluster)
           own == RecentIn(log, at, t)
           share == Rounded(Par * n * own, total)
<1>1. CASE n < 2 \/ total = 0
  <2>1. ClusterStanding(log, at, cluster, t) = Par
    BY <1>1 DEF ClusterStanding
  <2> QED
    BY <2>1 DEF Par, Floor
<1>2. CASE ~(n < 2 \/ total = 0)
  <2>1. ClusterStanding(log, at, cluster, t) = Min({Par, Max({Floor, share})})
    BY <1>2 DEF ClusterStanding
  <2>2. n \in Nat /\ own \in Nat /\ total \in Nat \ {0}
    BY <1>2, FS_CardinalityType, RecentIsUnits, TotalIsUnits
  <2>3. Par * n * own \in Nat
    <3> HIDE DEF n, own
    <3> QED
      BY <2>2 DEF Par
  <2>4. share \in Nat
    <3> HIDE DEF n, own, total
    <3> QED
      BY <2>2, <2>3, RoundedIs
  <2>5. ASSUME \A rival \in cluster : ~(RecentIn(log, at, rival) > own)
        PROVE  share >= Par
    <3> DEFINE use == [x \in cluster |-> RecentIn(log, at, x)]
    <3>1. /\ total = Cardinality(Units(use, cluster))
          /\ \A x \in cluster : use[x] = RecentIn(log, at, x) /\ use[x] \in Nat
      BY TotalIsUnits
    <3>2. \A x \in cluster : use[x] \in Nat /\ use[x] =< own
      <4> HIDE DEF use
      <4> QED
        BY <2>2, <2>5, <3>1
    <3>3. total =< n * own
      <4> HIDE DEF use
      <4> QED
        BY <2>2, <3>1, <3>2, UnitsBounded
    <3> HIDE DEF n, own, total, use
    <3>4. Par * n * own >= Par * total
      <4> DEFINE p == n * own
      <4>1. p \in Nat /\ total =< p
        BY <2>2, <3>3
      <4>2. Par * n * own = Par * p
        BY <2>2 DEF Par
      <4> HIDE DEF p
      <4> QED
        BY <2>2, <4>1, <4>2 DEF Par
    <3>5. Par \in Nat
      BY DEF Par
    <3> QED
      BY <2>2, <2>3, <3>4, <3>5, RoundedAtLeast
  <2> HIDE DEF share
  <2>6. share \in Int
    BY <2>4
  <2>7. /\ Min({Par, Max({Floor, share})}) \in Floor..Par
        /\ share >= Par => Min({Par, Max({Floor, share})}) = Par
    BY <2>6, MinMax
  <2>8. CASE share >= Par
    BY <2>1, <2>7, <2>8 DEF Par
  <2>9. CASE ~(share >= Par)
    BY <2>1, <2>5, <2>7, <2>9
  <2> QED
    BY <2>8, <2>9
<1> QED
  BY <1>1, <1>2

LEMMA ClustersAreOfTools ==
  ASSUME NEW t \in Tools
  PROVE  ClusterOf(t) \subseteq Tools /\ t \in ClusterOf(t) /\ IsFiniteSet(ClusterOf(t))
<1>1. UNION Rivalries \subseteq Tools
  BY DEF Rivalries, kSubset
<1>2. \A cluster \in CompetitionClusters : cluster \subseteq UNION Rivalries
  BY DEF CompetitionClusters, Groups
<1>3. ClusterOf(t) \subseteq Tools /\ t \in ClusterOf(t)
  BY <1>1, <1>2 DEF ClusterOf
<1> QED
  BY <1>3, FS_Subset, ToolsAssumption

-----------------------------------------------------------------------------
LEMMA RecordedIsFinite ==
  ASSUME NEW c, NEW t \in Tools
  PROVE  IsFiniteSet(Recorded(c, t))
<1> DEFINE uses == {<<t, None>>} \cup (Uses[t] \X {t})
           f == [use \in uses |->
                   [tool |-> use[1], via |-> use[2], self |-> SelfCall(c, use[1]), caller |-> c, time |-> now]]
<1>1. IsFiniteSet(uses)
  <2>1. IsFiniteSet(Uses[t])
    BY FS_Subset, ToolsAssumption, UsesAssumption
  <2>2. IsFiniteSet({t}) /\ IsFiniteSet({<<t, None>>})
    BY FS_Singleton
  <2> QED
    BY <2>1, <2>2, FS_Product, FS_Union
<1>2. f \in Surjection(uses, Recorded(c, t))
  BY DEF Surjection, Recorded
<1> QED
  BY <1>1, <1>2, FS_Surjection

LEMMA CallsStayALog ==
  ASSUME IsLog(calls), NEW c, NEW t \in Tools, Call(c, t)
  PROVE  IsLog(calls')
<1>1. calls' = calls (+) SetToBag(Recorded(c, t))
  BY DEF Call
<1> DEFINE new == Recorded(c, t)
<1>2. IsFiniteSet(new)
  BY RecordedIsFinite
<1> HIDE DEF new
<1>3. calls' = [e \in DOMAIN calls \cup new |->
                  (IF e \in DOMAIN calls THEN calls[e] ELSE 0) + (IF e \in new THEN 1 ELSE 0)]
  BY <1>1 DEF (+), SetToBag, new
<1>4. IsFiniteSet(DOMAIN calls \cup new)
  BY <1>2, FS_Union DEF IsLog
<1> QED
  BY <1>3, <1>4 DEF IsLog

(* The calls are a log of what has happened until now.                     *)
Logged ==
  /\ IsLog(calls)
  /\ now \in 0..MaxTime
  /\ \A e \in DOMAIN calls : e.time \in 0..now

LEMMA AlwaysLogged == StandingSpec => []Logged
<1>1. StandingInit => Logged
  <2>1. DOMAIN EmptyBag = {}
    BY DEF EmptyBag, SetToBag
  <2>2. MaxTime \in Nat
    BY CountsAssumption
  <2> QED
    BY <2>1, <2>2, FS_EmptySet DEF StandingInit, Logged, IsLog
<1>2. Logged /\ [StandingNext]_standingVars => Logged'
  <2> SUFFICES ASSUME Logged, [StandingNext]_standingVars PROVE Logged'
    OBVIOUS
  <2>1. ASSUME NEW c \in Callers, NEW t \in Tools, Call(c, t) PROVE Logged'
    <3>1. IsLog(calls')
      BY <2>1, CallsStayALog DEF Logged
    <3>2. now' = now /\ DOMAIN calls' = DOMAIN calls \cup Recorded(c, t)
      BY <2>1 DEF Call, (+), SetToBag
    <3>3. \A e \in Recorded(c, t) : e.time = now
      BY DEF Recorded
    <3> QED
      BY <3>1, <3>2, <3>3 DEF Logged
  <2>2. CASE Tick
    <3>1. MaxTime \in Nat
      BY CountsAssumption
    <3> QED
      BY <2>2, <3>1 DEF Tick, Logged
  <2>3. CASE UNCHANGED <<now, calls>>
    BY <2>3 DEF Logged
  <2> QED
    BY <2>1, <2>2, <2>3 DEF StandingNext, Search, standingVars
<1> QED
  BY <1>1, <1>2, PTL DEF StandingSpec

(* A set of at least k elements has a part of k.                           *)
LEMMA PartOfSize ==
  ASSUME NEW S, IsFiniteSet(S), NEW k \in Nat, k =< Cardinality(S)
  PROVE  kSubset(k, S) # {}
<1> DEFINE sizes == {n \in Nat : n >= k /\ \E s \in SUBSET S : Cardinality(s) = n}
<1>1. Cardinality(S) \in sizes
  BY FS_CardinalityType
<1>2. PICK n \in sizes : \A m \in sizes : n =< m
  BY <1>1, LeastNumber
<1>3. PICK s \in SUBSET S : Cardinality(s) = n
  BY <1>2
<1>4. n \in Nat /\ n >= k
  BY <1>2
<1>5. ASSUME n # k PROVE FALSE
  <2>1. IsFiniteSet(s) /\ n - 1 \in Nat /\ n - 1 >= k
    BY <1>4, <1>5, FS_Subset
  <2>2. s # {}
    BY <1>3, <1>4, <1>5, FS_EmptySet
  <2>3. PICK x \in s : TRUE
    BY <2>2
  <2>4. Cardinality(s \ {x}) = n - 1
    BY <1>3, <2>1, <2>3, FS_RemoveElement
  <2>5. n - 1 \in sizes
    BY <2>1, <2>4
  <2> QED
    BY <1>2, <1>4, <2>5
<1> QED
  BY <1>3, <1>5 DEF kSubset

(* There are finitely many searches, of callers.                           *)
Searched == IsFiniteSet(searches) /\ \A s \in searches : s.caller \in Callers

LEMMA AlwaysSearched == StandingSpec => []Searched
<1>1. StandingInit => Searched
  BY FS_EmptySet DEF StandingInit, Searched
<1>2. Searched /\ [StandingNext]_standingVars => Searched'
  <2> SUFFICES ASSUME Searched, [StandingNext]_standingVars PROVE Searched'
    OBVIOUS
  <2>1. ASSUME NEW c \in Callers, NEW ranked \in Shortlists, Search(c, ranked) PROVE Searched'
    <3> DEFINE s == [caller |-> c, ranked |-> ranked]
    <3>1. searches' = searches \cup {s} /\ s.caller \in Callers
      BY <2>1 DEF Search
    <3> HIDE DEF s
    <3> QED
      BY <3>1, FS_AddElement DEF Searched
  <2>2. CASE UNCHANGED searches
    BY <2>2 DEF Searched
  <2> QED
    BY <2>1, <2>2 DEF StandingNext, Tick, Call, standingVars
<1> QED
  BY <1>1, <1>2, PTL DEF StandingSpec

(* Two tools are linked if as many callers as it takes were shown both.    *)
LEMMA RivalsAreSeen ==
  ASSUME Searched, NEW a \in Tools, NEW b \in Tools, a # b
  PROVE  SeenByMany(a, b) <=> {a, b} \in Rivalries
<1> DEFINE pair == {a, b}
           shown == {s \in searches : pair \subseteq Top(s.ranked)}
           seen == SeenTogether(pair)
<1>1. seen = {s.caller : s \in shown} \ (Simulated \cup Builders)
  BY DEF SeenTogether
<1>2. IsFiniteSet(seen) /\ seen \subseteq Callers \ (Simulated \cup Builders)
  <2> DEFINE f == [s \in shown |-> s.caller]
  <2>1. f \in Surjection(shown, {s.caller : s \in shown})
    BY DEF Surjection
  <2>2. IsFiniteSet(shown)
    BY FS_Subset DEF Searched
  <2>3. IsFiniteSet({s.caller : s \in shown})
    BY <2>1, <2>2, FS_Surjection
  <2> QED
    BY <1>1, <2>3, FS_Subset DEF Searched
<1>3. \A s : pair \subseteq Top(s.ranked) <=>
         \E i, j \in 1..Min({TopN, Len(s.ranked)}) : s.ranked[i] = a /\ s.ranked[j] = b
  BY DEF Top
<1> HIDE DEF seen
<1>4. pair \in Rivalries <=> Cardinality(seen) >= MinCoRetrieval
  <2>1. pair \in kSubset(2, Tools)
    BY ToolsAssumption, TwoAreALink
  <2> QED
    BY <2>1 DEF Rivalries, seen
<1>5. \A c : c \in seen => \E s \in searches : s.caller = c /\ pair \subseteq Top(s.ranked)
  BY <1>1
<1>6. ASSUME Cardinality(seen) >= MinCoRetrieval PROVE SeenByMany(a, b)
  <2>1. MinCoRetrieval \in Nat
    BY CountsAssumption
  <2>2. Cardinality(seen) \in Nat
    BY <1>2, FS_CardinalityType
  <2>3. PICK some \in kSubset(MinCoRetrieval, seen) : TRUE
    BY <1>2, <1>6, <2>1, <2>2, PartOfSize
  <2>4. some \in kSubset(MinCoRetrieval, Callers \ (Simulated \cup Builders)) /\ some \subseteq seen
    BY <1>2, <2>3 DEF kSubset
  <2>5. \A c \in some : \E s \in searches : s.caller = c /\
          \E i, j \in 1..Min({TopN, Len(s.ranked)}) : s.ranked[i] = a /\ s.ranked[j] = b
    BY <1>3, <1>5, <2>4
  <2> QED
    BY <2>4, <2>5 DEF SeenByMany
<1>7. ASSUME SeenByMany(a, b) PROVE Cardinality(seen) >= MinCoRetrieval
  <2>1. PICK some \in kSubset(MinCoRetrieval, Callers \ (Simulated \cup Builders)) :
          \A c \in some : \E s \in searches : s.caller = c /\
            \E i, j \in 1..Min({TopN, Len(s.ranked)}) : s.ranked[i] = a /\ s.ranked[j] = b
    BY <1>7 DEF SeenByMany
  <2>2. Cardinality(some) = MinCoRetrieval /\ some \subseteq Callers \ (Simulated \cup Builders)
    BY <2>1 DEF kSubset
  <2>3. some \subseteq seen
    BY <1>1, <1>3, <2>1, <2>2
  <2> QED
    BY <1>2, <2>2, <2>3, FS_Subset, FS_CardinalityType
<1> QED
  BY <1>4, <1>6, <1>7

(* The graph of rivals: each pair is within one of its groups, and a set   *)
(* that no pair leaves has a group whole or not at all.                    *)
LEMMA RivalsAreGrouped ==
  /\ UNION CompetitionClusters = UNION Rivalries
  /\ \A G, H \in CompetitionClusters : G # H => G \cap H = {}
  /\ \A link \in Rivalries : IsLink(link, Tools) /\ \E G \in CompetitionClusters : link \subseteq G
  /\ \A G \in CompetitionClusters, Q \in SUBSET (UNION Rivalries) :
       (\A link \in Rivalries : link \cap Q # {} => link \subseteq Q) =>
         (G \cap Q # {} => G \subseteq Q)
<1> DEFINE S == UNION Rivalries
<1>1. IsFiniteSet(Rivalries) /\ \A link \in Rivalries : IsLink(link, Tools)
  <2>1. Rivalries \subseteq kSubset(2, Tools)
    BY DEF Rivalries
  <2> QED
    BY <2>1, ToolsAssumption, TwoAreALink, FS_Subset
<1>2. ASSUME NEW link \in Rivalries PROVE IsLink(link, S)
  <2>1. PICK a \in Tools, b \in Tools : a # b /\ link = {a, b}
    BY <1>1 DEF IsLink
  <2>2. a \in S /\ b \in S
    BY <2>1
  <2> QED
    BY <2>1, <2>2 DEF IsLink
<1> HIDE DEF S
<1>3. Groups(S, Rivalries) = CompetitionClusters
  BY DEF CompetitionClusters, S
<1>4. /\ UNION CompetitionClusters = S
      /\ \A G, H \in CompetitionClusters : G # H => G \cap H = {}
      /\ \A link \in Rivalries : \E G \in CompetitionClusters : link \subseteq G
      /\ \A G \in CompetitionClusters, Q \in SUBSET S :
           (\A link \in Rivalries : link \cap Q # {} => link \subseteq Q) =>
             (G \cap Q # {} => G \subseteq Q)
  BY <1>1, <1>2, <1>3, GroupsAreConnected
<1> QED
  BY <1>1, <1>4 DEF S

(* A cluster of more than one tool is a group, and every tool in a group   *)
(* has that group for its cluster.                                         *)
LEMMA ClustersAreGroups ==
  ASSUME NEW t \in Tools
  PROVE  /\ \A G \in CompetitionClusters : t \in G => ClusterOf(t) = G
         /\ ClusterOf(t) = {t} \/ ClusterOf(t) \in CompetitionClusters
<1>1. ASSUME NEW G \in CompetitionClusters, t \in G PROVE ClusterOf(t) = G
  <2>1. {H \in CompetitionClusters : t \in H} = {G}
    BY <1>1, RivalsAreGrouped
  <2> QED
    BY <1>1, <2>1 DEF ClusterOf
<1>2. ASSUME \A G \in CompetitionClusters : t \notin G PROVE ClusterOf(t) = {t}
  BY <1>2 DEF ClusterOf
<1> QED
  BY <1>1, <1>2

(* Nobody draws the graph of competition alone: a cluster is left by no    *)
(* pair that enough callers were shown together, and cannot be cut in two  *)
(* without parting one.                                                    *)
THEOREM RivalsAreSeenByMany == StandingSpec => []RivalsWereSeenByMany
<1>1. ASSUME Searched, NEW a \in Tools, NEW b \in ClusterOf(a), NEW c \in Tools \ ClusterOf(a), SeenByMany(b, c)
      PROVE  FALSE
  <2>1. b \in Tools /\ a \in ClusterOf(a) /\ b # c
    BY <1>1, ClustersAreOfTools
  <2>2. {b, c} \in Rivalries
    BY <1>1, <2>1, RivalsAreSeen
  <2>3. PICK G \in CompetitionClusters : {b, c} \subseteq G
    BY <2>2, RivalsAreGrouped
  <2>4. a \in G
    <3>1. CASE b = a
      BY <2>3, <3>1
    <3>2. CASE b # a
      <4>1. ClusterOf(a) \in CompetitionClusters
        BY <3>2, ClustersAreGroups
      <4>2. ClusterOf(b) = G /\ ClusterOf(b) = ClusterOf(a)
        BY <2>1, <2>3, <4>1, ClustersAreGroups
      <4> QED
        BY <2>1, <4>2
    <3> QED
      BY <3>1, <3>2
  <2>5. ClusterOf(a) = G
    BY <2>4, ClustersAreGroups
  <2> QED
    BY <2>3, <2>5
<1>2. ASSUME Searched, NEW a \in Tools, NEW part \in (SUBSET ClusterOf(a)) \ {{}, ClusterOf(a)}
      PROVE  \E b \in part, c \in ClusterOf(a) \ part : SeenByMany(b, c)
  <2> DEFINE G == ClusterOf(a)
  <2> SUFFICES ASSUME \A b \in part, c \in G \ part : ~ SeenByMany(b, c) PROVE FALSE
    OBVIOUS
  <2>1. a \in G /\ G \subseteq Tools
    BY ClustersAreOfTools
  <2>2. G \in CompetitionClusters
    <3>1. PICK x \in part : x \in G /\ part # G
      BY <1>2
    <3>2. G # {a}
      BY <1>2, <3>1
    <3> QED
      BY <3>2, ClustersAreGroups
  <2>3. \A x \in G : ClusterOf(x) = G
    BY <2>1, <2>2, ClustersAreGroups
  <2> HIDE DEF G
  <2>4. /\ \A link \in Rivalries : \E H \in CompetitionClusters : link \subseteq H
        /\ UNION CompetitionClusters = UNION Rivalries
        /\ \A Q \in SUBSET (UNION Rivalries) :
             (\A link \in Rivalries : link \cap Q # {} => link \subseteq Q) =>
               (G \cap Q # {} => G \subseteq Q)
    BY <2>2, RivalsAreGrouped
  <2>5. part \in SUBSET G /\ part # {} /\ part # G
    BY <1>2 DEF G
  <2>6. ASSUME NEW link \in Rivalries, NEW x \in link, x \in part, NEW y \in link, y \notin part
        PROVE  FALSE
    <3>1. PICK H \in CompetitionClusters : link \subseteq H
      BY <2>4
    <3>2. x \in Tools /\ y \in Tools /\ x # y /\ link = {x, y}
      <4>1. IsLink(link, Tools)
        BY RivalsAreGrouped
      <4> QED
        BY <2>6, <4>1 DEF IsLink
    <3>3. ClusterOf(x) = H
      BY <3>1, <3>2, ClustersAreGroups
    <3>4. y \in G
      BY <2>3, <2>5, <2>6, <3>1, <3>3
    <3>5. SeenByMany(x, y)
      BY <1>2, <2>6, <3>2, RivalsAreSeen
    <3> QED
      BY <2>6, <3>4, <3>5
  <2>7. part \in SUBSET (UNION Rivalries)
    BY <2>2, <2>4, <2>5
  <2>8. \A link \in Rivalries : link \cap part # {} => link \subseteq part
    BY <2>6
  <2> QED
    BY <2>4, <2>5, <2>7, <2>8
<1>3. Searched => RivalsWereSeenByMany
  BY <1>1, <1>2 DEF RivalsWereSeenByMany
<1> QED
  BY <1>3, AlwaysSearched, PTL

(* A tool is below par only if another one of its cluster has been used    *)
(* more in the window, and a standing is never out of its bounds.          *)
THEOREM StandingIsRelative == StandingSpec => []FallsBehindSomebody
<1>1. Logged => FallsBehindSomebody
  <2> SUFFICES ASSUME Logged, NEW t \in Tools
               PROVE  /\ StandingOf(t) \in Floor..Par
                      /\ StandingOf(t) < Par => \E rival \in ClusterOf(t) : Recent(rival) > Recent(t)
    BY DEF FallsBehindSomebody
  <2>1. IsFiniteSet(ClusterOf(t)) /\ t \in ClusterOf(t)
    BY ClustersAreOfTools
  <2>2. /\ StandingOf(t) = ClusterStanding(calls, now, ClusterOf(t), t)
        /\ \A x : Recent(x) = RecentIn(calls, now, x)
    BY StandingIs
  <2> QED
    BY <2>1, <2>2, BelowParIsBehind DEF Logged
<1> QED
  BY <1>1, AlwaysLogged, PTL

-----------------------------------------------------------------------------
(* What an owner or the simulation adds to the log.                        *)

(* What is recorded of a tool of theirs counts for nothing.                *)
LEMMA InventedIsNotCounted ==
  ASSUME NEW c, NEW t \in Tools, NEW mine \in Tools, c \in Simulated \/ SelfCall(c, mine)
  PROVE  \A e \in Recorded(c, t) : e.tool = mine => ~ Countable(e)
BY DEF Recorded, Countable

(* The log afterwards has what it had, and of such a tool nothing else     *)
(* that counts.                                                            *)
LEMMA InventedAddsNothing ==
  ASSUME IsLog(calls), NEW c, NEW t \in Tools, Call(c, t),
         NEW mine \in Tools, c \in Simulated \/ SelfCall(c, mine)
  PROVE  /\ \A e \in DOMAIN calls : e \in DOMAIN calls' /\ calls'[e] >= calls[e]
         /\ \A e : e.tool = mine /\ Countable(e) =>
              /\ e \in DOMAIN calls <=> e \in DOMAIN calls'
              /\ e \in DOMAIN calls => calls'[e] = calls[e]
<1> DEFINE new == Recorded(c, t)
<1>1. calls' = calls (+) SetToBag(new)
  BY DEF Call
<1>2. \A e \in new : e.tool = mine => ~ Countable(e)
  BY InventedIsNotCounted
<1> HIDE DEF new
<1>3. calls' = [e \in DOMAIN calls \cup new |->
                  (IF e \in DOMAIN calls THEN calls[e] ELSE 0) + (IF e \in new THEN 1 ELSE 0)]
  BY <1>1 DEF (+), SetToBag
<1> QED
  BY <1>2, <1>3 DEF IsLog

LEMMA SameUnits ==
  ASSUME NEW S, NEW f, NEW h, \A x \in S : f[x] = h[x]
  PROVE  Units(f, S) = Units(h, S)
BY DEF Units

LEMMA MoreCallsMoreUse ==
  ASSUME NEW log, NEW more, IsLog(log), IsLog(more),
         \A e \in DOMAIN log : e \in DOMAIN more /\ more[e] >= log[e],
         NEW at, NEW x
  PROVE  RecentIn(log, at, x) =< RecentIn(more, at, x)
<1> DEFINE old == RecentEvents(log, at, x)
           all == RecentEvents(more, at, x)
<1>1. old \subseteq all /\ old \subseteq DOMAIN log
  BY DEF RecentEvents, DirectIn, BagToSet
<1>2. /\ IsFiniteSet(all) /\ \A e \in all : more[e] \in Nat
      /\ RecentIn(log, at, x) = Cardinality(Units(log, old))
      /\ RecentIn(more, at, x) = Cardinality(Units(more, all))
  BY RecentIsUnits
<1> HIDE DEF old, all
<1>3. \A e \in old : log[e] \in Nat /\ log[e] =< more[e]
  BY <1>1 DEF IsLog
<1> QED
  BY <1>1, <1>2, <1>3, UnitsCompare

(* The share of a larger total is smaller.                                 *)
LEMMA RoundedShrinks ==
  ASSUME NEW n \in Nat, NEW d \in Nat \ {0}, NEW b \in Nat \ {0}, d =< b
  PROVE  Rounded(n, b) =< Rounded(n, d)
<1> DEFINE q == Rounded(n, d)
           r == Rounded(n, b)
<1>1. q \in Nat /\ r \in Nat /\ 2 * n + d < 2 * d * (q + 1) /\ 2 * b * r =< 2 * n + b
  BY RoundedIs
<1> HIDE DEF q, r
<1> SUFFICES ASSUME q + 1 =< r PROVE FALSE
  BY <1>1 DEF q, r
<1>2. 2 * n < d * (2 * q + 1)
  BY <1>1
<1>3. b * (2 * r - 1) =< 2 * n
  BY <1>1
<1>4. 2 * q + 1 =< 2 * r - 1
  BY <1>1
<1> DEFINE k == 2 * q + 1
           m == 2 * r - 1
<1>5. k \in Nat /\ m \in Nat /\ k =< m
  BY <1>1, <1>4
<1> HIDE DEF k, m
<1>6. d * k =< b * m
  <2>1. d * k =< b * k
    BY <1>5
  <2>2. b * k =< b * m
    BY <1>5
  <2>3. d * k \in Nat /\ b * k \in Nat /\ b * m \in Nat
    BY <1>5
  <2> QED
    BY <2>1, <2>2, <2>3
<1>7. d * k \in Nat /\ b * m \in Nat /\ 2 * n < d * k /\ b * m =< 2 * n
  BY <1>2, <1>3, <1>5 DEF k, m
<1> QED
  BY <1>6, <1>7

(* Who is not used more while the others may be does not rise.             *)
LEMMA StandingFalls ==
  ASSUME NEW log, NEW more, IsLog(log), IsLog(more),
         \A e \in DOMAIN log : e \in DOMAIN more /\ more[e] >= log[e],
         NEW at, NEW cluster, IsFiniteSet(cluster), NEW t \in cluster,
         RecentIn(more, at, t) = RecentIn(log, at, t)
  PROVE  ClusterStanding(more, at, cluster, t) =< ClusterStanding(log, at, cluster, t)
<1> DEFINE n == Cardinality(cluster)
           total == TotalIn(log, at, cluster)
           later == TotalIn(more, at, cluster)
           own == RecentIn(log, at, t)
<1>1. n \in Nat /\ own \in Nat /\ total \in Nat /\ later \in Nat
  BY FS_CardinalityType, RecentIsUnits, TotalIsUnits
<1>2. total =< later
  <2> DEFINE f == [x \in cluster |-> RecentIn(log, at, x)]
             h == [x \in cluster |-> RecentIn(more, at, x)]
  <2>1. /\ total = Cardinality(Units(f, cluster)) /\ later = Cardinality(Units(h, cluster))
        /\ \A x \in cluster : f[x] = RecentIn(log, at, x) /\ f[x] \in Nat
        /\ \A x \in cluster : h[x] = RecentIn(more, at, x) /\ h[x] \in Nat
    BY TotalIsUnits
  <2> HIDE DEF f, h, total, later
  <2>2. \A x \in cluster : f[x] =< h[x]
    BY <2>1, MoreCallsMoreUse
  <2> QED
    BY <2>1, <2>2, UnitsCompare
<1>3. ClusterStanding(log, at, cluster, t) \in Floor..Par /\ ClusterStanding(more, at, cluster, t) \in Floor..Par
  BY BelowParIsBehind
<1>4. CASE n < 2 \/ total = 0
  <2>1. ClusterStanding(log, at, cluster, t) = Par
    BY <1>4 DEF ClusterStanding
  <2>2. \A x \in Floor..Par : x =< Par
    BY DEF Par, Floor
  <2> QED
    BY <1>3, <2>1, <2>2
<1>5. CASE ~(n < 2 \/ total = 0)
  <2> DEFINE q == Rounded(Par * n * own, total)
             r == Rounded(Par * n * own, later)
  <2>1. ClusterStanding(log, at, cluster, t) = Min({Par, Max({Floor, q})})
    BY <1>5 DEF ClusterStanding
  <2>2. later # 0
    <3> HIDE DEF n, total, later, own
    <3> QED
      BY <1>1, <1>2, <1>5
  <2>3. ClusterStanding(more, at, cluster, t) = Min({Par, Max({Floor, r})})
    BY <1>5, <2>2 DEF ClusterStanding
  <2> HIDE DEF n, total, later, own
  <2>4. Par * n * own \in Nat /\ total \in Nat \ {0} /\ later \in Nat \ {0}
    BY <1>1, <1>5, <2>2 DEF Par
  <2>5. q \in Nat /\ r \in Nat /\ r =< q
    BY <1>2, <2>4, RoundedIs, RoundedShrinks
  <2> HIDE DEF q, r
  <2>6. /\ Min({Par, Max({Floor, q})}) = IF q >= Par THEN Par ELSE IF q =< Floor THEN Floor ELSE q
        /\ Min({Par, Max({Floor, r})}) = IF r >= Par THEN Par ELSE IF r =< Floor THEN Floor ELSE r
    BY <2>5, MinMax
  <2> DEFINE a == ClusterStanding(log, at, cluster, t)
             b == ClusterStanding(more, at, cluster, t)
  <2>7. /\ a = IF q >= Par THEN Par ELSE IF q =< Floor THEN Floor ELSE q
        /\ b = IF r >= Par THEN Par ELSE IF r =< Floor THEN Floor ELSE r
    BY <2>1, <2>3, <2>6
  <2> HIDE DEF a, b
  <2>8. b =< a
    BY <2>5, <2>7 DEF Par, Floor
  <2> QED
    BY <2>8 DEF a, b
<1> QED
  BY <1>4, <1>5

(* What is left of a call, and of those in which a tool was chosen.        *)
Share(age, standing) == Fading[age, standing]

Left(log, at, standing, e) == log[e] * Share(at - e.time, standing)

LiveIn(log, at, t, standing) ==
  MapThenSumSet(LAMBDA e : Left(log, at, standing, e), DirectIn(log, t))

LEMMA SharesFall ==
  ASSUME NEW age \in 0..MaxTime, NEW standing \in Floor..Par
  PROVE  /\ Share(age, standing) \in Nat
         /\ standing < Par => Share(age, standing) =< Share(age, standing + 1)
<1>1. <<age, standing>> \in (0..MaxTime) \X (Floor..Par)
  OBVIOUS
<1>2. Fading[age, standing] \in 0..Whole
  BY <1>1, FadingAssumption
<1>3. 0..Whole \subseteq Nat
  BY DEF Whole
<1>4. standing < Par => Fading[age, standing] =< Fading[age, standing + 1]
  BY FadingAssumption
<1> QED
  BY <1>2, <1>3, <1>4 DEF Share

LEMMA LeftIs ==
  ASSUME NEW log, IsLog(log), NEW at \in 0..MaxTime, NEW e \in DOMAIN log, e.time \in 0..at,
         NEW standing \in Floor..Par
  PROVE  /\ at - e.time \in 0..MaxTime
         /\ Share(at - e.time, standing) \in Nat
         /\ Left(log, at, standing, e) \in Nat
<1>1. at - e.time \in 0..MaxTime
  BY CountsAssumption
<1> DEFINE kept == Share(at - e.time, standing)
<1>2. kept \in Nat
  BY <1>1, SharesFall
<1> HIDE DEF kept
<1>3. log[e] * kept \in Nat
  BY <1>2 DEF IsLog
<1> QED
  BY <1>1, <1>2, <1>3 DEF Left, kept

(* At no age does less remain at a higher standing.                        *)
LEMMA HigherFadesSlower ==
  ASSUME NEW age \in 0..MaxTime, NEW low \in Floor..Par, NEW high \in Floor..Par, low =< high
  PROVE  Share(age, low) =< Share(age, high)
<1> DEFINE f == [s \in Floor..Par |-> Share(age, s)]
           less == {s \in low..Par : f[s] < f[low]}
<1>1. \A s \in Floor..Par : f[s] = Share(age, s) /\ f[s] \in Nat
  BY SharesFall
<1>2. \A s \in Floor..Par : s < Par => f[s] =< f[s + 1]
  <2> SUFFICES ASSUME NEW s \in Floor..Par, s < Par PROVE f[s] =< f[s + 1]
    OBVIOUS
  <2>1. s + 1 \in Floor..Par
    BY DEF Floor, Par
  <2>2. Share(age, s) =< Share(age, s + 1)
    BY SharesFall
  <2> QED
    BY <1>1, <2>1, <2>2
<1> HIDE DEF f
<1>3. less = {}
  <2> SUFFICES ASSUME less # {} PROVE FALSE
    OBVIOUS
  <2>1. less \subseteq Nat
    <3>1. ASSUME NEW s \in low..Par PROVE s \in Nat
      <4>1. low \in Nat /\ Par \in Nat
        BY DEF Floor, Par
      <4> QED
        BY <4>1
    <3> QED
      BY <3>1, Zenon
  <2> HIDE DEF less
  <2>2. PICK n \in less : \A m \in less : n =< m
    BY <2>1, LeastNumber
  <2>3. n \in Floor..Par /\ n - 1 \in Floor..Par /\ n - 1 \in low..Par /\ n - 1 < Par /\ (n - 1) + 1 = n
    <3>1. n # low
      BY <1>1, <2>2 DEF less
    <3> QED
      BY <2>2, <3>1 DEF Floor, Par, less
  <2>4. ~(f[n - 1] < f[low])
    <3>1. n - 1 \notin less
      BY <2>1, <2>2, <2>3
    <3> QED
      BY <2>3, <3>1 DEF less
  <2>5. f[n - 1] =< f[n]
    BY <1>2, <2>3
  <2>6. f[n] < f[low]
    BY <2>2 DEF less
  <2> QED
    BY <1>1, <2>3, <2>4, <2>5, <2>6
<1>4. ~(f[high] < f[low])
  <2>1. high \in low..Par
    BY DEF Floor, Par
  <2> QED
    BY <1>3, <2>1
<1> QED
  BY <1>1, <1>4

LEMMA LiveIsUnits ==
  ASSUME NEW log, IsLog(log), NEW at \in 0..MaxTime, \A e \in DOMAIN log : e.time \in 0..at,
         NEW t, NEW standing \in Floor..Par
  PROVE  LET S == DirectIn(log, t)
             left == [e \in S |-> Left(log, at, standing, e)]
         IN  /\ IsFiniteSet(S)
             /\ LiveIn(log, at, t, standing) = Cardinality(Units(left, S))
             /\ \A e \in S : left[e] = Left(log, at, standing, e) /\ left[e] \in Nat
<1> DEFINE S == DirectIn(log, t)
           left == [e \in S |-> Left(log, at, standing, e)]
           folds(g) == g = [s \in SUBSET S |->
                              IF s = {} THEN 0
                              ELSE LET x == CHOOSE x \in s : TRUE IN Left(log, at, standing, x) + g[s \ {x}]]
           found == CHOOSE g : folds(g)
<1>1. LiveIn(log, at, t, standing) = found[S]
  BY DEF LiveIn, MapThenSumSet, MapThenFoldSet
<1>2. S \subseteq DOMAIN log
  BY DEF DirectIn, BagToSet
<1>3. IsFiniteSet(S)
  BY <1>2, FS_Subset DEF IsLog
<1>4. \A e \in S : left[e] = Left(log, at, standing, e) /\ left[e] \in Nat
  BY <1>2, LeftIs
<1> HIDE DEF left, S
<1>5. ASSUME NEW g PROVE folds(g) <=> Sums(g, left, S)
  <2> DEFINE a(s) == IF s = {} THEN 0
                     ELSE LET x == CHOOSE x \in s : TRUE IN Left(log, at, standing, x) + g[s \ {x}]
             b(s) == IF s = {} THEN 0
                     ELSE LET x == CHOOSE x \in s : TRUE IN left[x] + g[s \ {x}]
  <2>1. \A s \in SUBSET S : a(s) = b(s)
    <3> SUFFICES ASSUME NEW s \in SUBSET S, s # {} PROVE a(s) = b(s)
      OBVIOUS
    <3> DEFINE x == CHOOSE x \in s : TRUE
    <3>1. x \in s
      OBVIOUS
    <3>2. left[x] = Left(log, at, standing, x)
      BY <1>4, <3>1
    <3> QED
      BY <3>2
  <2>2. folds(g) <=> g = [s \in SUBSET S |-> a(s)]
    OBVIOUS
  <2>3. Sums(g, left, S) <=> g = [s \in SUBSET S |-> b(s)]
    BY DEF Sums
  <2> HIDE DEF a, b, folds
  <2> DEFINE fa == [s \in SUBSET S |-> a(s)]
             fb == [s \in SUBSET S |-> b(s)]
  <2>4. fa = fb
    BY <2>1
  <2> QED
    BY <2>2, <2>3, <2>4
<1>6. Sums(found, left, S)
  <2>1. PICK g : Sums(g, left, S)
    BY <1>3, <1>4, SumExists
  <2>2. folds(g)
    BY <1>5, <2>1
  <2>3. folds(found)
    <3> HIDE DEF folds
    <3> QED
      BY <2>2, Zenon
  <2> QED
    BY <1>5, <2>3
<1> HIDE DEF found
<1>7. LiveIn(log, at, t, standing) = Cardinality(Units(left, S))
  BY <1>1, <1>3, <1>4, <1>6, SumIsUnits
<1> QED
  BY <1>3, <1>4, <1>7 DEF left, S

(* The same calls fade faster at a lower standing.                         *)
LEMMA LiveFalls ==
  ASSUME NEW log, NEW more, IsLog(log), IsLog(more), NEW at \in 0..MaxTime,
         \A e \in DOMAIN log : e.time \in 0..at, \A e \in DOMAIN more : e.time \in 0..at,
         NEW t, DirectIn(more, t) = DirectIn(log, t), \A e \in DirectIn(log, t) : more[e] = log[e],
         NEW low \in Floor..Par, NEW high \in Floor..Par, low =< high
  PROVE  /\ LiveIn(more, at, t, low) =< LiveIn(log, at, t, high)
         /\ LiveIn(more, at, t, low) \in Nat /\ LiveIn(log, at, t, high) \in Nat
<1> DEFINE S == DirectIn(log, t)
           f == [e \in S |-> Left(more, at, low, e)]
           h == [e \in S |-> Left(log, at, high, e)]
<1>1. /\ IsFiniteSet(S)
      /\ LiveIn(log, at, t, high) = Cardinality(Units(h, S))
      /\ \A e \in S : h[e] = Left(log, at, high, e) /\ h[e] \in Nat
  BY LiveIsUnits
<1>2. /\ LiveIn(more, at, t, low) = Cardinality(Units(f, S))
      /\ \A e \in S : f[e] = Left(more, at, low, e) /\ f[e] \in Nat
  BY LiveIsUnits
<1>3. ASSUME NEW e \in S PROVE Left(more, at, low, e) =< Left(log, at, high, e)
  <2>1. e \in DOMAIN log /\ log[e] \in Nat /\ e.time \in 0..at /\ more[e] = log[e]
    BY <1>3 DEF DirectIn, BagToSet, IsLog
  <2> DEFINE age == at - e.time
             fl == Share(age, low)
             fh == Share(age, high)
  <2>2. age \in 0..MaxTime /\ fl \in Nat /\ fh \in Nat
    BY <2>1, LeftIs
  <2>3. fl =< fh
    <3> HIDE DEF age
    <3> QED
      BY <2>2, HigherFadesSlower
  <2>4. Left(more, at, low, e) = log[e] * fl /\ Left(log, at, high, e) = log[e] * fh
    BY <2>1 DEF Left
  <2> DEFINE k == log[e]
  <2> HIDE DEF fl, fh, k
  <2>5. k * fl =< k * fh
    BY <2>1, <2>2, <2>3 DEF k
  <2> QED
    BY <2>4, <2>5 DEF k
<1> HIDE DEF f, h, S
<1>4. Cardinality(Units(f, S)) =< Cardinality(Units(h, S))
  BY <1>1, <1>2, <1>3, UnitsCompare
<1>5. Cardinality(Units(f, S)) \in Nat /\ Cardinality(Units(h, S)) \in Nat
  BY <1>1, <1>2, UnitsAreFinite, FS_CardinalityType
<1> QED
  BY <1>1, <1>2, <1>4, <1>5

-----------------------------------------------------------------------------
(* What the model reads off its state, before a step and after.            *)
LEMMA MassIs ==
  ASSUME NEW t
  PROVE  /\ Direct(t) = DirectIn(calls, t) /\ Direct(t)' = DirectIn(calls', t)
         /\ Mass(t) = CountIn(calls, DirectIn(calls, t))
         /\ Mass(t)' = CountIn(calls', DirectIn(calls', t))
<1>1. Direct(t) = DirectIn(calls, t) /\ Direct(t)' = DirectIn(calls', t)
  BY DEF Direct, DirectIn
<1>2. Mass(t) = CountIn(calls, DirectIn(calls, t))
  BY <1>1 DEF Mass, Count, CountIn
<1>3. Mass(t)' = CountIn(calls', DirectIn(calls', t))
  BY <1>1 DEF Mass, Count, CountIn, MapThenSumSet, MapThenFoldSet
<1> QED
  BY <1>1, <1>2, <1>3

LEMMA ClustersStay ==
  ASSUME NEW t, searches' = searches
  PROVE  ClusterOf(t)' = ClusterOf(t)
<1>1. \A pair : SeenTogether(pair)' = SeenTogether(pair)
  BY DEF SeenTogether
<1>2. Rivalries' = Rivalries
  BY <1>1 DEF Rivalries
<1>3. CompetitionClusters' = CompetitionClusters
  BY <1>2 DEF CompetitionClusters
<1> QED
  BY <1>3 DEF ClusterOf

StandingsAre == \A t : StandingOf(t) = ClusterStanding(calls, now, ClusterOf(t), t)

LEMMA StandingsWillBe == StandingsAre'
<1>1. StandingsAre
  BY StandingIs DEF StandingsAre
<1> QED
  BY <1>1, PTL

LEMMA LiveIs ==
  ASSUME NEW t
  PROVE  /\ Live(t) = LiveIn(calls, now, t, StandingOf(t))
         /\ Live(t)' = LiveIn(calls', now', t, StandingOf(t)')
<1>1. Live(t) = LiveIn(calls, now, t, StandingOf(t))
  BY MassIs DEF Live, LiveIn, Left, Share
<1>2. Live(t)' = LiveIn(calls', now', t, StandingOf(t)')
  BY MassIs DEF Live, LiveIn, Left, Share, MapThenSumSet, MapThenFoldSet
<1> QED
  BY <1>1, <1>2

(* A call by the simulation, or by the owner of a tool, whichever tool it  *)
(* is of, leaves that tool's mass and its dependents as they were, and     *)
(* does not bring it back: its rivals may gain by it, and it only fades.   *)
THEOREM InventedUseIsVoid == StandingSpec => InventedUseCountsForNothing
<1>1. ASSUME Logged, Logged', NEW c \in Callers, NEW t \in Tools, Call(c, t),
             NEW mine \in Tools, c \in Simulated \/ SelfCall(c, mine)
      PROVE  /\ Mass(mine)' = Mass(mine)
             /\ Archived(mine) => Archived(mine)'
             /\ Dependents(mine)' = Dependents(mine)
  <2> DEFINE S == DirectIn(calls, mine)
  <2>1. now' = now /\ searches' = searches
    BY <1>1 DEF Call
  <2>2. IsLog(calls) /\ IsLog(calls')
    BY <1>1 DEF Logged, IsLog
  <2>3. /\ \A e \in DOMAIN calls : e \in DOMAIN calls' /\ calls'[e] >= calls[e]
        /\ \A e : e.tool = mine /\ Countable(e) =>
              /\ e \in DOMAIN calls <=> e \in DOMAIN calls'
              /\ e \in DOMAIN calls => calls'[e] = calls[e]
    BY <1>1, <2>2, InventedAddsNothing
  <2>4. DirectIn(calls', mine) = S /\ \A e \in S : calls'[e] = calls[e]
    BY <2>3 DEF DirectIn, BagToSet
  <2>5. Dependents(mine)' = Dependents(mine)
    BY <2>3 DEF Dependents, BagToSet, Countable
  <2>6. IsFiniteSet(S) /\ \A e \in S : calls[e] \in Nat
    BY <2>2, FS_Subset DEF DirectIn, BagToSet, IsLog
  <2> HIDE DEF S
  <2>7. CountIn(calls', S) = CountIn(calls, S)
    BY <2>4, <2>6, CountIsUnits, SameUnits
  <2>8. Mass(mine)' = Mass(mine)
    BY <2>4, <2>7, MassIs DEF S
  <2>9. RecentIn(calls', now, mine) = RecentIn(calls, now, mine)
    <3> DEFINE T == RecentEvents(calls, now, mine)
    <3>1. T \subseteq S /\ RecentEvents(calls', now, mine) = T
      BY <2>4 DEF RecentEvents, S
    <3> HIDE DEF T
    <3>2. IsFiniteSet(T) /\ \A e \in T : calls'[e] = calls[e] /\ calls[e] \in Nat
      BY <2>4, <2>6, <3>1, FS_Subset
    <3>3. CountIn(calls', T) = CountIn(calls, T)
      BY <3>2, CountIsUnits, SameUnits
    <3> QED
      BY <3>1, <3>3 DEF RecentIn, T
  <2> DEFINE cluster == ClusterOf(mine)
             high == ClusterStanding(calls, now, cluster, mine)
             low == ClusterStanding(calls', now, cluster, mine)
  <2>10. IsFiniteSet(cluster) /\ mine \in cluster
    BY <1>1, ClustersAreOfTools
  <2>11. ClusterOf(mine)' = cluster
    BY <2>1, ClustersStay
  <2>12. StandingOf(mine) = high /\ StandingOf(mine)' = low
    BY <2>1, <2>11, StandingIs, StandingsWillBe DEF StandingsAre
  <2> HIDE DEF cluster
  <2>13. high \in Floor..Par /\ low \in Floor..Par
    BY <2>2, <2>10, BelowParIsBehind
  <2>14. low =< high
    BY <2>2, <2>3, <2>9, <2>10, StandingFalls
  <2> HIDE DEF high, low
  <2>15. /\ now \in 0..MaxTime
         /\ \A e \in DOMAIN calls : e.time \in 0..now
         /\ \A e \in DOMAIN calls' : e.time \in 0..now
    BY <1>1, <2>1 DEF Logged
  <2>16. /\ LiveIn(calls', now, mine, low) =< LiveIn(calls, now, mine, high)
         /\ LiveIn(calls', now, mine, low) \in Nat /\ LiveIn(calls, now, mine, high) \in Nat
    BY <2>2, <2>4, <2>13, <2>14, <2>15, LiveFalls DEF S
  <2>17. Live(mine) = LiveIn(calls, now, mine, high) /\ Live(mine)' = LiveIn(calls', now, mine, low)
    BY <2>1, <2>12, LiveIs
  <2>18. Live(mine)' =< Live(mine) /\ Live(mine)' \in Nat /\ Live(mine) \in Nat
    BY <2>16, <2>17
  <2>19. Archived(mine) => Archived(mine)'
    <3> SUFFICES ASSUME Archived(mine) PROVE Archived(mine)'
      OBVIOUS
    <3>1. Mass(mine) > 0 /\ Live(mine) < Whole
      BY DEF Archived
    <3>2. Mass(mine)' > 0 /\ Live(mine)' < Whole
      BY <2>8, <2>18, <3>1 DEF Whole
    <3> QED
      BY <3>2 DEF Archived
  <2> QED
    BY <2>5, <2>8, <2>19
<1> DEFINE Void ==
      \A c \in Callers, t \in Tools : Call(c, t) =>
        \A mine \in {x \in Tools : c \in Simulated \/ SelfCall(c, x)} :
          /\ Mass(mine)' = Mass(mine)
          /\ (Archived(mine) => Archived(mine)')
          /\ Dependents(mine)' = Dependents(mine)
<1>2. Logged /\ Logged' => Void
  BY <1>1
<1> HIDE DEF Void
<1>3. Logged /\ Logged' => [Void]_calls
  BY <1>2
<1>4. StandingSpec => [][Void]_calls
  BY <1>3, AlwaysLogged, PTL
<1> QED
  BY <1>4, PTL DEF Void, InventedUseCountsForNothing
=============================================================================
