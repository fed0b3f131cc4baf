------------------------- MODULE SearchTree_proofs -------------------------
(***************************************************************************)
(* Proofs about the search tree, for any number of search threads,         *)
(* callbacks and moves, any length of the game and either mode.            *)
(*                                                                         *)
(* The links of the nodes are a forest in which every node has a level,    *)
(* the number of moves up to it; without the levels Subtree, which follows *)
(* the children GameLength times, would not be known to reach every node   *)
(* below.  IInv says that there are such levels, that the live tree, the   *)
(* trees that wait for their deletion and the deleted nodes are apart, and *)
(* while no root has been changed under an evaluation in flight, which     *)
(* node every search thread and callback is at (Working), that a claimed   *)
(* leaf has one owner (Claims) and that a node has as many virtual losses  *)
(* as there are threads and callbacks below it (Balanced).                 *)
(*                                                                         *)
(* SumInv adds to it that the size, the visits and the value of a live     *)
(* node are those of its children and its own (Adds), once what the        *)
(* simulations on their way up still owe the node is added (Arriving).     *)
(***************************************************************************)
EXTENDS SearchTree, FiniteSums

-----------------------------------------------------------------------------
(* Trees.                                                                  *)

\* Subtree, for any nodes.
TreeOf(nd, n) ==
    LET below[k \in 0..GameLength] ==
            IF k = 0 THEN {n}
            ELSE below[k - 1] \cup UNION {nd[x].ch : x \in below[k - 1]}
    IN  below[GameLength]

\* Subtree is TreeOf the nodes there are, ...
LEMMA SubtreeIsTree == \A n : Subtree(n) = TreeOf(node, n)
BY DEF Subtree, TreeOf

\* ... before a step and after it.
LEMMA SubtreeIsTreeNext == \A n : Subtree(n)' = TreeOf(node', n)
BY DEF Subtree, TreeOf

\* The nodes below n, level by level.
Below(nd, n, k, f) ==
    f = [i \in 0..k |-> IF i = 0 THEN {n}
                        ELSE f[i - 1] \cup UNION {nd[x].ch : x \in f[i - 1]}]

\* The levels below a node exist, however deep.
LEMMA BelowExists == \A nd, n : \A k \in Nat : \E f : Below(nd, n, k, f)
<1> SUFFICES ASSUME NEW nd, NEW n  PROVE \A k \in Nat : \E f : Below(nd, n, k, f)
  OBVIOUS
<1> DEFINE T == {k \in Nat : \E f : Below(nd, n, k, f)}
<1>1. 0 \in T
  <2> DEFINE g == [i \in 0..0 |-> {n}]
  <2>1. Below(nd, n, 0, g)  BY DEF Below
  <2> QED  BY <2>1
<1>2. ASSUME NEW k \in Nat, k \in T  PROVE k + 1 \in T
  <2>1. PICK f : Below(nd, n, k, f)  BY <1>2
  <2> DEFINE g == [i \in 0..(k + 1) |->
                     IF i = k + 1 THEN f[k] \cup UNION {nd[x].ch : x \in f[k]} ELSE f[i]]
             h == [i \in 0..(k + 1) |-> IF i = 0 THEN {n}
                                        ELSE g[i - 1] \cup UNION {nd[x].ch : x \in g[i - 1]}]
  <2>2. \A i \in 0..k : g[i] = f[i]  OBVIOUS
  <2>3. \A i \in 0..k : f[i] = IF i = 0 THEN {n}
                               ELSE f[i - 1] \cup UNION {nd[x].ch : x \in f[i - 1]}
    BY <2>1 DEF Below
  <2>4. ASSUME NEW i \in 0..(k + 1) PROVE g[i] = h[i]
    <3>1. CASE i = k + 1
      <4>1. k \in 0..k /\ i - 1 = k /\ i # 0  BY <3>1
      <4>2. g[i] = f[k] \cup UNION {nd[x].ch : x \in f[k]}  BY <3>1
      <4>3. h[i] = g[i - 1] \cup UNION {nd[x].ch : x \in g[i - 1]}  BY <4>1
      <4>4. g[i - 1] = f[k]  BY <2>2, <4>1
      <4> QED  BY <4>2, <4>3, <4>4
    <3>2. CASE i = 0
      <4>1. 0 \in 0..k /\ k + 1 # 0  OBVIOUS
      <4>2. g[i] = f[0] /\ f[0] = {n}  BY <2>2, <2>3, <3>2, <4>1
      <4>3. h[i] = {n}  BY <3>2
      <4> QED  BY <4>2, <4>3
    <3>3. CASE i # 0 /\ i # k + 1
      <4>1. i \in 0..k /\ i - 1 \in 0..k  BY <3>3
      <4>2. g[i] = f[i] /\ g[i - 1] = f[i - 1]  BY <4>1, <2>2
      <4>3. f[i] = f[i - 1] \cup UNION {nd[x].ch : x \in f[i - 1]}  BY <2>3, <3>3, <4>1
      <4>4. h[i] = g[i - 1] \cup UNION {nd[x].ch : x \in g[i - 1]}  BY <3>3
      <4> QED  BY <4>2, <4>3, <4>4
    <3> QED  BY <3>1, <3>2, <3>3
  <2> HIDE DEF g
  <2>5. g = h
    <3>1. g = [i \in 0..(k + 1) |-> g[i]]  BY DEF g
    <3> QED  BY <2>4, <3>1
  <2>6. Below(nd, n, k + 1, g)  BY <2>5 DEF Below
  <2> QED  BY <2>6
<1> HIDE DEF T
<1>3. Nat \subseteq T  BY <1>1, <1>2, AllNaturals
<1> QED  BY <1>3 DEF T

\* So Subtree ends with the last of these levels.
LEMMA TreeIsBelow ==
    ASSUME GameLength \in Nat, NEW nd, NEW n
    PROVE  \E f : Below(nd, n, GameLength, f) /\ TreeOf(nd, n) = f[GameLength]
<1> DEFINE b == CHOOSE f : Below(nd, n, GameLength, f)
<1>1. Below(nd, n, GameLength, b)  BY BelowExists
<1>2. TreeOf(nd, n) = b[GameLength]  BY DEF TreeOf, Below
<1> QED  BY <1>1, <1>2

\* A set of nodes with n that has the children of all its members has all below n.
LEMMA TreeLeast ==
    ASSUME GameLength \in Nat, NEW nd, NEW n, NEW D, n \in D, \A x \in D : nd[x].ch \subseteq D
    PROVE  TreeOf(nd, n) \subseteq D
<1>1. PICK f : Below(nd, n, GameLength, f) /\ TreeOf(nd, n) = f[GameLength]
  BY TreeIsBelow
<1>2. \A i \in 0..GameLength : f[i] = IF i = 0 THEN {n}
                                      ELSE f[i - 1] \cup UNION {nd[x].ch : x \in f[i - 1]}
  BY <1>1 DEF Below
<1> DEFINE T == {k \in Nat : k \in 0..GameLength => f[k] \subseteq D}
<1>3. 0 \in T  BY <1>2
<1>4. ASSUME NEW k \in Nat, k \in T, k + 1 \in 0..GameLength  PROVE f[k + 1] \subseteq D
  <2>1. k \in 0..GameLength /\ f[k] \subseteq D /\ k + 1 # 0 /\ (k + 1) - 1 = k  BY <1>4
  <2>2. f[k + 1] = f[k] \cup UNION {nd[x].ch : x \in f[k]}  BY <1>2, <1>4, <2>1
  <2> QED  BY <2>1, <2>2
<1>5. \A k \in Nat : k \in T => k + 1 \in T  BY <1>4
<1> HIDE DEF T
<1>6. Nat \subseteq T  BY <1>3, <1>5, AllNaturals
<1> QED  BY <1>1, <1>6 DEF T

\* Nodes that are linked both ways, and the number of moves up to each of them.
Forest(nd, lev) ==
    /\ lev \in [DOMAIN nd -> 0..GameLength]
    /\ nullptr \notin DOMAIN nd
    /\ \A x \in DOMAIN nd :
          /\ nd[x].ch \subseteq DOMAIN nd
          /\ \A c \in nd[x].ch : nd[c].fa = x /\ lev[c] = lev[x] + 1
          /\ nd[x].fa # nullptr => nd[x].fa \in DOMAIN nd /\ x \in nd[nd[x].fa].ch

\* GameLength levels are all there are.
LEMMA TreeClosed ==
    ASSUME GameLength \in Nat, NEW nd, NEW lev, Forest(nd, lev), NEW n \in DOMAIN nd
    PROVE  /\ n \in TreeOf(nd, n) /\ TreeOf(nd, n) \subseteq DOMAIN nd
           /\ \A x \in TreeOf(nd, n) : nd[x].ch \subseteq TreeOf(nd, n)
<1>1. PICK f : Below(nd, n, GameLength, f) /\ TreeOf(nd, n) = f[GameLength]
  BY TreeIsBelow
<1>2. \A i \in 0..GameLength : f[i] = IF i = 0 THEN {n}
                                      ELSE f[i - 1] \cup UNION {nd[x].ch : x \in f[i - 1]}
  BY <1>1 DEF Below
<1>3. ASSUME NEW k \in Nat, k + 1 \in 0..GameLength
      PROVE  f[k + 1] = f[k] \cup UNION {nd[x].ch : x \in f[k]}
  <2>1. k + 1 # 0 /\ (k + 1) - 1 = k  OBVIOUS
  <2> QED  BY <1>2, <1>3, <2>1
<1>4. f[0] = {n}
  <2>1. 0 \in 0..GameLength  OBVIOUS
  <2> QED  BY <1>2, <2>1
<1>5. TreeOf(nd, n) \subseteq DOMAIN nd  BY TreeLeast DEF Forest
<1>6. ASSUME NEW j \in 0..GameLength  PROVE f[j] \subseteq f[GameLength]
  <2> DEFINE T == {k \in Nat : k + j \in 0..GameLength => f[j] \subseteq f[k + j]}
  <2>1. 0 \in T  BY <1>6
  <2>2. ASSUME NEW k \in Nat, k \in T, (k + 1) + j \in 0..GameLength
        PROVE  f[j] \subseteq f[(k + 1) + j]
    <3>1. k + j \in 0..GameLength /\ k + j \in Nat /\ (k + j) + 1 = (k + 1) + j
      BY <2>2
    <3>2. f[(k + j) + 1] = f[k + j] \cup UNION {nd[x].ch : x \in f[k + j]}
      BY <1>3, <2>2, <3>1
    <3> QED  BY <2>2, <3>1, <3>2
  <2>3. \A k \in Nat : k \in T => k + 1 \in T  BY <2>2
  <2> HIDE DEF T
  <2>4. Nat \subseteq T  BY <2>1, <2>3, AllNaturals
  <2>5. GameLength - j \in Nat /\ (GameLength - j) + j = GameLength  OBVIOUS
  <2> QED  BY <2>4, <2>5 DEF T
<1>7. n \in TreeOf(nd, n)  BY <1>1, <1>4, <1>6
<1> DEFINE depth(x) == lev[x] - lev[n]
           T == {k \in Nat : k \in 0..GameLength =>
                   \A x \in f[k] : /\ x \in DOMAIN nd
                                   /\ depth(x) \in 0..GameLength /\ x \in f[depth(x)]}
<1>8. 0 \in T
  <2>1. depth(n) = 0  BY DEF Forest
  <2> QED  BY <1>4, <2>1
<1>9. ASSUME NEW k \in Nat, k \in T, k + 1 \in 0..GameLength, NEW c \in f[k + 1]
      PROVE  c \in DOMAIN nd /\ depth(c) \in 0..GameLength /\ c \in f[depth(c)]
  <2>1. k \in 0..GameLength  BY <1>9
  <2>2. \A x \in f[k] : x \in DOMAIN nd /\ depth(x) \in 0..GameLength /\ x \in f[depth(x)]
    BY <1>9, <2>1
  <2>3. CASE c \in f[k]  BY <2>2, <2>3
  <2>4. CASE c \notin f[k]
    <3>1. PICK x \in f[k] : c \in nd[x].ch  BY <1>3, <1>9, <2>4
    <3>2. x \in DOMAIN nd /\ depth(x) \in 0..GameLength /\ x \in f[depth(x)]  BY <2>2
    <3>3. c \in DOMAIN nd /\ lev[c] = lev[x] + 1  BY <3>1, <3>2 DEF Forest
    <3>4. lev[x] \in 0..GameLength /\ lev[c] \in 0..GameLength /\ lev[n] \in 0..GameLength
      BY <3>2, <3>3 DEF Forest
    <3>5. depth(c) = depth(x) + 1 /\ depth(c) \in 0..GameLength /\ depth(x) \in Nat
      BY <3>2, <3>3, <3>4
    <3> HIDE DEF depth
    <3>6. f[depth(x) + 1] = f[depth(x)] \cup UNION {nd[y].ch : y \in f[depth(x)]}
      BY <1>3, <3>5
    <3> QED  BY <3>1, <3>2, <3>3, <3>5, <3>6
  <2> QED  BY <2>3, <2>4
<1>10. \A k \in Nat : k \in T => k + 1 \in T  BY <1>9
<1>11. Nat \subseteq T
  <2> HIDE DEF T
  <2> QED  BY <1>8, <1>10, AllNaturals
<1>12. ASSUME NEW x \in TreeOf(nd, n), NEW c \in nd[x].ch  PROVE c \in TreeOf(nd, n)
  <2>1. x \in DOMAIN nd /\ depth(x) \in 0..GameLength /\ x \in f[depth(x)]
    BY <1>1, <1>11
  <2>2. c \in DOMAIN nd /\ lev[c] = lev[x] + 1  BY <2>1 DEF Forest
  <2>3. lev[x] \in 0..GameLength /\ lev[c] \in 0..GameLength /\ lev[n] \in 0..GameLength
    BY <2>1, <2>2 DEF Forest
  <2>4. depth(x) \in Nat /\ depth(x) + 1 \in 0..GameLength  BY <2>1, <2>2, <2>3
  <2> HIDE DEF depth
  <2>5. c \in f[depth(x) + 1]  BY <1>3, <2>1, <2>4
  <2> QED  BY <1>1, <1>6, <2>4, <2>5
<1> QED  BY <1>5, <1>7, <1>12

\* A node is below n when it is n or its parent is.
LEMMA TreeUp ==
    ASSUME GameLength \in Nat, NEW nd, NEW lev, Forest(nd, lev),
           NEW n \in DOMAIN nd, NEW c \in DOMAIN nd
    PROVE  c \in TreeOf(nd, n) <=>
              c = n \/ (nd[c].fa # nullptr /\ nd[c].fa \in TreeOf(nd, n))
<1> DEFINE D == TreeOf(nd, n)
<1>1. n \in D /\ D \subseteq DOMAIN nd /\ \A x \in D : nd[x].ch \subseteq D
  BY TreeClosed
<1>2. ASSUME nd[c].fa # nullptr, nd[c].fa \in D  PROVE c \in D
  BY <1>1, <1>2 DEF Forest
<1>3. ASSUME c \in D, c # n, nd[c].fa = nullptr \/ nd[c].fa \notin D  PROVE FALSE
  <2> HIDE DEF D
  <2>1. \A x \in D \ {c} : nd[x].ch \subseteq D \ {c}
    BY <1>1, <1>3 DEF Forest
  <2>2. D \subseteq D \ {c}  BY <1>1, <1>3, <2>1, TreeLeast DEF D
  <2> QED  BY <1>3, <2>2
<1> QED  BY <1>1, <1>2, <1>3

\* The nodes below n come after more moves.
LEMMA TreeLevel ==
    ASSUME GameLength \in Nat, NEW nd, NEW lev, Forest(nd, lev),
           NEW n \in DOMAIN nd, NEW x \in TreeOf(nd, n)
    PROVE  x \in DOMAIN nd /\ lev[x] >= lev[n] /\ (x # n => lev[x] > lev[n])
<1> DEFINE D == {y \in DOMAIN nd : lev[y] >= lev[n] /\ (y # n => lev[y] > lev[n])}
<1>1. \A y \in DOMAIN nd : lev[y] \in 0..GameLength  BY DEF Forest
<1>2. n \in D  BY <1>1
<1>3. ASSUME NEW y \in D, NEW c \in nd[y].ch  PROVE c \in D
  <2>1. c \in DOMAIN nd /\ lev[c] = lev[y] + 1  BY DEF Forest
  <2> QED  BY <1>1, <2>1
<1> HIDE DEF D
<1>4. TreeOf(nd, n) \subseteq D  BY <1>2, <1>3, TreeLeast
<1> QED  BY <1>4 DEF D

\* Different trees have no node in common.
LEMMA RootsApart ==
    ASSUME GameLength \in Nat, NEW nd, NEW lev, Forest(nd, lev),
           NEW r \in DOMAIN nd, NEW s \in DOMAIN nd, r # s,
           nd[r].fa = nullptr, nd[s].fa = nullptr
    PROVE  TreeOf(nd, r) \cap TreeOf(nd, s) = {}
<1> DEFINE D == TreeOf(nd, r)
           E == TreeOf(nd, s)
<1>1. /\ r \in D /\ D \subseteq DOMAIN nd /\ \A x \in D : nd[x].ch \subseteq D
      /\ r \notin E
      /\ \A c \in DOMAIN nd : c \in E => c = s \/ nd[c].fa \in E
  BY TreeClosed, TreeUp
<1> HIDE DEF E
<1>2. r \in D \ E /\ \A x \in D \ E : nd[x].ch \subseteq D \ E
  BY <1>1 DEF Forest
<1>3. D \subseteq D \ E  BY <1>2, TreeLeast
<1> QED  BY <1>3 DEF E

\* What is below a node below n is below n.
LEMMA TreeInTree ==
    ASSUME GameLength \in Nat, NEW nd, NEW lev, Forest(nd, lev),
           NEW n \in DOMAIN nd, NEW x \in TreeOf(nd, n)
    PROVE  TreeOf(nd, x) \subseteq TreeOf(nd, n)
BY TreeClosed, TreeLeast

-----------------------------------------------------------------------------
(* What the steps do to a forest.                                          *)

\* Other fields of the nodes change.
SameLinks(nd, new) ==
    /\ DOMAIN new = DOMAIN nd
    /\ \A x \in DOMAIN nd : new[x].ch = nd[x].ch /\ new[x].fa = nd[x].fa

\* Then the trees stay the same.
LEMMA SameTrees ==
    ASSUME GameLength \in Nat, NEW nd, NEW lev, Forest(nd, lev), NEW new, SameLinks(nd, new)
    PROVE  /\ Forest(new, lev)
           /\ \A n \in DOMAIN nd : TreeOf(new, n) = TreeOf(nd, n)
<1>1. Forest(new, lev)
  <2>1. lev \in [DOMAIN new -> 0..GameLength] /\ nullptr \notin DOMAIN new
    BY DEF Forest, SameLinks
  <2>2. ASSUME NEW x \in DOMAIN new
        PROVE  /\ new[x].ch \subseteq DOMAIN new
               /\ \A c \in new[x].ch : new[c].fa = x /\ lev[c] = lev[x] + 1
               /\ new[x].fa # nullptr => new[x].fa \in DOMAIN new /\ x \in new[new[x].fa].ch
    BY DEF Forest, SameLinks
  <2> QED  BY <2>1, <2>2 DEF Forest
<1>2. ASSUME NEW n \in DOMAIN nd  PROVE TreeOf(new, n) = TreeOf(nd, n)
  <2>1. /\ n \in TreeOf(nd, n) /\ TreeOf(nd, n) \subseteq DOMAIN nd
        /\ \A x \in TreeOf(nd, n) : new[x].ch \subseteq TreeOf(nd, n)
    BY TreeClosed DEF SameLinks
  <2>2. /\ n \in TreeOf(new, n) /\ TreeOf(new, n) \subseteq DOMAIN new
        /\ \A x \in TreeOf(new, n) : nd[x].ch \subseteq TreeOf(new, n)
    <3>1. n \in DOMAIN new  BY DEF SameLinks
    <3> QED  BY <1>1, <3>1, TreeClosed DEF SameLinks
  <2>3. TreeOf(new, n) \subseteq TreeOf(nd, n)  BY <2>1, TreeLeast
  <2>4. TreeOf(nd, n) \subseteq TreeOf(new, n)  BY <2>2, TreeLeast
  <2> QED  BY <2>3, <2>4
<1> QED  BY <1>1, <1>2

\* A node without children gets new ones.
Grows(nd, new, l, C) ==
    /\ l \in DOMAIN nd /\ nd[l].ch = {} /\ C \cap DOMAIN nd = {} /\ nullptr \notin C
    /\ DOMAIN new = DOMAIN nd \cup C
    /\ new[l].ch = C /\ new[l].fa = nd[l].fa
    /\ \A c \in C : new[c].fa = l /\ new[c].ch = {}
    /\ \A x \in DOMAIN nd \ {l} : new[x].ch = nd[x].ch /\ new[x].fa = nd[x].fa

Extended(nd, lev, l, C) ==
    [x \in DOMAIN nd \cup C |-> IF x \in C THEN lev[l] + 1 ELSE lev[x]]

\* The trees with that node get the new ones, the other trees get none.
LEMMA GrownTrees ==
    ASSUME GameLength \in Nat, NEW nd, NEW lev, Forest(nd, lev), NEW new, NEW l, NEW C,
           Grows(nd, new, l, C), lev[l] < GameLength
    PROVE  /\ Forest(new, Extended(nd, lev, l, C))
           /\ \A n \in DOMAIN nd :
                 TreeOf(new, n) = TreeOf(nd, n) \cup (IF l \in TreeOf(nd, n) THEN C ELSE {})
           /\ \A c \in C : TreeOf(new, c) = {c}
<1> DEFINE lv == Extended(nd, lev, l, C)
<1>1. /\ \A x \in DOMAIN nd : x \in DOMAIN new /\ lv[x] = lev[x] /\ x \notin C
      /\ \A c \in C : c \in DOMAIN new /\ lv[c] = lev[l] + 1
      /\ DOMAIN lv = DOMAIN new
  BY DEF Extended, Grows
<1>2. l \in DOMAIN nd /\ lev[l] \in 0..GameLength /\ lev[l] + 1 \in 0..GameLength
  BY DEF Forest, Grows
<1>3. lv \in [DOMAIN new -> 0..GameLength]
  <2>1. \A x \in DOMAIN nd : lev[x] \in 0..GameLength  BY DEF Forest
  <2> QED  BY <1>2, <2>1 DEF Extended, Grows
<1> HIDE DEF lv
<1>4. ASSUME NEW x \in DOMAIN new
      PROVE  /\ new[x].ch \subseteq DOMAIN new
             /\ \A c \in new[x].ch : new[c].fa = x /\ lv[c] = lv[x] + 1
             /\ new[x].fa # nullptr => new[x].fa \in DOMAIN new /\ x \in new[new[x].fa].ch
  <2>1. CASE x \in C
    <3>1. new[x].ch = {} /\ new[x].fa = l /\ x \in new[l].ch  BY <2>1 DEF Grows
    <3> QED  BY <1>1, <1>2, <3>1
  <2>2. CASE x = l
    <3>1. new[x].ch = C /\ new[x].fa = nd[x].fa /\ x \in DOMAIN nd
      BY <2>2 DEF Grows
    <3>2. \A c \in C : new[c].fa = x /\ lv[c] = lv[x] + 1
      BY <1>1, <2>2, <3>1 DEF Grows
    <3>3. ASSUME nd[x].fa # nullptr
          PROVE  nd[x].fa \in DOMAIN new /\ x \in new[nd[x].fa].ch
      <4>1. nd[x].fa \in DOMAIN nd /\ x \in nd[nd[x].fa].ch
        BY <3>1, <3>3 DEF Forest
      <4>2. nd[x].fa # l  BY <4>1 DEF Grows
      <4> QED  BY <1>1, <4>1, <4>2 DEF Grows
    <3> QED  BY <1>1, <3>1, <3>2, <3>3
  <2>3. CASE x \in DOMAIN nd \ {l}
    <3>1. new[x].ch = nd[x].ch /\ new[x].fa = nd[x].fa  BY <2>3 DEF Grows
    <3>2. ASSUME NEW c \in nd[x].ch  PROVE new[c].fa = x /\ lv[c] = lv[x] + 1
      <4>1. c \in DOMAIN nd /\ nd[c].fa = x /\ lev[c] = lev[x] + 1
        BY <2>3 DEF Forest
      <4>2. new[c].fa = nd[c].fa  BY <4>1 DEF Grows
      <4> QED  BY <1>1, <2>3, <4>1, <4>2
    <3>3. nd[x].ch \subseteq DOMAIN new  BY <1>1, <2>3 DEF Forest
    <3>4. ASSUME nd[x].fa # nullptr
          PROVE  nd[x].fa \in DOMAIN new /\ x \in new[nd[x].fa].ch
      <4>1. nd[x].fa \in DOMAIN nd /\ x \in nd[nd[x].fa].ch
        BY <2>3, <3>4 DEF Forest
      <4>2. nd[x].fa # l  BY <4>1 DEF Grows
      <4> QED  BY <1>1, <4>1, <4>2 DEF Grows
    <3> QED  BY <3>1, <3>2, <3>3, <3>4
  <2>4. DOMAIN new = DOMAIN nd \cup C  BY DEF Grows
  <2> QED  BY <2>1, <2>2, <2>3, <2>4
<1>5. nullptr \notin DOMAIN new  BY DEF Grows, Forest
<1>6. Forest(new, lv)  BY <1>3, <1>4, <1>5 DEF Forest
<1>7. ASSUME NEW n \in DOMAIN nd
      PROVE  TreeOf(new, n) = TreeOf(nd, n) \cup (IF l \in TreeOf(nd, n) THEN C ELSE {})
  <2> DEFINE D == TreeOf(nd, n)
             E == TreeOf(new, n)
             N == D \cup (IF l \in D THEN C ELSE {})
  <2>1. n \in D /\ D \subseteq DOMAIN nd /\ \A x \in D : nd[x].ch \subseteq D
    BY TreeClosed
  <2>2. n \in E /\ \A x \in E : new[x].ch \subseteq E
    BY <1>1, <1>6, TreeClosed
  <2>3. E \subseteq N
    <3>1. n \in N  BY <2>1
    <3>2. ASSUME NEW x \in N  PROVE new[x].ch \subseteq N
      <4> HIDE DEF D
      <4>1. CASE x \in C  BY <4>1 DEF Grows
      <4>2. CASE x = l  BY <1>1, <2>1, <3>2, <4>2 DEF Grows
      <4>3. CASE x \notin C /\ x # l
        <5>1. x \in D /\ new[x].ch = nd[x].ch  BY <2>1, <3>2, <4>3 DEF Grows
        <5> QED  BY <2>1, <5>1
      <4> QED  BY <4>1, <4>2, <4>3
    <3> HIDE DEF N
    <3> QED  BY <3>1, <3>2, TreeLeast
  <2>4. D \subseteq E
    <3> HIDE DEF E
    <3>1. ASSUME NEW x \in E \cap DOMAIN nd  PROVE nd[x].ch \subseteq E \cap DOMAIN nd
      <4>1. CASE x = l  BY <4>1 DEF Grows
      <4>2. CASE x # l  BY <2>2, <4>2 DEF Grows, Forest
      <4> QED  BY <4>1, <4>2
    <3>2. D \subseteq E \cap DOMAIN nd  BY <2>2, <3>1, TreeLeast
    <3> QED  BY <3>2
  <2>5. ASSUME l \in D  PROVE C \subseteq E
    <3> HIDE DEF D, E
    <3> QED  BY <2>2, <2>4, <2>5 DEF Grows
  <2> HIDE DEF D, E
  <2>6. E = N  BY <2>3, <2>4, <2>5
  <2> QED  BY <2>6 DEF D, E
<1>8. ASSUME NEW c \in C  PROVE TreeOf(new, c) = {c}
  <2>1. c \in TreeOf(new, c)  BY <1>1, <1>6, TreeClosed
  <2>2. new[c].ch = {}  BY DEF Grows
  <2>3. TreeOf(new, c) \subseteq {c}  BY <2>2, TreeLeast
  <2> QED  BY <2>1, <2>3
<1> QED  BY <1>6, <1>7, <1>8 DEF lv
\* A new root, without children.
Planted(nd, new, r) ==
    /\ r \notin DOMAIN nd /\ r # nullptr
    /\ DOMAIN new = DOMAIN nd \cup {r}
    /\ new[r].ch = {} /\ new[r].fa = nullptr
    /\ \A x \in DOMAIN nd : new[x].ch = nd[x].ch /\ new[x].fa = nd[x].fa

WithRoot(nd, lev, r, p) == [x \in DOMAIN nd \cup {r} |-> IF x = r THEN p ELSE lev[x]]

\* It is a tree of its own, and the others stay as they are.
LEMMA PlantedTrees ==
    ASSUME GameLength \in Nat, NEW nd, NEW lev, Forest(nd, lev), NEW new, NEW r,
           Planted(nd, new, r), NEW p \in 0..GameLength
    PROVE  /\ Forest(new, WithRoot(nd, lev, r, p))
           /\ \A x \in DOMAIN nd : TreeOf(new, x) = TreeOf(nd, x)
           /\ TreeOf(new, r) = {r}
<1> DEFINE lv == WithRoot(nd, lev, r, p)
<1>1. /\ DOMAIN new = DOMAIN nd \cup {r} /\ r \notin DOMAIN nd /\ lv[r] = p
      /\ \A x \in DOMAIN nd : x # r /\ lv[x] = lev[x]
  BY DEF WithRoot, Planted
<1>2. lv \in [DOMAIN new -> 0..GameLength]
  <2>1. \A x \in DOMAIN nd : lev[x] \in 0..GameLength  BY DEF Forest
  <2> QED  BY <2>1 DEF WithRoot, Planted
<1> HIDE DEF lv
<1>3. ASSUME NEW x \in DOMAIN new
      PROVE  /\ new[x].ch \subseteq DOMAIN new
             /\ \A c \in new[x].ch : new[c].fa = x /\ lv[c] = lv[x] + 1
             /\ new[x].fa # nullptr => new[x].fa \in DOMAIN new /\ x \in new[new[x].fa].ch
  <2>1. CASE x = r  BY <2>1 DEF Planted
  <2>2. CASE x \in DOMAIN nd
    <3>1. /\ nd[x].ch \subseteq DOMAIN nd
          /\ \A c \in nd[x].ch : nd[c].fa = x /\ lev[c] = lev[x] + 1
          /\ nd[x].fa # nullptr => nd[x].fa \in DOMAIN nd /\ x \in nd[nd[x].fa].ch
      BY <2>2 DEF Forest
    <3> QED  BY <1>1, <2>2, <3>1 DEF Planted
  <2> QED  BY <1>1, <2>1, <2>2
<1>4. nullptr \notin DOMAIN new  BY DEF Planted, Forest
<1>5. Forest(new, lv)  BY <1>2, <1>3, <1>4 DEF Forest
<1>6. ASSUME NEW x \in DOMAIN nd  PROVE TreeOf(new, x) = TreeOf(nd, x)
  <2> DEFINE D == TreeOf(nd, x)
             E == TreeOf(new, x)
  <2>1. x \in D /\ D \subseteq DOMAIN nd /\ \A y \in D : nd[y].ch \subseteq D
    BY TreeClosed
  <2>2. x \in E /\ \A y \in E : new[y].ch \subseteq E
    BY <1>1, <1>5, TreeClosed
  <2>3. E \subseteq D
    <3> HIDE DEF D
    <3>1. \A y \in D : new[y].ch \subseteq D  BY <2>1 DEF Planted
    <3> QED  BY <2>1, <3>1, TreeLeast
  <2>4. D \subseteq E
    <3>1. \A y \in E : nd[y].ch \subseteq E
      <4> HIDE DEF D, E
      <4> QED  BY <2>1, <2>2, <2>3 DEF Planted
    <3> HIDE DEF E
    <3> QED  BY <2>2, <3>1, TreeLeast
  <2> QED  BY <2>3, <2>4
<1>7. TreeOf(new, r) = {r}
  <2>1. r \in TreeOf(new, r)  BY <1>1, <1>5, TreeClosed
  <2>2. new[r].ch = {}  BY DEF Planted
  <2>3. TreeOf(new, r) \subseteq {r}  BY <2>2, TreeLeast
  <2> QED  BY <2>1, <2>3
<1> QED  BY <1>5, <1>6, <1>7 DEF lv

\* A new root that takes over the children of n.
Rerooted(nd, new, n, r) ==
    /\ n \in DOMAIN nd /\ r \notin DOMAIN nd /\ r # nullptr
    /\ DOMAIN new = DOMAIN nd \cup {r}
    /\ new[r].ch = nd[n].ch /\ new[r].fa = nullptr
    /\ new[n].ch = {} /\ new[n].fa = nd[n].fa
    /\ \A x \in DOMAIN nd \ {n} :
          /\ new[x].ch = nd[x].ch
          /\ new[x].fa = IF x \in nd[n].ch THEN r ELSE nd[x].fa

\* The new root takes what is below n, which the trees with n lose.
LEMMA RerootedTrees ==
    ASSUME GameLength \in Nat, NEW nd, NEW lev, Forest(nd, lev), NEW new, NEW n, NEW r,
           Rerooted(nd, new, n, r)
    PROVE  /\ Forest(new, WithRoot(nd, lev, r, lev[n]))
           /\ TreeOf(new, r) = {r} \cup (TreeOf(nd, n) \ {n})
           /\ \A x \in DOMAIN nd :
                 TreeOf(new, x) = IF n \in TreeOf(nd, x)
                                  THEN TreeOf(nd, x) \ (TreeOf(nd, n) \ {n})
                                  ELSE TreeOf(nd, x)
<1> DEFINE lv == WithRoot(nd, lev, r, lev[n])
           B == TreeOf(nd, n)
<1>1. /\ DOMAIN new = DOMAIN nd \cup {r} /\ r \notin DOMAIN nd /\ lv[r] = lev[n]
      /\ \A x \in DOMAIN nd : x # r /\ lv[x] = lev[x]
      /\ n \in DOMAIN nd
  BY DEF WithRoot, Rerooted
<1>2. lv \in [DOMAIN new -> 0..GameLength]
  <2>1. \A x \in DOMAIN nd : lev[x] \in 0..GameLength  BY DEF Forest
  <2> QED  BY <2>1 DEF WithRoot, Rerooted
<1> HIDE DEF lv
<1>3. \A x \in DOMAIN nd :
         /\ nd[x].ch \subseteq DOMAIN nd
         /\ \A c \in nd[x].ch : nd[c].fa = x /\ lev[c] = lev[x] + 1 /\ c # x
         /\ nd[x].fa # nullptr => /\ nd[x].fa \in DOMAIN nd /\ x \in nd[nd[x].fa].ch
                                  /\ nd[x].fa # x
  <2>1. \A x \in DOMAIN nd : lev[x] \in 0..GameLength  BY DEF Forest
  <2>2. \A x \in DOMAIN nd : \A c \in nd[x].ch : c # x  BY <2>1 DEF Forest
  <2> QED  BY <2>2 DEF Forest
<1>4. ASSUME NEW x \in DOMAIN new
      PROVE  /\ new[x].ch \subseteq DOMAIN new
             /\ \A c \in new[x].ch : new[c].fa = x /\ lv[c] = lv[x] + 1
             /\ new[x].fa # nullptr => new[x].fa \in DOMAIN new /\ x \in new[new[x].fa].ch
  <2>1. CASE x = r
    <3>1. \A c \in nd[n].ch : c \in DOMAIN nd \ {n} /\ lev[c] = lev[n] + 1
      BY <1>1, <1>3
    <3>2. \A c \in nd[n].ch : new[c].fa = r  BY <3>1 DEF Rerooted
    <3> QED  BY <1>1, <2>1, <3>1, <3>2 DEF Rerooted
  <2>2. CASE x = n
    <3>1. new[x].ch = {} /\ new[x].fa = nd[n].fa  BY <2>2 DEF Rerooted
    <3>2. ASSUME nd[n].fa # nullptr
          PROVE  nd[n].fa \in DOMAIN new /\ x \in new[nd[n].fa].ch
      BY <1>1, <1>3, <2>2, <3>2 DEF Rerooted
    <3> QED  BY <3>1, <3>2
  <2>3. CASE x \in DOMAIN nd \ {n}
    <3>1. /\ new[x].ch = nd[x].ch
          /\ new[x].fa = IF x \in nd[n].ch THEN r ELSE nd[x].fa
      BY <2>3 DEF Rerooted
    <3>2. ASSUME NEW c \in nd[x].ch  PROVE new[c].fa = x /\ lv[c] = lv[x] + 1
      <4>1. c \in DOMAIN nd /\ nd[c].fa = x /\ lev[c] = lev[x] + 1
        BY <1>3, <2>3
      <4>2. c \notin nd[n].ch  BY <1>1, <1>3, <2>3, <4>1
      <4>3. new[c].fa = nd[c].fa  BY <4>1, <4>2 DEF Rerooted
      <4> QED  BY <1>1, <2>3, <4>1, <4>3
    <3>3. CASE x \in nd[n].ch
      BY <1>1, <1>3, <2>3, <3>1, <3>2, <3>3 DEF Rerooted
    <3>4. CASE x \notin nd[n].ch
      <4>1. ASSUME nd[x].fa # nullptr
            PROVE  nd[x].fa \in DOMAIN new /\ x \in new[nd[x].fa].ch
        <5>1. nd[x].fa \in DOMAIN nd /\ x \in nd[nd[x].fa].ch  BY <1>3, <2>3, <4>1
        <5>2. nd[x].fa # n  BY <3>4, <5>1
        <5> QED  BY <1>1, <5>1, <5>2 DEF Rerooted
      <4> QED  BY <1>1, <1>3, <2>3, <3>1, <3>2, <3>4, <4>1
    <3> QED  BY <3>3, <3>4
  <2> QED  BY <1>1, <2>1, <2>2, <2>3
<1>5. nullptr \notin DOMAIN new  BY DEF Rerooted, Forest
<1>6. Forest(new, lv)  BY <1>2, <1>4, <1>5 DEF Forest
<1>7. n \in B /\ B \subseteq DOMAIN nd /\ \A x \in B : nd[x].ch \subseteq B
  BY <1>1, TreeClosed
\* Nothing below n is a parent of n.
<1>8. \A x \in B : n \notin nd[x].ch
  <2> SUFFICES ASSUME NEW x \in B, n \in nd[x].ch  PROVE FALSE
    OBVIOUS
  <2>1. x \in DOMAIN nd /\ lev[x] >= lev[n]  BY <1>1, TreeLevel
  <2>2. lev[n] = lev[x] + 1  BY <1>3, <2>1
  <2>3. lev[n] \in 0..GameLength /\ lev[x] \in 0..GameLength  BY <1>1, <2>1 DEF Forest
  <2> QED  BY <2>1, <2>2, <2>3
<1>9. \A x \in DOMAIN nd : /\ x # n => new[x].ch = nd[x].ch
                           /\ x = n => new[x].ch = {}
      /\ new[r].ch = nd[n].ch
  BY DEF Rerooted
<1>10. TreeOf(new, r) = {r} \cup (B \ {n})
  <2> DEFINE E == TreeOf(new, r)
             N == {r} \cup (B \ {n})
  <2>1. r \in E /\ \A x \in E : new[x].ch \subseteq E
    BY <1>1, <1>6, TreeClosed
  <2>2. E \subseteq N
    <3>1. \A x \in N : new[x].ch \subseteq N
      <4> HIDE DEF B
      <4> QED  BY <1>1, <1>7, <1>8, <1>9
    <3>2. r \in N  OBVIOUS
    <3> HIDE DEF N
    <3> QED  BY <3>1, <3>2, TreeLeast
  <2>3. B \subseteq (E \cap DOMAIN nd) \cup {n}
    <3> DEFINE D == (E \cap DOMAIN nd) \cup {n}
    <3>1. \A x \in D : nd[x].ch \subseteq D
      <4> HIDE DEF E
      <4> QED  BY <1>1, <1>3, <1>9, <2>1
    <3> HIDE DEF D
    <3>2. n \in D  BY DEF D
    <3>3. B \subseteq D  BY <3>1, <3>2, TreeLeast
    <3> QED  BY <3>3 DEF D
  <2> HIDE DEF B, E
  <2>4. E = N  BY <2>1, <2>2, <2>3
  <2> QED  BY <2>4 DEF E
<1>11. ASSUME NEW x \in DOMAIN nd
       PROVE  TreeOf(new, x) = IF n \in TreeOf(nd, x)
                               THEN TreeOf(nd, x) \ (B \ {n}) ELSE TreeOf(nd, x)
  <2> DEFINE D == TreeOf(nd, x)
             E == TreeOf(new, x)
             N == D \ (B \ {n})
  <2>1. x \in D /\ D \subseteq DOMAIN nd /\ \A y \in D : nd[y].ch \subseteq D
    BY TreeClosed
  <2>2. x \in E /\ \A y \in E : new[y].ch \subseteq E
    BY <1>1, <1>6, TreeClosed
  <2>3. CASE n \in D
    <3>1. x \in N
      <4>1. lev[n] >= lev[x]  BY <2>3, TreeLevel
      <4>2. x \in B /\ x # n => lev[x] > lev[n]  BY <1>1, TreeLevel
      <4>3. lev[n] \in 0..GameLength /\ lev[x] \in 0..GameLength  BY <1>1 DEF Forest
      <4> HIDE DEF B, D
      <4> QED  BY <2>1, <4>1, <4>2, <4>3
    <3>2. ASSUME NEW y \in N, NEW c \in new[y].ch  PROVE c \in N
      <4>1. y \in D /\ y \in DOMAIN nd  BY <2>1
      <4>2. y # n /\ c \in nd[y].ch  BY <1>9, <3>2, <4>1
      <4>3. c \in D /\ c \in DOMAIN nd /\ nd[c].fa = y  BY <1>3, <2>1, <4>1, <4>2
      <4>4. y \notin B  BY <4>2
      <4>5. c \in B => c = n \/ nd[c].fa \in B  BY <1>1, <4>3, TreeUp
      <4> HIDE DEF B, D
      <4> QED  BY <4>3, <4>4, <4>5
    <3>3. E \subseteq N
      <4> HIDE DEF N
      <4> QED  BY <3>1, <3>2, TreeLeast
    <3>4. D \subseteq (E \cap DOMAIN nd) \cup B
      <4> DEFINE G == (E \cap DOMAIN nd) \cup B
      <4>1. \A y \in G : nd[y].ch \subseteq G
        <5> HIDE DEF E, B
        <5> QED  BY <1>1, <1>3, <1>7, <1>9, <2>2
      <4>2. x \in G  BY <2>2
      <4> HIDE DEF G
      <4>3. D \subseteq G  BY <4>1, <4>2, TreeLeast
      <4> QED  BY <4>3 DEF G
    <3>5. n \in E
      <4>1. CASE n = x  BY <2>2, <4>1
      <4>2. CASE n # x
        <5>1. nd[n].fa # nullptr /\ nd[n].fa \in D  BY <1>1, <2>3, <4>2, TreeUp
        <5>2. nd[n].fa \in DOMAIN nd /\ n \in nd[nd[n].fa].ch /\ nd[n].fa # n
          BY <1>1, <1>3, <5>1
        <5>3. nd[n].fa \notin B  BY <1>8, <5>2
        <5> HIDE DEF B, D, E
        <5>4. nd[n].fa \in E  BY <3>4, <5>1, <5>3
        <5> QED  BY <1>9, <2>2, <5>2, <5>4
      <4> QED  BY <4>1, <4>2
    <3> HIDE DEF B, D, E
    <3>6. E = N  BY <3>3, <3>4, <3>5
    <3> QED  BY <2>3, <3>6 DEF D, E
  <2>4. CASE n \notin D
    <3>1. E \subseteq D
      <4>1. \A y \in D : new[y].ch \subseteq D  BY <1>9, <2>1, <2>4
      <4> HIDE DEF D
      <4> QED  BY <2>1, <4>1, TreeLeast
    <3>2. D \subseteq E
      <4>1. \A y \in E : nd[y].ch \subseteq E
        <5> HIDE DEF D, E
        <5> QED  BY <1>9, <2>1, <2>2, <2>4, <3>1
      <4> HIDE DEF E
      <4> QED  BY <2>2, <4>1, TreeLeast
    <3>3. E = D  BY <3>1, <3>2
    <3> QED  BY <2>4, <3>3
  <2> QED  BY <2>3, <2>4
<1> HIDE DEF B
<1> QED  BY <1>6, <1>10, <1>11 DEF B, lv

-----------------------------------------------------------------------------
(* The invariant.                                                          *)

Records ==
    [fa : Nodes \cup {nullptr}, ch : SUBSET Nodes,
     expand_state : {"unexpanded", "expanding", "expanded"},
     size : Nat \ {0}, visit_count : Nat, virtual_loss_count : Int,
     total_action : Int, value : Int]

ProgramCounters ==
    {"idle", "descend", "claim", "eval", "undo", "expand", "publish", "value",
     "backup", "count"}

\* Where a leaf is claimed.
Claiming == {"eval", "expand", "publish"}

NodeTypes ==
    /\ DOMAIN node \subseteq Nodes /\ node \in [DOMAIN node -> Records]
    /\ \A x \in DOMAIN node : IsFiniteSet(node[x].ch)

Types ==
    /\ NodeTypes
    /\ queue \in Seq(DOMAIN node) /\ freed \subseteq DOMAIN node
    /\ ply \in 0..GameLength /\ sims \in Nat /\ running \in BOOLEAN
    /\ owner \in {"engine", "search"} /\ active \subseteq Workers
    /\ due \subseteq Workers /\ threads \subseteq Workers
    /\ enable_async \in BOOLEAN /\ overtaken \in BOOLEAN
    /\ pc \in [Contexts -> ProgramCounters]
    /\ cur \in [Contexts -> DOMAIN node \cup {nullptr}]
    /\ leaf \in [Contexts -> DOMAIN node \cup {nullptr}]
    /\ board \in [Contexts -> Nat] /\ sign \in [Contexts -> Int]

\* The nodes are trees, and the root of one of them is m_root; lev is the number of
\* moves up to a node.  Its name has no more.
Depths(lev) ==
    /\ Forest(node, lev)
    /\ m_root \in DOMAIN node /\ m_root[2] = <<>> /\ node[m_root].fa = nullptr
    /\ lev[m_root] = ply
    /\ \A x \in DOMAIN node : Len(x[2]) <= lev[x] /\ x[1] <= m_root[1]

\* The trees that wait for their deletion are others, and each waits once.
Waiting ==
    /\ \A i \in DOMAIN queue : node[queue[i]].fa = nullptr /\ queue[i] # m_root
    /\ \A i, j \in DOMAIN queue : queue[i] = queue[j] => i = j

Partition ==
    /\ DOMAIN node = Live \cup Queued \cup freed
    /\ Live \cap (Queued \cup freed) = {} /\ Queued \cap freed = {}

\* Which nodes a search thread or a callback looks at, by its program counter.
Placed(lev, w) ==
    /\ pc[w] = "idle" => cur[w] = nullptr /\ leaf[w] = nullptr
    /\ pc[w] = "descend" =>
          cur[w] \in Live /\ leaf[w] = nullptr /\ board[w] = lev[cur[w]]
    /\ pc[w] \in Claiming \cup {"claim", "value"} =>
          leaf[w] \in Live /\ cur[w] = leaf[w] /\ board[w] = lev[leaf[w]]
    /\ pc[w] = "publish" => node[leaf[w]].ch # {}
    /\ pc[w] = "backup" => leaf[w] \in Live /\ cur[w] \in Live
    /\ pc[w] = "undo" => leaf[w] \in Live /\ cur[w] \in Live \cup {nullptr}
    /\ pc[w] = "count" => leaf[w] \in Live /\ cur[w] = nullptr

Working(lev) ==
    /\ \A w \in Contexts : Placed(lev, w)
    /\ \A w \in Workers : w \in active <=> pc[w] # "idle"
    /\ owner = "engine" => active = {}

\* Children are there, or their names taken, only from Expand() on.
Begun ==
    /\ \A x \in DOMAIN node :
          node[x].ch # {} \/ (\E m \in Moves : Child(x, m) \in DOMAIN node) =>
              \/ node[x].expand_state = "expanded"
              \/ \E w \in Contexts : pc[w] = "publish" /\ leaf[w] = x
    /\ \A x \in Nodes, m \in Moves : Child(x, m) \in DOMAIN node => x \in DOMAIN node

\* A claimed leaf belongs to one search thread or callback.
Claims ==
    /\ \A v, w \in Contexts :
          pc[v] \in Claiming /\ pc[w] \in Claiming /\ leaf[v] = leaf[w] => v = w
    /\ \A w \in Contexts :
          pc[w] \in Claiming => node[leaf[w]].expand_state = "expanding"
    /\ \A n \in Live : node[n].expand_state = "expanding" =>
          \E w \in Contexts : pc[w] \in Claiming /\ leaf[w] = n

\* The search threads and callbacks, at the nodes c, that are below n.
Inside(nd, c, n) == {w \in Contexts : c[w] # nullptr /\ c[w] \in TreeOf(nd, n)}

\* The root is one short only after InitRoot() has expanded it.
Balanced ==
    \A n \in Live :
        LET losses == Cardinality(Inside(node, cur, n))
        IN  \/ node[n].virtual_loss_count = losses
            \/ /\ n = m_root /\ node[n].expand_state = "expanded"
               /\ node[n].virtual_loss_count = losses - 1

Inv(lev) ==
    /\ Types /\ Depths(lev) /\ Waiting /\ Partition /\ ChildrenBeforeState
    /\ ~overtaken => Working(lev) /\ Begun /\ Claims /\ Balanced

IInv == \E lev : Inv(lev)

-----------------------------------------------------------------------------
(* Names, records and counts.                                              *)

\* What the assumptions say of the constants.
LEMMA ConstantTypes ==
    /\ GameLength \in Nat \ {0} /\ MaxRoots \in Nat \ {0} /\ IsFiniteSet(Contexts)
    /\ IsFiniteSet(Moves) /\ Moves # {} /\ Values \subseteq Int
    /\ nullptr \notin Nat \X Seq(Moves)
<1>1. IsFiniteSet(Contexts)  BY TreeAssumption, FS_Union DEF Contexts
<1> QED  BY <1>1, TreeAssumption

\* A name is a root and a sequence of moves.
LEMMA Names ==
    /\ \A x : x \in Nodes <=> /\ x \in (1..MaxRoots) \X Seq(Moves)
                              /\ Len(x[2]) <= GameLength
    /\ nullptr \notin Nodes
<1>1. GameLength \in Nat /\ MaxRoots \in Nat  BY ConstantTypes
<1>2. ASSUME NEW x \in Nodes
      PROVE  x \in (1..MaxRoots) \X Seq(Moves) /\ Len(x[2]) <= GameLength
  <2>1. x[1] \in 1..MaxRoots /\ x = <<x[1], x[2]>>  BY DEF Nodes
  <2>2. PICK k \in 0..GameLength : x[2] \in [1..k -> Moves]  BY DEF Nodes
  <2>3. x[2] \in Seq(Moves) /\ Len(x[2]) = k  BY <1>1, <2>2
  <2> QED  BY <2>1, <2>2, <2>3
<1>3. ASSUME NEW x \in (1..MaxRoots) \X Seq(Moves), Len(x[2]) <= GameLength
      PROVE  x \in Nodes
  <2>1. x[1] \in 1..MaxRoots /\ x = <<x[1], x[2]>> /\ x[2] \in Seq(Moves)  OBVIOUS
  <2>2. Len(x[2]) \in 0..GameLength /\ x[2] \in [1..Len(x[2]) -> Moves]
    BY <1>1, <1>3, <2>1
  <2>3. x[2] \in UNION {[1..k -> Moves] : k \in 0..GameLength}  BY <2>2
  <2> QED  BY <2>1, <2>3 DEF Nodes
<1>4. nullptr \notin Nodes  BY <1>1, <1>2, ConstantTypes
<1> QED  BY <1>2, <1>3, <1>4

\* The children of a node have names of their own.
LEMMA ChildNames ==
    ASSUME NEW x \in Nodes
    PROVE  /\ \A m \in Moves : /\ Child(x, m)[1] = x[1]
                               /\ Len(Child(x, m)[2]) = Len(x[2]) + 1
                               /\ Child(x, m)[2] # <<>>
           /\ Len(x[2]) \in Nat
           /\ Len(x[2]) < GameLength => \A m \in Moves : Child(x, m) \in Nodes
           /\ \A y \in Nodes, k, m \in Moves : Child(x, k) = Child(y, m) => x = y
<1>1. x[1] \in 1..MaxRoots /\ x = <<x[1], x[2]>> /\ x[2] \in Seq(Moves)  BY Names
<1>2. ASSUME NEW m \in Moves
      PROVE  /\ Child(x, m)[1] = x[1] /\ Child(x, m)[2] = Append(x[2], m)
             /\ Len(Child(x, m)[2]) = Len(x[2]) + 1 /\ Child(x, m)[2] # <<>>
             /\ Child(x, m) \in (1..MaxRoots) \X Seq(Moves)
  <2> DEFINE s == x[2]
             t == Append(s, m)
  <2>1. s \in Seq(Moves)  BY <1>1
  <2>2. Child(x, m) = <<x[1], t>>  BY DEF Child
  <2> HIDE DEF s
  <2>3. t \in Seq(Moves) /\ Len(t) = Len(s) + 1 /\ t # <<>>
    <3>1. t \in Seq(Moves)  BY <2>1
    <3>2. Len(t) = Len(s) + 1 /\ Len(s) \in Nat  BY <2>1
    <3>3. t # <<>>
      <4>1. Len(<<>>) = 0  OBVIOUS
      <4> QED  BY <3>2, <4>1
    <3> QED  BY <3>1, <3>2, <3>3
  <2> HIDE DEF t
  <2>4. Child(x, m)[1] = x[1] /\ Child(x, m)[2] = t  BY <2>2
  <2>5. Child(x, m) \in (1..MaxRoots) \X Seq(Moves)  BY <1>1, <2>2, <2>3
  <2> QED  BY <2>3, <2>4, <2>5 DEF s, t
<1>3. Len(x[2]) \in Nat  BY <1>1
<1>4. ASSUME Len(x[2]) < GameLength, NEW m \in Moves  PROVE Child(x, m) \in Nodes
  <2> DEFINE k == Len(Child(x, m)[2])
  <2>0. k = Len(x[2]) + 1  BY <1>2
  <2> HIDE DEF k
  <2>1. k <= GameLength  BY <1>3, <1>4, <2>0, ConstantTypes
  <2> QED  BY <1>2, <2>1, Names DEF k
<1>5. ASSUME NEW y \in Nodes, NEW k \in Moves, NEW m \in Moves, Child(x, k) = Child(y, m)
      PROVE  x = y
  <2>1. y[1] \in 1..MaxRoots /\ y = <<y[1], y[2]>> /\ y[2] \in Seq(Moves)  BY Names
  <2>2. x[1] = y[1] /\ Append(x[2], k) = Append(y[2], m)  BY <1>5 DEF Child
  <2>3. x[2] = y[2]
    <3>1. Len(x[2]) = Len(y[2])
      <4>1. Len(Append(x[2], k)) = Len(x[2]) + 1  BY <1>1
      <4>2. Len(Append(y[2], m)) = Len(y[2]) + 1  BY <2>1
      <4>3. Len(x[2]) \in Nat /\ Len(y[2]) \in Nat  BY <1>1, <2>1
      <4> QED  BY <2>2, <4>1, <4>2, <4>3
    <3>2. ASSUME NEW i \in 1..Len(x[2])  PROVE x[2][i] = y[2][i]
      <4>1. Append(x[2], k)[i] = x[2][i]  BY <1>1
      <4>2. Append(y[2], m)[i] = y[2][i]  BY <2>1, <3>1
      <4> QED  BY <2>2, <4>1, <4>2
    <3> QED  BY <1>1, <2>1, <3>1, <3>2
  <2> QED  BY <1>1, <2>1, <2>2, <2>3
<1> QED  BY <1>2, <1>3, <1>4, <1>5

\* There are as many children as moves, or fewer.
LEMMA ChildrenFinite ==
    \A x : LET C == {Child(x, m) : m \in Moves}
           IN  IsFiniteSet(C) /\ Cardinality(C) \in Nat /\ C # {}
<1> SUFFICES ASSUME NEW x
             PROVE  LET C == {Child(x, m) : m \in Moves}
                    IN  IsFiniteSet(C) /\ Cardinality(C) \in Nat /\ C # {}
  OBVIOUS
<1> DEFINE C == {Child(x, m) : m \in Moves}
           f == [m \in Moves |-> Child(x, m)]
<1>1. f \in Surjection(Moves, C)  BY DEF Surjection
<1>2. C # {} /\ IsFiniteSet(Moves)  BY ConstantTypes
<1> HIDE DEF f, C
<1>3. IsFiniteSet(C)  BY <1>1, <1>2, FS_Surjection
<1> QED  BY <1>2, <1>3, FS_CardinalityType DEF C

\* A context goes down to the node x, or starts there when it is a root: one more
\* is inside x, and as many as before in every other node.
LEMMA OneInside ==
    ASSUME NEW nd, NEW lev, Forest(nd, lev), NEW c, NEW d, NEW w \in Contexts,
           NEW x \in DOMAIN nd, c[w] = nd[x].fa, d[w] = x,
           \A v \in Contexts \ {w} : d[v] = c[v]
    PROVE  /\ \A n \in DOMAIN nd : n # x => Inside(nd, d, n) = Inside(nd, c, n)
           /\ Cardinality(Inside(nd, c, x)) \in Nat
           /\ Cardinality(Inside(nd, d, x)) = Cardinality(Inside(nd, c, x)) + 1
<1>0. GameLength \in Nat  BY ConstantTypes
<1>1. x # nullptr  BY DEF Forest
<1>2. ASSUME NEW n \in DOMAIN nd, n # x  PROVE Inside(nd, d, n) = Inside(nd, c, n)
  <2>1. x \in TreeOf(nd, n) <=> nd[x].fa # nullptr /\ nd[x].fa \in TreeOf(nd, n)
    BY <1>0, <1>2, TreeUp
  <2>2. ASSUME NEW v \in Contexts  PROVE v \in Inside(nd, d, n) <=> v \in Inside(nd, c, n)
    BY <1>1, <2>1 DEF Inside
  <2> QED  BY <2>2 DEF Inside
<1>3. w \notin Inside(nd, c, x)
  <2>1. SUFFICES ASSUME nd[x].fa # nullptr, nd[x].fa \in TreeOf(nd, x)  PROVE FALSE
    BY DEF Inside
  <2>2. nd[x].fa \in DOMAIN nd /\ x \in nd[nd[x].fa].ch  BY <2>1 DEF Forest
  <2>3. lev[x] = lev[nd[x].fa] + 1  BY <2>2 DEF Forest
  <2>4. lev[nd[x].fa] >= lev[x]  BY <1>0, <2>1, TreeLevel
  <2>5. lev[x] \in 0..GameLength /\ lev[nd[x].fa] \in 0..GameLength  BY <2>2 DEF Forest
  <2> QED  BY <2>3, <2>4, <2>5
<1>4. Inside(nd, d, x) = Inside(nd, c, x) \cup {w}
  <2>1. x \in TreeOf(nd, x)  BY <1>0, TreeClosed
  <2> QED  BY <1>1, <2>1 DEF Inside
<1>5. IsFiniteSet(Inside(nd, c, x))
  <2>1. Inside(nd, c, x) \in SUBSET Contexts  BY DEF Inside
  <2> QED  BY <2>1, ConstantTypes, FS_Subset
<1> QED  BY <1>2, <1>3, <1>4, <1>5, FS_AddElement, FS_CardinalityType

-----------------------------------------------------------------------------
(* Steps that keep the links.                                              *)

IsExpanded(nd, x) == nd[x].expand_state = "expanded"

\* No context but w moves.
Others(w) ==
    \A v \in Contexts \ {w} :
        pc'[v] = pc[v] /\ cur'[v] = cur[v] /\ leaf'[v] = leaf[v] /\ board'[v] = board[v]

\* Another record with the same links takes the place of one.
LEMMA RecordStep ==
    ASSUME NodeTypes, NEW x \in DOMAIN node, NEW r \in Records,
           r.ch = node[x].ch, r.fa = node[x].fa, node' = [node EXCEPT ![x] = r]
    PROVE  /\ NodeTypes' /\ SameLinks(node, node') /\ DOMAIN node' = DOMAIN node
           /\ node'[x] = r /\ \A y \in DOMAIN node : y # x => node'[y] = node[y]
<1>1. DOMAIN node' = DOMAIN node /\ node'[x] = r
      /\ \A y \in DOMAIN node : y # x => node'[y] = node[y]
  OBVIOUS
<1>2. SameLinks(node, node')  BY <1>1 DEF SameLinks
<1>3. node \in [DOMAIN node -> Records]  BY DEF NodeTypes
<1>4. node' \in [DOMAIN node -> Records]  BY <1>3
<1>5. \A y \in DOMAIN node : IsFiniteSet(node'[y].ch)
  BY <1>2 DEF NodeTypes, SameLinks
<1>6. NodeTypes'  BY <1>1, <1>4, <1>5 DEF NodeTypes
<1> QED  BY <1>1, <1>2, <1>6

\* One field of a record changes.
LEMMA FieldTypes ==
    ASSUME NEW r \in Records
    PROVE  /\ \A i \in Int :
                 LET u == [r EXCEPT !.virtual_loss_count = i]
                 IN  u \in Records /\ u.ch = r.ch /\ u.fa = r.fa
                     /\ u.expand_state = r.expand_state /\ u.virtual_loss_count = i
           /\ \A i \in Int :
                 LET u == [r EXCEPT !.value = i]
                 IN  u \in Records /\ u.ch = r.ch /\ u.fa = r.fa
                     /\ u.expand_state = r.expand_state
                     /\ u.virtual_loss_count = r.virtual_loss_count
           /\ \A i \in {"unexpanded", "expanding", "expanded"} :
                 LET u == [r EXCEPT !.expand_state = i]
                 IN  u \in Records /\ u.ch = r.ch /\ u.fa = r.fa /\ u.expand_state = i
                     /\ u.virtual_loss_count = r.virtual_loss_count
<1>1. ASSUME NEW i \in Int
      PROVE  LET u == [r EXCEPT !.virtual_loss_count = i]
             IN  u \in Records /\ u.ch = r.ch /\ u.fa = r.fa
                 /\ u.expand_state = r.expand_state /\ u.virtual_loss_count = i
  BY DEF Records
<1>2. ASSUME NEW i \in Int
      PROVE  LET u == [r EXCEPT !.value = i]
             IN  u \in Records /\ u.ch = r.ch /\ u.fa = r.fa
                 /\ u.expand_state = r.expand_state
                 /\ u.virtual_loss_count = r.virtual_loss_count
  BY DEF Records
<1>3. ASSUME NEW i \in {"unexpanded", "expanding", "expanded"}
      PROVE  LET u == [r EXCEPT !.expand_state = i]
             IN  u \in Records /\ u.ch = r.ch /\ u.fa = r.fa /\ u.expand_state = i
                 /\ u.virtual_loss_count = r.virtual_loss_count
  BY DEF Records
<1> QED  BY <1>1, <1>2, <1>3

\* What Backup() does to one.
LEMMA BackedUpTypes ==
    ASSUME NEW r \in Records, NEW v \in Int, NEW k \in Nat
    PROVE  LET u == BackedUp(r, v, k)
           IN  u \in Records /\ u.ch = r.ch /\ u.fa = r.fa
               /\ u.expand_state = r.expand_state
               /\ u.virtual_loss_count = r.virtual_loss_count - 1
<1> DEFINE a == [r EXCEPT !.size = @ + k]
           b == [a EXCEPT !.visit_count = @ + 1]
           c == [b EXCEPT !.virtual_loss_count = @ - 1]
           d == [c EXCEPT !.total_action = @ + v]
<1>1. BackedUp(r, v, k) = d  BY DEF BackedUp
<1>2. a \in Records /\ a.ch = r.ch /\ a.fa = r.fa /\ a.expand_state = r.expand_state
      /\ a.virtual_loss_count = r.virtual_loss_count
  BY DEF Records
<1> HIDE DEF a
<1>3. b \in Records /\ b.ch = a.ch /\ b.fa = a.fa /\ b.expand_state = a.expand_state
      /\ b.virtual_loss_count = a.virtual_loss_count
  BY <1>2 DEF Records
<1> HIDE DEF b
<1>4. c \in Records /\ c.ch = b.ch /\ c.fa = b.fa /\ c.expand_state = b.expand_state
      /\ c.virtual_loss_count = b.virtual_loss_count - 1
  BY <1>3 DEF Records
<1> HIDE DEF c
<1>5. d \in Records /\ d.ch = c.ch /\ d.fa = c.fa /\ d.expand_state = c.expand_state
      /\ d.virtual_loss_count = c.virtual_loss_count
  BY <1>4 DEF Records
<1> HIDE DEF d
<1> QED  BY <1>1, <1>2, <1>3, <1>4, <1>5

\* The trees stay as they are.
LEMMA LinksStep ==
    ASSUME NEW lev, Inv(lev), SameLinks(node, node'), UNCHANGED <<m_root, ply>>
    PROVE  /\ Depths(lev)' /\ Live' = Live
           /\ \A n \in DOMAIN node : TreeOf(node', n) = TreeOf(node, n)
           /\ UNCHANGED <<queue, freed>> => Waiting' /\ Partition'
<1>0. GameLength \in Nat  BY ConstantTypes
<1>1. Forest(node, lev) /\ m_root \in DOMAIN node  BY DEF Inv, Depths
<1>2. /\ Forest(node', lev) /\ DOMAIN node' = DOMAIN node
      /\ \A n \in DOMAIN node : TreeOf(node', n) = TreeOf(node, n)
  <2>1. Forest(node', lev) /\ \A n \in DOMAIN node : TreeOf(node', n) = TreeOf(node, n)
    BY <1>0, <1>1, SameTrees
  <2> QED  BY <2>1 DEF SameLinks
<1>3. Depths(lev)'
  <2>1. node'[m_root].fa = nullptr  BY DEF SameLinks, Inv, Depths
  <2> QED  BY <1>2, <2>1 DEF Inv, Depths
<1>4. Live' = Live
  <2>1. Live = TreeOf(node, m_root)  BY SubtreeIsTree DEF Live
  <2>2. Live' = TreeOf(node', m_root)  BY SubtreeIsTreeNext DEF Live
  <2> QED  BY <1>1, <1>2, <2>1, <2>2
<1>5. ASSUME UNCHANGED <<queue, freed>>  PROVE Waiting' /\ Partition'
  <2>1. \A i \in DOMAIN queue : queue[i] \in DOMAIN node  BY DEF Inv, Types
  <2>2. Waiting'
    <3>1. \A i \in DOMAIN queue : node'[queue[i]].fa = nullptr
      BY <2>1 DEF SameLinks, Inv, Waiting
    <3> QED  BY <1>5, <3>1 DEF Inv, Waiting
  <2>3. \A i \in DOMAIN queue : Subtree(queue[i])' = Subtree(queue[i])
    <3>1. \A n : Subtree(n)' = TreeOf(node', n)  BY SubtreeIsTreeNext
    <3>2. \A n : Subtree(n) = TreeOf(node, n)  BY SubtreeIsTree
    <3>3. SUFFICES ASSUME NEW i \in DOMAIN queue
                   PROVE  TreeOf(node', queue'[i]) = TreeOf(node, queue[i])
      BY <3>2, SubtreeIsTreeNext DEF Subtree, TreeOf
    <3> QED  BY <1>2, <1>5, <2>1
  <2>4. Queued' = Queued  BY <1>5, <2>3 DEF Queued
  <2> QED  BY <1>2, <1>4, <1>5, <2>2, <2>4 DEF Inv, Partition
<1> QED  BY <1>2, <1>3, <1>4, <1>5
\* What a step of w does to the expand states: it may claim the leaf it goes on with,
\* and no longer claims the one it had.
StatesKept(w) ==
    /\ \A x \in DOMAIN node :
          /\ IsExpanded(node', x) <=>
                IsExpanded(node, x) \/ (pc[w] = "publish" /\ x = leaf[w])
          /\ node'[x].expand_state = "expanding" <=>
                \/ pc'[w] \in Claiming /\ x = leaf'[w]
                \/ /\ node[x].expand_state = "expanding"
                   /\ ~(pc[w] \in Claiming /\ x = leaf[w])
    /\ pc'[w] \in Claiming /\ pc[w] \in Claiming => leaf'[w] = leaf[w]
    /\ pc'[w] \in Claiming /\ pc[w] \notin Claiming =>
          node[leaf'[w]].expand_state # "expanding"
    /\ pc'[w] # "publish"

\* Such a step keeps every claim in one hand: Claims.
LEMMA ClaimsStep ==
    ASSUME NEW lev, Inv(lev), ~overtaken, NEW w \in Contexts, Others(w), StatesKept(w),
           DOMAIN node' = DOMAIN node, Live' = Live,
           pc'[w] \in Claiming => leaf'[w] \in Live
    PROVE  Claims'
<1>1. /\ \A v \in Contexts : pc[v] \in Claiming => leaf[v] \in Live
      /\ Live \subseteq DOMAIN node
  BY DEF Inv, Working, Placed, Partition
<1>2. Claims  BY DEF Inv
<1>3. ASSUME NEW v \in Contexts, pc'[v] \in Claiming
      PROVE  node'[leaf'[v]].expand_state = "expanding"
  <2>1. CASE v = w  BY <1>1, <1>3, <2>1 DEF StatesKept
  <2>2. CASE v # w
    <3>1. pc[v] \in Claiming /\ leaf'[v] = leaf[v]  BY <1>3, <2>2 DEF Others
    <3>2. node[leaf[v]].expand_state = "expanding" /\ leaf[v] \in DOMAIN node
      BY <1>1, <1>2, <3>1 DEF Claims
    <3>3. ~(pc[w] \in Claiming /\ leaf[v] = leaf[w])  BY <1>2, <2>2, <3>1 DEF Claims
    <3> QED  BY <3>1, <3>2, <3>3 DEF StatesKept
  <2> QED  BY <2>1, <2>2
<1>4. ASSUME NEW v \in Contexts, v # w, pc'[v] \in Claiming, pc'[w] \in Claiming
      PROVE  leaf'[v] # leaf'[w]
  <2>1. pc[v] \in Claiming /\ leaf'[v] = leaf[v]  BY <1>4 DEF Others
  <2>2. node[leaf[v]].expand_state = "expanding"  BY <1>2, <2>1 DEF Claims
  <2>3. CASE pc[w] \in Claiming  BY <1>2, <1>4, <2>1, <2>3 DEF Claims, StatesKept
  <2>4. CASE pc[w] \notin Claiming  BY <1>4, <2>1, <2>2, <2>4 DEF StatesKept
  <2> QED  BY <2>3, <2>4
<1>5. ASSUME NEW u \in Contexts, NEW v \in Contexts,
             pc'[u] \in Claiming, pc'[v] \in Claiming, leaf'[u] = leaf'[v]
      PROVE  u = v
  <2>1. CASE u # w /\ v # w
    <3>1. pc[u] \in Claiming /\ pc[v] \in Claiming /\ leaf[u] = leaf[v]
      BY <1>5, <2>1 DEF Others
    <3> QED  BY <1>2, <3>1 DEF Claims
  <2> QED  BY <1>4, <1>5, <2>1
<1>6. ASSUME NEW n \in Live', node'[n].expand_state = "expanding"
      PROVE  \E v \in Contexts : pc'[v] \in Claiming /\ leaf'[v] = n
  <2>1. n \in Live /\ n \in DOMAIN node  BY <1>1
  <2>2. CASE pc'[w] \in Claiming /\ n = leaf'[w]  BY <2>2
  <2>3. CASE ~(pc'[w] \in Claiming /\ n = leaf'[w])
    <3>1. node[n].expand_state = "expanding" /\ ~(pc[w] \in Claiming /\ n = leaf[w])
      BY <1>6, <2>1, <2>3 DEF StatesKept
    <3>2. PICK v \in Contexts : pc[v] \in Claiming /\ leaf[v] = n
      BY <1>2, <2>1, <3>1 DEF Claims
    <3>3. v # w  BY <3>1, <3>2
    <3> QED  BY <3>2, <3>3 DEF Others
  <2> QED  BY <2>2, <2>3
<1> QED  BY <1>3, <1>5, <1>6 DEF Claims

\* And no node gets children, or loses them: Begun.
LEMMA BegunStep ==
    ASSUME NEW lev, Inv(lev), ~overtaken, NEW w \in Contexts, Others(w), StatesKept(w),
           SameLinks(node, node')
    PROVE  Begun'
<1> SUFFICES ASSUME NEW x \in DOMAIN node,
                    node'[x].ch # {} \/ (\E m \in Moves : Child(x, m) \in DOMAIN node')
             PROVE  \/ node'[x].expand_state = "expanded"
                    \/ \E v \in Contexts : pc'[v] = "publish" /\ leaf'[v] = x
  BY DEF Inv, Begun, SameLinks, Child
<1>1. node[x].ch # {} \/ (\E m \in Moves : Child(x, m) \in DOMAIN node)
  BY DEF SameLinks
<1>2. IsExpanded(node, x) \/ \E v \in Contexts : pc[v] = "publish" /\ leaf[v] = x
  BY <1>1 DEF Inv, Begun, IsExpanded
<1>3. CASE IsExpanded(node, x)  BY <1>3 DEF StatesKept, IsExpanded
<1>4. ASSUME NEW v \in Contexts, pc[v] = "publish", leaf[v] = x
      PROVE  \/ node'[x].expand_state = "expanded"
             \/ pc'[v] = "publish" /\ leaf'[v] = x
  <2>1. CASE v = w  BY <1>4, <2>1 DEF StatesKept, IsExpanded
  <2>2. CASE v # w  BY <1>4, <2>2 DEF Others
  <2> QED  BY <2>1, <2>2
<1> QED  BY <1>2, <1>3, <1>4

\* Who is in a simulation.
Activity(w) ==
    /\ w \in Workers => (w \in active' <=> pc'[w] # "idle")
    /\ \A v \in Workers \ {w} : v \in active' <=> v \in active
    /\ owner' = "engine" => active' = {}

\* What a step of one search thread or callback owes besides.
LEMMA ContextStep ==
    ASSUME NEW lev, Inv(lev), ~overtaken, NEW w \in Contexts, Others(w), StatesKept(w),
           SameLinks(node, node'), UNCHANGED <<m_root, ply, queue, freed, overtaken>>,
           Activity(w), Placed(lev, w)', Types', Balanced'
    PROVE  Inv(lev)'
<1>1. Depths(lev)' /\ Live' = Live /\ Waiting' /\ Partition'  BY LinksStep
<1>2. DOMAIN node' = DOMAIN node /\ Live \subseteq DOMAIN node
  BY DEF SameLinks, Inv, Partition
<1>3. ChildrenBeforeState'
  <2> SUFFICES ASSUME NEW n \in Live, IsExpanded(node', n)  PROVE node'[n].ch # {}
    BY <1>1 DEF ChildrenBeforeState, IsExpanded
  <2>1. n \in DOMAIN node /\ node'[n].ch = node[n].ch  BY <1>2 DEF SameLinks
  <2>2. CASE IsExpanded(node, n)
    BY <2>1, <2>2 DEF Inv, ChildrenBeforeState, IsExpanded
  <2>3. CASE pc[w] = "publish" /\ n = leaf[w]
    BY <2>1, <2>3 DEF Inv, Working, Placed
  <2> QED  BY <2>1, <2>2, <2>3 DEF StatesKept
<1>4. Working(lev)'
  <2>1. ASSUME NEW v \in Contexts, v # w  PROVE Placed(lev, v)'
    <3>1. pc'[v] = pc[v] /\ cur'[v] = cur[v] /\ leaf'[v] = leaf[v] /\ board'[v] = board[v]
      BY <2>1 DEF Others
    <3>2. Placed(lev, v)  BY DEF Inv, Working
    <3>3. pc[v] = "publish" => node'[leaf[v]].ch # {}
      <4>1. pc[v] = "publish" => leaf[v] \in DOMAIN node /\ node[leaf[v]].ch # {}
        BY <1>2, <3>2 DEF Placed, Claiming
      <4> QED  BY <4>1 DEF SameLinks
    <3> QED  BY <1>1, <3>1, <3>2, <3>3 DEF Placed
  <2>2. ASSUME NEW v \in Workers  PROVE v \in active' <=> pc'[v] # "idle"
    <3>1. v \in Contexts /\ (v \in active <=> pc[v] # "idle")
      BY DEF Inv, Working, Contexts
    <3> QED  BY <3>1 DEF Activity, Others
  <2> QED  BY <2>1, <2>2 DEF Working, Activity
<1>5. Claims'
  <2>1. pc'[w] \in Claiming => leaf'[w] \in Live
    BY <1>1 DEF Placed
  <2> QED  BY <1>1, <1>2, <2>1, ClaimsStep
<1>6. Begun'  BY BegunStep
<1> QED  BY <1>1, <1>3, <1>4, <1>5, <1>6 DEF Inv

\* Virtual losses change by a step down or up, or not at all.
LEMMA BalancedKept ==
    ASSUME NEW lev, Inv(lev), ~overtaken, SameLinks(node, node'), UNCHANGED <<m_root, ply>>,
           UNCHANGED cur,
           \A x \in DOMAIN node :
              /\ node'[x].virtual_loss_count = node[x].virtual_loss_count
              /\ IsExpanded(node, x) => IsExpanded(node', x)
    PROVE  Balanced'
<1>1. /\ Live' = Live /\ Live \subseteq DOMAIN node
      /\ \A n \in DOMAIN node : TreeOf(node', n) = TreeOf(node, n)
  BY LinksStep DEF Inv, Partition
<1>2. \A n \in DOMAIN node : Inside(node', cur', n) = Inside(node, cur, n)
  BY <1>1 DEF Inside
<1> QED  BY <1>1, <1>2 DEF Inv, Balanced, IsExpanded

LossDown(w, x) ==
    /\ cur[w] = node[x].fa /\ cur'[w] = x
    /\ node'[x].virtual_loss_count = node[x].virtual_loss_count + 1
    /\ \A y \in DOMAIN node :
          /\ y # x => node'[y].virtual_loss_count = node[y].virtual_loss_count
          /\ IsExpanded(node, y) => IsExpanded(node', y)

LossUp(w, x) ==
    /\ cur[w] = x /\ cur'[w] = node[x].fa
    /\ node'[x].virtual_loss_count = node[x].virtual_loss_count - 1
    /\ \A y \in DOMAIN node :
          /\ y # x => node'[y].virtual_loss_count = node[y].virtual_loss_count
          /\ IsExpanded(node, y) => IsExpanded(node', y)

\* A context that goes down one node puts one virtual loss there: Balanced.
LEMMA BalancedDown ==
    ASSUME NEW lev, Inv(lev), ~overtaken, SameLinks(node, node'), UNCHANGED <<m_root, ply>>,
           NEW w \in Contexts, Others(w), NEW x \in DOMAIN node,
           LossDown(w, x)
    PROVE  Balanced'
<1> USE DEF LossDown
<1>1. /\ Live' = Live /\ Live \subseteq DOMAIN node
      /\ \A n \in DOMAIN node : TreeOf(node', n) = TreeOf(node, n)
  BY LinksStep DEF Inv, Partition
<1>2. \A n \in DOMAIN node : Inside(node', cur', n) = Inside(node, cur', n)
  BY <1>1 DEF Inside
<1>3. /\ \A n \in DOMAIN node : n # x => Inside(node, cur', n) = Inside(node, cur, n)
      /\ Cardinality(Inside(node, cur, x)) \in Nat
      /\ Cardinality(Inside(node, cur', x)) = Cardinality(Inside(node, cur, x)) + 1
  <2>1. \A v \in Contexts \ {w} : cur'[v] = cur[v]  BY DEF Others
  <2>2. Forest(node, lev)  BY DEF Inv, Depths
  <2> QED  BY <2>1, <2>2, OneInside
<1> SUFFICES ASSUME NEW n \in Live
             PROVE  LET losses == Cardinality(Inside(node', cur', n))
                    IN  \/ node'[n].virtual_loss_count = losses
                        \/ /\ n = m_root /\ node'[n].expand_state = "expanded"
                           /\ node'[n].virtual_loss_count = losses - 1
  BY <1>1 DEF Balanced
<1>4. LET losses == Cardinality(Inside(node, cur, n))
      IN  \/ node[n].virtual_loss_count = losses
          \/ /\ n = m_root /\ IsExpanded(node, n)
             /\ node[n].virtual_loss_count = losses - 1
  BY DEF Inv, Balanced, IsExpanded
<1>5. CASE n = x
  <2> DEFINE k == Cardinality(Inside(node, cur, x))
             l == Cardinality(Inside(node', cur', x))
  <2>1. k \in Nat /\ l = k + 1  BY <1>2, <1>3
  <2>2. IsExpanded(node, x) => node'[x].expand_state = "expanded"  BY DEF IsExpanded
  <2>3. \/ node[x].virtual_loss_count = k
        \/ x = m_root /\ IsExpanded(node, x) /\ node[x].virtual_loss_count = k - 1
    BY <1>4, <1>5
  <2> HIDE DEF k
  <2>4. \/ node'[x].virtual_loss_count = l
        \/ /\ x = m_root /\ node'[x].expand_state = "expanded"
           /\ node'[x].virtual_loss_count = l - 1
    <3> HIDE DEF l
    <3> QED  BY <2>1, <2>2, <2>3
  <2> QED  BY <1>5, <2>4
<1>6. CASE n # x
  <2>1. n \in DOMAIN node  BY <1>1
  <2>2. Inside(node', cur', n) = Inside(node, cur, n)  BY <1>2, <1>3, <1>6, <2>1
  <2> QED  BY <1>4, <1>6, <2>1, <2>2 DEF IsExpanded
<1> QED  BY <1>5, <1>6

\* A context that leaves a node takes one off: Balanced.
LEMMA BalancedUp ==
    ASSUME NEW lev, Inv(lev), ~overtaken, SameLinks(node, node'), UNCHANGED <<m_root, ply>>,
           NEW w \in Contexts, Others(w), NEW x \in DOMAIN node,
           LossUp(w, x)
    PROVE  Balanced'
<1> USE DEF LossUp
<1>1. /\ Live' = Live /\ Live \subseteq DOMAIN node
      /\ \A n \in DOMAIN node : TreeOf(node', n) = TreeOf(node, n)
  BY LinksStep DEF Inv, Partition
<1>2. \A n \in DOMAIN node : Inside(node', cur', n) = Inside(node, cur', n)
  BY <1>1 DEF Inside
<1>3. /\ \A n \in DOMAIN node : n # x => Inside(node, cur, n) = Inside(node, cur', n)
      /\ Cardinality(Inside(node, cur', x)) \in Nat
      /\ Cardinality(Inside(node, cur, x)) = Cardinality(Inside(node, cur', x)) + 1
  <2>1. \A v \in Contexts \ {w} : cur[v] = cur'[v]  BY DEF Others
  <2>2. Forest(node, lev)  BY DEF Inv, Depths
  <2> QED  BY <2>1, <2>2, OneInside
<1> SUFFICES ASSUME NEW n \in Live
             PROVE  LET losses == Cardinality(Inside(node', cur', n))
                    IN  \/ node'[n].virtual_loss_count = losses
                        \/ /\ n = m_root /\ node'[n].expand_state = "expanded"
                           /\ node'[n].virtual_loss_count = losses - 1
  BY <1>1 DEF Balanced
<1>4. LET losses == Cardinality(Inside(node, cur, n))
      IN  \/ node[n].virtual_loss_count = losses
          \/ /\ n = m_root /\ IsExpanded(node, n)
             /\ node[n].virtual_loss_count = losses - 1
  BY DEF Inv, Balanced, IsExpanded
<1>5. CASE n = x
  <2> DEFINE k == Cardinality(Inside(node, cur, x))
             l == Cardinality(Inside(node', cur', x))
  <2>1. l \in Nat /\ k = l + 1  BY <1>2, <1>3
  <2>2. IsExpanded(node, x) => node'[x].expand_state = "expanded"  BY DEF IsExpanded
  <2>3. \/ node[x].virtual_loss_count = k
        \/ x = m_root /\ IsExpanded(node, x) /\ node[x].virtual_loss_count = k - 1
    BY <1>4, <1>5
  <2> HIDE DEF k
  <2>4. \/ node'[x].virtual_loss_count = l
        \/ /\ x = m_root /\ node'[x].expand_state = "expanded"
           /\ node'[x].virtual_loss_count = l - 1
    <3> HIDE DEF l
    <3> QED  BY <2>1, <2>2, <2>3
  <2> QED  BY <1>5, <2>4
<1>6. CASE n # x
  <2>1. n \in DOMAIN node  BY <1>1
  <2>2. Inside(node', cur', n) = Inside(node, cur, n)  BY <1>2, <1>3, <1>6, <2>1
  <2> QED  BY <1>4, <1>6, <2>1, <2>2 DEF IsExpanded
<1> QED  BY <1>5, <1>6

-----------------------------------------------------------------------------
(* The steps of a simulation, without Expand().                            *)

\* The virtual loss of one node changes.
LEMMA LossStep ==
    ASSUME NodeTypes, NEW x \in DOMAIN node, NEW i \in Int,
           node' = [node EXCEPT ![x].virtual_loss_count = i]
    PROVE  /\ NodeTypes' /\ SameLinks(node, node') /\ DOMAIN node' = DOMAIN node
           /\ node'[x].virtual_loss_count = i
           /\ \A y \in DOMAIN node :
                 /\ node'[y].expand_state = node[y].expand_state
                 /\ y # x => node'[y].virtual_loss_count = node[y].virtual_loss_count
<1> DEFINE r == node[x]
           u == [r EXCEPT !.virtual_loss_count = i]
<1>1. r \in Records  BY DEF NodeTypes
<1>2. u \in Records /\ u.ch = r.ch /\ u.fa = r.fa /\ u.expand_state = r.expand_state
      /\ u.virtual_loss_count = i
  <2> HIDE DEF r
  <2> QED  BY <1>1, FieldTypes
<1>3. node' = [node EXCEPT ![x] = u]  OBVIOUS
<1> HIDE DEF u
<1> QED  BY <1>2, <1>3, RecordStep

\* The state of one node changes.
LEMMA StateStep ==
    ASSUME NodeTypes, NEW x \in DOMAIN node, NEW i \in {"unexpanded", "expanding", "expanded"},
           node' = [node EXCEPT ![x].expand_state = i]
    PROVE  /\ NodeTypes' /\ SameLinks(node, node') /\ DOMAIN node' = DOMAIN node
           /\ node'[x].expand_state = i
           /\ \A y \in DOMAIN node :
                 /\ node'[y].virtual_loss_count = node[y].virtual_loss_count
                 /\ y # x => node'[y].expand_state = node[y].expand_state
<1> DEFINE r == node[x]
           u == [r EXCEPT !.expand_state = i]
<1>1. r \in Records  BY DEF NodeTypes
<1>2. u \in Records /\ u.ch = r.ch /\ u.fa = r.fa /\ u.expand_state = i
      /\ u.virtual_loss_count = r.virtual_loss_count
  <2> HIDE DEF r
  <2> QED  BY <1>1, FieldTypes
<1>3. node' = [node EXCEPT ![x] = u]  OBVIOUS
<1> HIDE DEF u
<1> QED  BY <1>2, <1>3, RecordStep

\* A step that changes no expand state, before or after the leaf is claimed.
LEMMA StatesSame ==
    ASSUME NEW w \in Contexts, pc[w] \notin Claiming, pc'[w] \notin Claiming,
           \A x \in DOMAIN node : node'[x].expand_state = node[x].expand_state
    PROVE  StatesKept(w)
BY DEF StatesKept, IsExpanded, Claiming

\* What the invariant says of one context and of the live tree.
LEMMA InvFacts ==
    ASSUME NEW lev, Inv(lev), ~overtaken, NEW w \in Contexts
    PROVE  /\ Types /\ NodeTypes /\ Placed(lev, w) /\ Forest(node, lev)
           /\ Live \subseteq DOMAIN node /\ m_root \in Live /\ m_root \in DOMAIN node
           /\ node[m_root].fa = nullptr /\ nullptr \notin DOMAIN node
           /\ \A x \in Live : /\ node[x].ch \subseteq Live
                              /\ x # m_root => node[x].fa # nullptr /\ node[x].fa \in Live
           /\ \A x \in Live : \A c \in node[x].ch : node[c].fa = x /\ lev[c] = lev[x] + 1
           /\ \A x \in DOMAIN node : node[x].virtual_loss_count \in Int
           /\ w \in Workers => (w \in active <=> pc[w] # "idle")
           /\ owner = "engine" => active = {}
<1>1. /\ Types /\ NodeTypes /\ Placed(lev, w) /\ Forest(node, lev) /\ m_root \in DOMAIN node
      /\ node[m_root].fa = nullptr /\ nullptr \notin DOMAIN node
      /\ w \in Workers => (w \in active <=> pc[w] # "idle")
      /\ owner = "engine" => active = {}
  BY DEF Inv, Types, Working, Depths, Forest
<1>2. GameLength \in Nat  BY ConstantTypes
<1>3. Live = TreeOf(node, m_root)  BY SubtreeIsTree DEF Live
<1>4. /\ m_root \in Live /\ Live \subseteq DOMAIN node
      /\ \A x \in Live : node[x].ch \subseteq Live
  BY <1>1, <1>2, <1>3, TreeClosed
<1>5. ASSUME NEW x \in Live, x # m_root  PROVE node[x].fa # nullptr /\ node[x].fa \in Live
  <2>1. x \in DOMAIN node  BY <1>4
  <2> QED  BY <1>1, <1>2, <1>3, <1>5, <2>1, TreeUp
<1>6. \A x \in Live : \A c \in node[x].ch : node[c].fa = x /\ lev[c] = lev[x] + 1
  BY <1>1, <1>4 DEF Forest
<1>7. \A x \in DOMAIN node : node[x].virtual_loss_count \in Int
  BY <1>1 DEF NodeTypes, Records
<1> QED  BY <1>1, <1>4, <1>5, <1>6, <1>7

\* A search thread starts Select at the root.
LEMMA SimBeginStep ==
    ASSUME NEW lev, Inv(lev), ~overtaken, NEW w \in Workers, SimBegin(w)
    PROVE  Inv(lev)'
<1>0. w \in Contexts  BY DEF Contexts
<1>1. /\ pc[w] = "idle" /\ pc' = [pc EXCEPT ![w] = "descend"]
      /\ cur' = [cur EXCEPT ![w] = m_root] /\ board' = [board EXCEPT ![w] = ply]
      /\ node' = [node EXCEPT ![m_root].virtual_loss_count = @ + 1]
      /\ due' = due \ {w} /\ active' = active \cup {w} /\ owner = "search"
      /\ UNCHANGED <<owner, enable_async, threads, m_root, ply, running, sims, queue, freed,
                     leaf, sign, overtaken>>
  BY DEF SimBegin, Goto, BeginSimulation, config, engineVars
<1>2. /\ Types /\ NodeTypes /\ Placed(lev, w) /\ m_root \in Live /\ m_root \in DOMAIN node
      /\ node[m_root].fa = nullptr /\ node[m_root].virtual_loss_count \in Int
  BY <1>0, InvFacts
<1>3. cur[w] = nullptr /\ leaf[w] = nullptr  BY <1>1, <1>2 DEF Placed
<1>4. /\ NodeTypes' /\ SameLinks(node, node') /\ DOMAIN node' = DOMAIN node
      /\ node'[m_root].virtual_loss_count = node[m_root].virtual_loss_count + 1
      /\ \A y \in DOMAIN node :
            /\ node'[y].expand_state = node[y].expand_state
            /\ y # m_root => node'[y].virtual_loss_count = node[y].virtual_loss_count
  <2> DEFINE i == node[m_root].virtual_loss_count + 1
  <2>1. i \in Int /\ node' = [node EXCEPT ![m_root].virtual_loss_count = i]
    BY <1>1, <1>2
  <2> HIDE DEF i
  <2>2. /\ NodeTypes' /\ SameLinks(node, node') /\ DOMAIN node' = DOMAIN node
        /\ node'[m_root].virtual_loss_count = i
        /\ \A y \in DOMAIN node :
              /\ node'[y].expand_state = node[y].expand_state
              /\ y # m_root => node'[y].virtual_loss_count = node[y].virtual_loss_count
    BY <1>2, <2>1, LossStep
  <2> QED  BY <2>2 DEF i
<1>5. /\ pc'[w] = "descend" /\ cur'[w] = m_root /\ board'[w] = ply /\ leaf'[w] = nullptr
      /\ Others(w)
  BY <1>0, <1>1, <1>2, <1>3 DEF Types, Others
<1>6. StatesKept(w)  BY <1>0, <1>1, <1>4, <1>5, StatesSame DEF Claiming
<1>7. Balanced'
  <2>1. LossDown(w, m_root)  BY <1>2, <1>3, <1>4, <1>5 DEF LossDown, IsExpanded
  <2> QED  BY <1>0, <1>1, <1>2, <1>4, <1>5, <2>1, BalancedDown
<1>8. Live' = Live  BY <1>1, <1>4, LinksStep
<1>9. Placed(lev, w)'
  <2>1. lev[m_root] = ply  BY DEF Inv, Depths
  <2> QED  BY <1>1, <1>2, <1>5, <1>8, <2>1 DEF Placed, Claiming
<1>10. Activity(w)  BY <1>1, <1>5 DEF Activity
<1>11. Types'
  BY <1>0, <1>1, <1>2, <1>4 DEF Types, ProgramCounters
<1> QED  BY <1>0, <1>1, <1>4, <1>5, <1>6, <1>7, <1>9, <1>10, <1>11, ContextStep

\* Select goes on to a child.
LEMMA SimDescendStep ==
    ASSUME NEW lev, Inv(lev), ~overtaken, NEW w \in Contexts, SimDescend(w)
    PROVE  Inv(lev)'
<1>1. /\ pc[w] = "descend" /\ pc' = [pc EXCEPT ![w] = "descend"]
      /\ board' = [board EXCEPT ![w] = @ + 1]
      /\ UNCHANGED <<owner, active, enable_async, threads, m_root, ply, running, sims, queue,
                     freed, leaf, sign, overtaken, due>>
  BY DEF SimDescend, Goto, phases, config, engineVars
<1>2. PICK c \in node[cur[w]].ch :
         /\ cur' = [cur EXCEPT ![w] = c]
         /\ node' = [node EXCEPT ![c].virtual_loss_count = @ + 1]
  BY DEF SimDescend
<1>3. /\ Types /\ NodeTypes /\ Placed(lev, w) /\ Live \subseteq DOMAIN node
      /\ \A x \in Live : /\ node[x].ch \subseteq Live
                         /\ \A y \in node[x].ch : node[y].fa = x /\ lev[y] = lev[x] + 1
      /\ \A x \in DOMAIN node : node[x].virtual_loss_count \in Int
  BY InvFacts
<1>4. cur[w] \in Live /\ leaf[w] = nullptr /\ board[w] = lev[cur[w]]
  BY <1>1, <1>3 DEF Placed
<1>5. c \in Live /\ c \in DOMAIN node /\ node[c].fa = cur[w] /\ lev[c] = board[w] + 1
  BY <1>3, <1>4
<1>6. /\ NodeTypes' /\ SameLinks(node, node') /\ DOMAIN node' = DOMAIN node
      /\ node'[c].virtual_loss_count = node[c].virtual_loss_count + 1
      /\ \A y \in DOMAIN node :
            /\ node'[y].expand_state = node[y].expand_state
            /\ y # c => node'[y].virtual_loss_count = node[y].virtual_loss_count
  <2> DEFINE i == node[c].virtual_loss_count + 1
  <2>1. i \in Int /\ node' = [node EXCEPT ![c].virtual_loss_count = i]
    BY <1>2, <1>3, <1>5
  <2> HIDE DEF i
  <2>2. /\ NodeTypes' /\ SameLinks(node, node') /\ DOMAIN node' = DOMAIN node
        /\ node'[c].virtual_loss_count = i
        /\ \A y \in DOMAIN node :
              /\ node'[y].expand_state = node[y].expand_state
              /\ y # c => node'[y].virtual_loss_count = node[y].virtual_loss_count
    BY <1>3, <1>5, <2>1, LossStep
  <2> QED  BY <2>2 DEF i
<1>7. /\ pc'[w] = "descend" /\ cur'[w] = c /\ board'[w] = lev[c] /\ leaf'[w] = nullptr
      /\ Others(w)
  BY <1>1, <1>2, <1>3, <1>4, <1>5 DEF Types, Others
<1>8. StatesKept(w)  BY <1>1, <1>6, <1>7, StatesSame DEF Claiming
<1>9. Balanced'
  <2>1. LossDown(w, c)  BY <1>5, <1>6, <1>7 DEF LossDown, IsExpanded
  <2> QED  BY <1>1, <1>5, <1>6, <1>7, <2>1, BalancedDown
<1>10. Live' = Live  BY <1>1, <1>6, LinksStep
<1>11. Placed(lev, w)'  BY <1>5, <1>7, <1>10 DEF Placed, Claiming
<1>12. Activity(w)
  <2>1. w \in Workers => (w \in active <=> pc[w] # "idle")  BY InvFacts
  <2>2. owner = "engine" => active = {}  BY InvFacts
  <2> QED  BY <1>1, <1>7, <2>1, <2>2 DEF Activity
<1>13. Types'
  BY <1>1, <1>2, <1>3, <1>5, <1>6 DEF Types, ProgramCounters
<1> QED  BY <1>1, <1>6, <1>7, <1>8, <1>9, <1>11, <1>12, <1>13, ContextStep

\* The context moves on and no node changes.
LEMMA SimLeafStep ==
    ASSUME NEW lev, Inv(lev), ~overtaken, NEW w \in Contexts, SimLeaf(w)
    PROVE  Inv(lev)'
<1>1. /\ pc[w] = "descend" /\ pc' = [pc EXCEPT ![w] = "claim"]
      /\ leaf' = [leaf EXCEPT ![w] = cur[w]]
      /\ UNCHANGED <<owner, active, enable_async, threads, m_root, ply, running, sims, queue,
                     freed, node, cur, board, sign, overtaken, due>>
  BY DEF SimLeaf, Goto, phases, config, engineVars
<1>2. /\ Types /\ Placed(lev, w) /\ Live \subseteq DOMAIN node
      /\ w \in Workers => (w \in active <=> pc[w] # "idle")
      /\ owner = "engine" => active = {}
  BY InvFacts
<1>3. cur[w] \in Live /\ board[w] = lev[cur[w]]  BY <1>1, <1>2 DEF Placed
<1>4. /\ pc'[w] = "claim" /\ leaf'[w] = cur[w] /\ cur'[w] = cur[w] /\ board'[w] = board[w]
      /\ Others(w)
  BY <1>1, <1>2 DEF Types, Others
<1>5. SameLinks(node, node')  BY <1>1 DEF SameLinks
<1>6. StatesKept(w)  BY <1>1, <1>4, StatesSame DEF Claiming
<1>7. Balanced'  BY <1>1, <1>5, BalancedKept
<1>8. Live' = Live  BY <1>1, <1>5, LinksStep
<1>9. Placed(lev, w)'  BY <1>3, <1>4, <1>8 DEF Placed, Claiming
<1>10. Activity(w)  BY <1>1, <1>2, <1>4 DEF Activity
<1>11. Types'
  <2>1. NodeTypes'  BY <1>1, <1>2 DEF Types, NodeTypes
  <2> QED  BY <1>1, <1>2, <1>3, <2>1 DEF Types, ProgramCounters
<1> QED  BY <1>1, <1>4, <1>5, <1>6, <1>7, <1>9, <1>10, <1>11, ContextStep

\* The state of the leaf is set to i.
LeafState(w, i) == node' = [node EXCEPT ![leaf[w]].expand_state = i]

\* The context goes on to another program counter with the leaf it has, or has done
\* with it, and at most the state of the leaf changes.
StateChange(w, from, to) ==
    /\ pc[w] = from /\ pc' = [pc EXCEPT ![w] = to] /\ to \in ProgramCounters \ {"idle"}
    /\ from \notin {"idle", "descend"}
    /\ \/ \E i \in {"unexpanded", "expanding", "expanded"} : LeafState(w, i)
       \/ UNCHANGED node
    /\ UNCHANGED <<phases, config, overtaken, engineVars, cur, leaf, board, due>>
    /\ sign' \in [Contexts -> Int]

\* Where this leaves it.
StateChanged(w, to) ==
    /\ leaf[w] \in Live /\ leaf[w] \in DOMAIN node /\ Live' = Live
    /\ pc'[w] = to /\ leaf'[w] = leaf[w] /\ cur'[w] = cur[w] /\ board'[w] = board[w]
    /\ \A y \in DOMAIN node :
          y # leaf[w] => node'[y].expand_state = node[y].expand_state

\* It is still in the live tree, and no link and no virtual loss changes.
LEMMA StateChangeFacts ==
    ASSUME NEW lev, Inv(lev), ~overtaken, NEW w \in Contexts, NEW from, NEW to,
           StateChange(w, from, to)
    PROVE  /\ StateChanged(w, to)
           /\ SameLinks(node, node') /\ Others(w) /\ Activity(w) /\ Types'
           /\ UNCHANGED <<m_root, ply, queue, freed, overtaken>> /\ UNCHANGED cur
           /\ \A y \in DOMAIN node :
                 node'[y].virtual_loss_count = node[y].virtual_loss_count
           /\ \A i \in {"unexpanded", "expanding", "expanded"} :
                 LeafState(w, i) => node'[leaf[w]].expand_state = i
<1>1. /\ pc[w] = from /\ pc' = [pc EXCEPT ![w] = to] /\ to \in ProgramCounters \ {"idle"}
      /\ from \notin {"idle", "descend"}
      /\ UNCHANGED <<owner, active, enable_async, threads, m_root, ply, running, sims, queue,
                     freed, cur, leaf, board, overtaken, due>>
      /\ sign' \in [Contexts -> Int]
  BY DEF StateChange, phases, config, engineVars
<1>2. /\ Types /\ NodeTypes /\ Placed(lev, w) /\ Live \subseteq DOMAIN node
      /\ w \in Workers => (w \in active <=> pc[w] # "idle")
      /\ owner = "engine" => active = {}
  BY InvFacts
<1>3. leaf[w] \in Live /\ leaf[w] \in DOMAIN node
  <2>1. pc[w] \in ProgramCounters  BY <1>2 DEF Types
  <2> QED  BY <1>1, <1>2, <2>1 DEF Placed, Claiming, ProgramCounters
<1>4. ASSUME NEW i \in {"unexpanded", "expanding", "expanded"}, LeafState(w, i)
      PROVE  /\ NodeTypes' /\ SameLinks(node, node') /\ DOMAIN node' = DOMAIN node
             /\ node'[leaf[w]].expand_state = i
             /\ \A y \in DOMAIN node :
                   /\ node'[y].virtual_loss_count = node[y].virtual_loss_count
                   /\ y # leaf[w] => node'[y].expand_state = node[y].expand_state
  <2>1. node' = [node EXCEPT ![leaf[w]].expand_state = i]  BY <1>4 DEF LeafState
  <2> QED  BY <1>2, <1>3, <2>1, StateStep
<1>5. /\ NodeTypes' /\ SameLinks(node, node') /\ DOMAIN node' = DOMAIN node
      /\ \A y \in DOMAIN node :
            /\ node'[y].virtual_loss_count = node[y].virtual_loss_count
            /\ y # leaf[w] => node'[y].expand_state = node[y].expand_state
  <2>1. CASE UNCHANGED node  BY <1>2, <2>1 DEF SameLinks, NodeTypes
  <2>2. CASE \E i \in {"unexpanded", "expanding", "expanded"} : LeafState(w, i)
    BY <1>4, <2>2
  <2> QED  BY <2>1, <2>2 DEF StateChange
<1>6. /\ pc'[w] = to /\ leaf'[w] = leaf[w] /\ cur'[w] = cur[w] /\ board'[w] = board[w]
      /\ Others(w)
  BY <1>1, <1>2 DEF Types, Others
<1>7. Activity(w)  BY <1>1, <1>2, <1>6 DEF Activity
<1>8. Types'  BY <1>1, <1>2, <1>5 DEF Types
<1>9. Live' = Live  BY <1>1, <1>5, LinksStep
<1>10. StateChanged(w, to)  BY <1>3, <1>5, <1>6, <1>9 DEF StateChanged
<1>11. \A i \in {"unexpanded", "expanding", "expanded"} :
          LeafState(w, i) => node'[leaf[w]].expand_state = i
  BY <1>4
<1> QED  BY <1>1, <1>5, <1>6, <1>7, <1>8, <1>10, <1>11

\* What is left to show of such a step.
LEMMA StateChangeStep ==
    ASSUME NEW lev, Inv(lev), ~overtaken, NEW w \in Contexts, NEW from, NEW to,
           StateChange(w, from, to), StatesKept(w), Placed(lev, w)'
    PROVE  Inv(lev)'
<1>1. /\ SameLinks(node, node') /\ Others(w) /\ Activity(w) /\ Types'
      /\ UNCHANGED <<m_root, ply, queue, freed, overtaken>> /\ UNCHANGED cur
      /\ \A y \in DOMAIN node :
            node'[y].virtual_loss_count = node[y].virtual_loss_count
  BY StateChangeFacts
<1>2. \A y \in DOMAIN node : IsExpanded(node, y) => IsExpanded(node', y)
  BY DEF StatesKept
<1>3. Balanced'  BY <1>1, <1>2, BalancedKept
<1> QED  BY <1>1, <1>3, ContextStep

\* The compare-and-exchange claims an unexpanded leaf, which nobody claims.
LEMMA SimClaimStep ==
    ASSUME NEW lev, Inv(lev), ~overtaken, NEW w \in Contexts, SimClaim(w)
    PROVE  Inv(lev)'
<1>1. /\ Types /\ Placed(lev, w)
      /\ UNCHANGED <<phases, config, overtaken, engineVars, cur, leaf, board, sign, due>>
  BY InvFacts DEF SimClaim
<1>2. sign' \in [Contexts -> Int]  BY <1>1 DEF Types
<1>3. CASE /\ pc[w] = "claim" /\ pc' = [pc EXCEPT ![w] = "eval"]
           /\ node[leaf[w]].expand_state = "unexpanded" /\ LeafState(w, "expanding")
  <2>1. StateChange(w, "claim", "eval")
    BY <1>1, <1>2, <1>3 DEF StateChange, ProgramCounters
  <2>2. StateChanged(w, "eval")  BY <2>1, StateChangeFacts
  <2>3. node'[leaf[w]].expand_state = "expanding"  BY <1>3, <2>1, StateChangeFacts
  <2>4. StatesKept(w)
    BY <1>3, <2>2, <2>3 DEF StateChanged, StatesKept, IsExpanded, Claiming
  <2>5. Placed(lev, w)'
    BY <1>1, <1>3, <2>2 DEF StateChanged, Placed, Claiming
  <2> QED  BY <2>1, <2>4, <2>5, StateChangeStep
<1>4. CASE pc[w] = "claim" /\ pc' = [pc EXCEPT ![w] = "undo"] /\ UNCHANGED node
  <2>1. StateChange(w, "claim", "undo")
    BY <1>1, <1>2, <1>4 DEF StateChange, ProgramCounters
  <2>2. StateChanged(w, "undo")  BY <2>1, StateChangeFacts
  <2>3. StatesKept(w)
    BY <1>4, <2>2, StatesSame DEF StateChanged, Claiming
  <2>4. Placed(lev, w)'
    BY <1>1, <1>4, <2>2 DEF StateChanged, Placed, Claiming
  <2> QED  BY <2>1, <2>3, <2>4, StateChangeStep
<1> QED  BY <1>3, <1>4 DEF SimClaim, Goto, LeafState

\* The evaluation fails: the leaf can be claimed again.
LEMMA SimEvalFailsStep ==
    ASSUME NEW lev, Inv(lev), ~overtaken, NEW w \in Contexts, SimEvalFails(w)
    PROVE  Inv(lev)'
<1>1. /\ Types /\ Placed(lev, w) /\ Claims
      /\ pc[w] = "eval" /\ pc' = [pc EXCEPT ![w] = "undo"]
      /\ LeafState(w, "unexpanded")
      /\ UNCHANGED <<phases, config, overtaken, engineVars, cur, leaf, board, sign, due>>
  BY InvFacts DEF SimEvalFails, Goto, LeafState, Inv
<1>2. sign' \in [Contexts -> Int]
  BY <1>1 DEF Types
<1>3. StateChange(w, "eval", "undo")
  BY <1>1, <1>2 DEF StateChange, ProgramCounters
<1>4. StateChanged(w, "undo")  BY <1>3, StateChangeFacts
<1>5. node[leaf[w]].expand_state = "expanding"  BY <1>1 DEF Claims, Claiming
<1>6. node'[leaf[w]].expand_state = "unexpanded"  BY <1>1, <1>3, StateChangeFacts
<1>7. StatesKept(w)
  BY <1>1, <1>4, <1>5, <1>6 DEF StateChanged, StatesKept, IsExpanded, Claiming
<1>8. Placed(lev, w)'  BY <1>1, <1>4 DEF StateChanged, Placed, Claiming
<1> QED  BY <1>3, <1>7, <1>8, StateChangeStep

\* The evaluation succeeds: it stays claimed.
LEMMA SimEvalSucceedsStep ==
    ASSUME NEW lev, Inv(lev), ~overtaken, NEW w \in Contexts, SimEvalSucceeds(w)
    PROVE  Inv(lev)'
<1>1. /\ Types /\ Placed(lev, w) /\ Claims
      /\ pc[w] = "eval" /\ pc' = [pc EXCEPT ![w] = "expand"]
      /\ UNCHANGED node /\ \E v \in Values : sign' = [sign EXCEPT ![w] = v]
      /\ UNCHANGED <<phases, config, overtaken, engineVars, cur, leaf, board, due>>
  BY InvFacts DEF SimEvalSucceeds, Goto, LeafState, Inv
<1>2. sign' \in [Contexts -> Int]
  BY <1>1, ConstantTypes DEF Types
<1>3. StateChange(w, "eval", "expand")
  BY <1>1, <1>2 DEF StateChange, ProgramCounters
<1>4. StateChanged(w, "expand")  BY <1>3, StateChangeFacts
<1>5. node[leaf[w]].expand_state = "expanding"  BY <1>1 DEF Claims, Claiming
<1>6. node'[leaf[w]].expand_state = "expanding"  BY <1>1, <1>5
<1>7. StatesKept(w)
  BY <1>1, <1>4, <1>5, <1>6 DEF StateChanged, StatesKept, IsExpanded, Claiming
<1>8. Placed(lev, w)'  BY <1>1, <1>4 DEF StateChanged, Placed, Claiming
<1> QED  BY <1>3, <1>7, <1>8, StateChangeStep

\* Where the game is over it can be claimed again, and is backed up.
LEMMA SimExpandOverStep ==
    ASSUME NEW lev, Inv(lev), ~overtaken, NEW w \in Contexts, SimExpandOver(w)
    PROVE  Inv(lev)'
<1>1. /\ Types /\ Placed(lev, w) /\ Claims
      /\ pc[w] = "expand" /\ pc' = [pc EXCEPT ![w] = "value"]
      /\ LeafState(w, "unexpanded")
      /\ UNCHANGED <<phases, config, overtaken, engineVars, cur, leaf, board, sign, due>>
  BY InvFacts DEF SimExpandOver, Goto, LeafState, Inv
<1>2. sign' \in [Contexts -> Int]
  BY <1>1 DEF Types
<1>3. StateChange(w, "expand", "value")
  BY <1>1, <1>2 DEF StateChange, ProgramCounters
<1>4. StateChanged(w, "value")  BY <1>3, StateChangeFacts
<1>5. node[leaf[w]].expand_state = "expanding"  BY <1>1 DEF Claims, Claiming
<1>6. node'[leaf[w]].expand_state = "unexpanded"  BY <1>1, <1>3, StateChangeFacts
<1>7. StatesKept(w)
  BY <1>1, <1>4, <1>5, <1>6 DEF StateChanged, StatesKept, IsExpanded, Claiming
<1>8. Placed(lev, w)'  BY <1>1, <1>4 DEF StateChanged, Placed, Claiming
<1> QED  BY <1>3, <1>7, <1>8, StateChangeStep

\* Once it has children it is expanded.
LEMMA SimPublishStep ==
    ASSUME NEW lev, Inv(lev), ~overtaken, NEW w \in Contexts, SimPublish(w)
    PROVE  Inv(lev)'
<1>1. /\ Types /\ Placed(lev, w) /\ Claims
      /\ pc[w] = "publish" /\ pc' = [pc EXCEPT ![w] = "value"]
      /\ LeafState(w, "expanded")
      /\ UNCHANGED <<phases, config, overtaken, engineVars, cur, leaf, board, sign, due>>
  BY InvFacts DEF SimPublish, Goto, LeafState, Inv
<1>2. sign' \in [Contexts -> Int]
  BY <1>1 DEF Types
<1>3. StateChange(w, "publish", "value")
  BY <1>1, <1>2 DEF StateChange, ProgramCounters
<1>4. StateChanged(w, "value")  BY <1>3, StateChangeFacts
<1>5. node[leaf[w]].expand_state = "expanding"  BY <1>1 DEF Claims, Claiming
<1>6. node'[leaf[w]].expand_state = "expanded"  BY <1>1, <1>3, StateChangeFacts
<1>7. StatesKept(w)
  BY <1>1, <1>4, <1>5, <1>6 DEF StateChanged, StatesKept, IsExpanded, Claiming
<1>8. Placed(lev, w)'  BY <1>1, <1>4 DEF StateChanged, Placed, Claiming
<1> QED  BY <1>3, <1>7, <1>8, StateChangeStep

\* The leaf gets its own value.
LEMMA SimValueStep ==
    ASSUME NEW lev, Inv(lev), ~overtaken, NEW w \in Contexts, SimValue(w)
    PROVE  Inv(lev)'
<1>1. /\ pc[w] = "value" /\ pc' = [pc EXCEPT ![w] = "backup"]
      /\ node' = [node EXCEPT ![leaf[w]].value = sign[w]]
      /\ UNCHANGED <<owner, active, enable_async, threads, m_root, ply, running, sims, queue,
                     freed, cur, leaf, board, sign, overtaken, due>>
  BY DEF SimValue, Goto, phases, config, engineVars
<1>2. /\ Types /\ NodeTypes /\ Placed(lev, w) /\ Live \subseteq DOMAIN node
      /\ w \in Workers => (w \in active <=> pc[w] # "idle")
      /\ owner = "engine" => active = {}
  BY InvFacts
<1>3. leaf[w] \in Live /\ cur[w] = leaf[w] /\ leaf[w] \in DOMAIN node /\ sign[w] \in Int
  BY <1>1, <1>2 DEF Placed, Types
<1>4. /\ NodeTypes' /\ SameLinks(node, node') /\ DOMAIN node' = DOMAIN node
      /\ \A y \in DOMAIN node :
            /\ node'[y].expand_state = node[y].expand_state
            /\ node'[y].virtual_loss_count = node[y].virtual_loss_count
  <2> DEFINE r == node[leaf[w]]
             i == sign[w]
             u == [r EXCEPT !.value = i]
  <2>1. r \in Records  BY <1>2, <1>3 DEF NodeTypes
  <2>2. u \in Records /\ u.ch = r.ch /\ u.fa = r.fa /\ u.expand_state = r.expand_state
        /\ u.virtual_loss_count = r.virtual_loss_count
    <3>1. i \in Int  BY <1>3
    <3> HIDE DEF r, i
    <3> QED  BY <2>1, <3>1, FieldTypes
  <2>3. node' = [node EXCEPT ![leaf[w]] = u]  BY <1>1
  <2> HIDE DEF u
  <2>4. /\ NodeTypes' /\ SameLinks(node, node') /\ DOMAIN node' = DOMAIN node
        /\ node'[leaf[w]] = u /\ \A y \in DOMAIN node : y # leaf[w] => node'[y] = node[y]
    BY <1>2, <1>3, <2>2, <2>3, RecordStep
  <2> QED  BY <2>2, <2>4
<1>5. /\ pc'[w] = "backup" /\ leaf'[w] = leaf[w] /\ cur'[w] = cur[w] /\ Others(w)
  BY <1>1, <1>2 DEF Types, Others
<1>6. StatesKept(w)  BY <1>1, <1>4, <1>5, StatesSame DEF Claiming
<1>7. Balanced'  BY <1>1, <1>4, BalancedKept DEF IsExpanded
<1>8. Live' = Live  BY <1>1, <1>4, LinksStep
<1>9. Placed(lev, w)'  BY <1>3, <1>5, <1>8 DEF Placed, Claiming
<1>10. Activity(w)  BY <1>1, <1>2, <1>5 DEF Activity
<1>11. Types'  BY <1>1, <1>2, <1>4 DEF Types, ProgramCounters
<1> QED  BY <1>1, <1>4, <1>5, <1>6, <1>7, <1>9, <1>10, <1>11, ContextStep

\* One node of the path is backed up and left.
LEMMA SimBackupStep ==
    ASSUME NEW lev, Inv(lev), ~overtaken, NEW w \in Contexts, SimBackup(w)
    PROVE  Inv(lev)'
<1> DEFINE x == cur[w]
<1>1. /\ pc[w] = "backup"
      /\ pc' = [pc EXCEPT ![w] = IF node[x].fa = nullptr THEN "count" ELSE "backup"]
      /\ node' = [node EXCEPT ![x] = BackedUp(node[x], sign[w], ChLen(w))]
      /\ cur' = [cur EXCEPT ![w] = node[x].fa] /\ sign' = [sign EXCEPT ![w] = -sign[w]]
      /\ UNCHANGED <<owner, active, enable_async, threads, m_root, ply, running, sims, queue,
                     freed, leaf, board, overtaken, due>>
  BY DEF SimBackup, Goto, phases, config, engineVars
<1>2. /\ Types /\ NodeTypes /\ Placed(lev, w) /\ Live \subseteq DOMAIN node
      /\ node[m_root].fa = nullptr
      /\ \A y \in Live : y # m_root => node[y].fa # nullptr /\ node[y].fa \in Live
      /\ w \in Workers => (w \in active <=> pc[w] # "idle")
      /\ owner = "engine" => active = {}
  BY InvFacts
<1>3. leaf[w] \in Live /\ x \in Live /\ leaf[w] \in DOMAIN node /\ x \in DOMAIN node
      /\ sign[w] \in Int
  BY <1>1, <1>2 DEF Placed, Types
<1>4. /\ NodeTypes' /\ SameLinks(node, node') /\ DOMAIN node' = DOMAIN node
      /\ node'[x].virtual_loss_count = node[x].virtual_loss_count - 1
      /\ \A y \in DOMAIN node :
            /\ node'[y].expand_state = node[y].expand_state
            /\ y # x => node'[y].virtual_loss_count = node[y].virtual_loss_count
  <2> DEFINE r == node[x]
             k == ChLen(w)
             v == sign[w]
             u == BackedUp(r, v, k)
  <2>1. r \in Records  BY <1>2, <1>3 DEF NodeTypes
  <2>2. k \in Nat  BY <1>2, <1>3, FS_CardinalityType DEF NodeTypes, ChLen
  <2>3. u \in Records /\ u.ch = r.ch /\ u.fa = r.fa /\ u.expand_state = r.expand_state
        /\ u.virtual_loss_count = r.virtual_loss_count - 1
    <3>1. v \in Int  BY <1>3
    <3> HIDE DEF r, k, v
    <3> QED  BY <2>1, <2>2, <3>1, BackedUpTypes
  <2>4. node' = [node EXCEPT ![x] = u]  BY <1>1
  <2> HIDE DEF u
  <2>5. /\ NodeTypes' /\ SameLinks(node, node') /\ DOMAIN node' = DOMAIN node
        /\ node'[x] = u /\ \A y \in DOMAIN node : y # x => node'[y] = node[y]
    BY <1>2, <1>3, <2>3, <2>4, RecordStep
  <2> QED  BY <2>3, <2>5
<1>5. /\ pc'[w] = IF node[x].fa = nullptr THEN "count" ELSE "backup"
      /\ cur'[w] = node[x].fa /\ leaf'[w] = leaf[w] /\ Others(w)
  BY <1>1, <1>2 DEF Types, Others
<1>6. StatesKept(w)  BY <1>1, <1>4, <1>5, StatesSame DEF Claiming
<1>7. Balanced'
  <2>1. LossUp(w, x)  BY <1>4, <1>5 DEF LossUp, IsExpanded
  <2> QED  BY <1>1, <1>3, <1>4, <1>5, <2>1, BalancedUp
<1>8. Live' = Live  BY <1>1, <1>4, LinksStep
<1>9. node[x].fa = nullptr \/ node[x].fa \in Live  BY <1>2, <1>3
<1>10. Placed(lev, w)'
  <2> HIDE DEF x
  <2> QED  BY <1>3, <1>5, <1>8, <1>9 DEF Placed, Claiming
<1>11. Activity(w)  BY <1>1, <1>2, <1>5 DEF Activity
<1>12. Types'
  <2>1. cur' \in [Contexts -> DOMAIN node \cup {nullptr}]
    BY <1>1, <1>2, <1>9 DEF Types
  <2>2. pc' \in [Contexts -> ProgramCounters]  BY <1>1, <1>2 DEF Types, ProgramCounters
  <2>3. sign' \in [Contexts -> Int]  BY <1>1, <1>2, <1>3 DEF Types
  <2> HIDE DEF x
  <2> QED  BY <1>1, <1>2, <1>4, <2>1, <2>2, <2>3 DEF Types
<1> QED  BY <1>1, <1>4, <1>5, <1>6, <1>7, <1>10, <1>11, <1>12, ContextStep

\* A virtual loss is taken back, and the node left.
LEMMA SimUndoStep ==
    ASSUME NEW lev, Inv(lev), ~overtaken, NEW w \in Contexts, SimUndo(w)
    PROVE  Inv(lev)'
<1> DEFINE x == cur[w]
<1>1. /\ pc[w] = "undo" /\ x # nullptr /\ pc' = [pc EXCEPT ![w] = "undo"]
      /\ node' = [node EXCEPT ![x].virtual_loss_count = @ - 1]
      /\ cur' = [cur EXCEPT ![w] = node[x].fa]
      /\ UNCHANGED <<owner, active, enable_async, threads, m_root, ply, running, sims, queue,
                     freed, leaf, board, sign, overtaken, due>>
  BY DEF SimUndo, Goto, phases, config, engineVars
<1>2. /\ Types /\ NodeTypes /\ Placed(lev, w) /\ Live \subseteq DOMAIN node
      /\ node[m_root].fa = nullptr
      /\ \A y \in Live : y # m_root => node[y].fa # nullptr /\ node[y].fa \in Live
      /\ \A y \in DOMAIN node : node[y].virtual_loss_count \in Int
      /\ w \in Workers => (w \in active <=> pc[w] # "idle")
      /\ owner = "engine" => active = {}
  BY InvFacts
<1>3. leaf[w] \in Live /\ x \in Live /\ x \in DOMAIN node
  BY <1>1, <1>2 DEF Placed
<1>4. /\ NodeTypes' /\ SameLinks(node, node') /\ DOMAIN node' = DOMAIN node
      /\ node'[x].virtual_loss_count = node[x].virtual_loss_count - 1
      /\ \A y \in DOMAIN node :
            /\ node'[y].expand_state = node[y].expand_state
            /\ y # x => node'[y].virtual_loss_count = node[y].virtual_loss_count
  <2> DEFINE i == node[x].virtual_loss_count - 1
  <2>1. i \in Int /\ node' = [node EXCEPT ![x].virtual_loss_count = i]
    BY <1>1, <1>2, <1>3
  <2> HIDE DEF i
  <2>2. /\ NodeTypes' /\ SameLinks(node, node') /\ DOMAIN node' = DOMAIN node
        /\ node'[x].virtual_loss_count = i
        /\ \A y \in DOMAIN node :
              /\ node'[y].expand_state = node[y].expand_state
              /\ y # x => node'[y].virtual_loss_count = node[y].virtual_loss_count
    BY <1>2, <1>3, <2>1, LossStep
  <2> QED  BY <2>2 DEF i
<1>5. /\ pc'[w] = "undo" /\ cur'[w] = node[x].fa /\ leaf'[w] = leaf[w] /\ Others(w)
  BY <1>1, <1>2 DEF Types, Others
<1>6. StatesKept(w)  BY <1>1, <1>4, <1>5, StatesSame DEF Claiming
<1>7. Balanced'
  <2>1. LossUp(w, x)  BY <1>4, <1>5 DEF LossUp, IsExpanded
  <2> QED  BY <1>1, <1>3, <1>4, <1>5, <2>1, BalancedUp
<1>8. Live' = Live  BY <1>1, <1>4, LinksStep
<1>9. node[x].fa = nullptr \/ node[x].fa \in Live  BY <1>2, <1>3
<1>10. Placed(lev, w)'
  <2> HIDE DEF x
  <2> QED  BY <1>3, <1>5, <1>8, <1>9 DEF Placed, Claiming
<1>11. Activity(w)  BY <1>1, <1>2, <1>5 DEF Activity
<1>12. Types'
  <2>1. cur' \in [Contexts -> DOMAIN node \cup {nullptr}]
    BY <1>1, <1>2, <1>9 DEF Types
  <2>2. pc' \in [Contexts -> ProgramCounters]  BY <1>1, <1>2 DEF Types, ProgramCounters
  <2> HIDE DEF x
  <2> QED  BY <1>1, <1>2, <1>4, <2>1, <2>2 DEF Types
<1> QED  BY <1>1, <1>4, <1>5, <1>6, <1>7, <1>10, <1>11, <1>12, ContextStep

\* A simulation ends: its thread goes on, its callback is done.
Ends(w) ==
    /\ pc[w] \notin Claiming \cup {"idle"} /\ cur[w] = nullptr
    /\ pc' = [pc EXCEPT ![w] = "idle"] /\ SimulationOver(w)
    /\ cur' = [cur EXCEPT ![w] = nullptr] /\ leaf' = [leaf EXCEPT ![w] = nullptr]
    /\ board' = [board EXCEPT ![w] = 0]
    /\ sims' \in Nat /\ running' \in BOOLEAN /\ sign' \in [Contexts -> Int]
    /\ UNCHANGED <<config, overtaken, node, m_root, ply, queue, freed, due>>

\* It leaves nothing behind in the tree.
LEMMA EndsStep ==
    ASSUME NEW lev, Inv(lev), ~overtaken, NEW w \in Contexts, Ends(w)
    PROVE  Inv(lev)'
<1>1. /\ pc[w] \notin Claiming \cup {"idle"} /\ cur[w] = nullptr
      /\ pc' = [pc EXCEPT ![w] = "idle"]
      /\ cur' = [cur EXCEPT ![w] = nullptr] /\ leaf' = [leaf EXCEPT ![w] = nullptr]
      /\ board' = [board EXCEPT ![w] = 0]
      /\ sims' \in Nat /\ running' \in BOOLEAN /\ sign' \in [Contexts -> Int]
      /\ UNCHANGED <<owner, enable_async, threads, overtaken, node, m_root, ply, queue, freed,
                     due>>
      /\ w \in Workers => active' = active \ {w}
      /\ w \notin Workers => active' = active
  BY DEF Ends, SimulationOver, EndSimulation, config, phases
<1>2. /\ Types /\ NodeTypes
      /\ w \in Workers => (w \in active <=> pc[w] # "idle")
      /\ owner = "engine" => active = {}
  BY InvFacts
<1>3. /\ pc'[w] = "idle" /\ cur'[w] = nullptr /\ leaf'[w] = nullptr /\ Others(w) /\ cur' = cur
  BY <1>1, <1>2 DEF Types, Others
<1>4. SameLinks(node, node')  BY <1>1 DEF SameLinks
<1>5. StatesKept(w)  BY <1>1, <1>3, StatesSame DEF Claiming
<1>6. Balanced'  BY <1>1, <1>3, <1>4, BalancedKept
<1>7. Placed(lev, w)'  BY <1>3 DEF Placed, Claiming
<1>8. Activity(w)  BY <1>1, <1>2, <1>3 DEF Activity
<1>9. Types'
  <2>1. NodeTypes'  BY <1>1, <1>2 DEF NodeTypes
  <2> QED  BY <1>1, <1>2, <2>1 DEF Types, ProgramCounters
<1> QED  BY <1>1, <1>3, <1>4, <1>5, <1>6, <1>7, <1>8, <1>9, ContextStep

\* After Backup() ...
LEMMA SimEndStep ==
    ASSUME NEW lev, Inv(lev), ~overtaken, NEW w \in Contexts, SimEnd(w)
    PROVE  Inv(lev)'
<1>1. Types /\ Placed(lev, w)  BY InvFacts
<1>2. pc[w] = "count" /\ cur[w] = nullptr  BY <1>1 DEF SimEnd, Goto, Placed
<1>3. sims' \in Nat /\ running' \in BOOLEAN /\ sign' \in [Contexts -> Int]
  BY <1>1 DEF SimEnd, Types
<1>4. Ends(w)  BY <1>2, <1>3 DEF SimEnd, Goto, Ends, Claiming
<1> QED  BY <1>4, EndsStep

\* ... or UndoVirtualLoss().
LEMMA SimUndoneStep ==
    ASSUME NEW lev, Inv(lev), ~overtaken, NEW w \in Contexts, SimUndone(w)
    PROVE  Inv(lev)'
<1>1. Types /\ Placed(lev, w)  BY InvFacts
<1>2. pc[w] = "undo" /\ cur[w] = nullptr  BY DEF SimUndone, Goto
<1>3. /\ sims' \in Nat /\ running' \in BOOLEAN /\ sign' \in [Contexts -> Int]
      /\ cur' = [cur EXCEPT ![w] = nullptr]
  BY <1>1, <1>2 DEF SimUndone, Types, engineVars
<1>4. Ends(w)  BY <1>2, <1>3 DEF SimUndone, Goto, Ends, Claiming, engineVars
<1> QED  BY <1>4, EndsStep

\* One context takes the place of another at a node: as many are inside as before.
LEMMA HandedOver ==
    ASSUME NEW nd, NEW n, NEW cr, NEW d, NEW w \in Contexts, NEW c \in Contexts, w # c,
           cr[c] = nullptr, d[w] = nullptr, d[c] = cr[w],
           \A v \in Contexts \ {w, c} : d[v] = cr[v]
    PROVE  Cardinality(Inside(nd, d, n)) = Cardinality(Inside(nd, cr, n))
<1> DEFINE C == Inside(nd, cr, n)
           D == Inside(nd, d, n)
<1>1. \A v \in Contexts \ {w, c} : v \in D <=> v \in C  BY DEF Inside
<1>2. C \subseteq Contexts /\ D \subseteq Contexts /\ c \notin C /\ w \notin D
      /\ (c \in D <=> w \in C)
  BY DEF Inside
<1> HIDE DEF C, D
<1>3. IsFiniteSet(C)  BY <1>2, ConstantTypes, FS_Subset
<1>4. CASE w \notin C
  <2>1. C = D  BY <1>1, <1>2, <1>4
  <2> QED  BY <2>1 DEF C, D
<1>5. CASE w \in C
  <2>1. D = (C \ {w}) \cup {c} /\ c \notin C \ {w}  BY <1>1, <1>2, <1>5
  <2>2. IsFiniteSet(C \ {w}) /\ Cardinality(C \ {w}) = Cardinality(C) - 1
    BY <1>3, <1>5, FS_RemoveElement
  <2>3. Cardinality(D) = Cardinality(C \ {w}) + 1  BY <2>1, <2>2, FS_AddElement
  <2>4. Cardinality(C) \in Nat  BY <1>3, FS_CardinalityType
  <2> QED  BY <2>2, <2>3, <2>4 DEF C, D
<1> QED  BY <1>4, <1>5

\* The callback c gets what the search thread w has.
HandsOff(w, c) ==
    /\ pc[w] = "eval" /\ pc[c] = "idle" /\ cur[c] = nullptr /\ w # c
    /\ pc'[w] = "idle" /\ cur'[w] = nullptr /\ leaf'[w] = nullptr
    /\ pc'[c] = "eval" /\ cur'[c] = cur[w] /\ leaf'[c] = leaf[w] /\ board'[c] = board[w]
    /\ \A v \in Contexts \ {w, c} :
          pc'[v] = pc[v] /\ cur'[v] = cur[v] /\ leaf'[v] = leaf[v] /\ board'[v] = board[v]

\* Claims and losses go with the leaf.
LEMMA HandsOffFacts ==
    ASSUME NEW lev, Inv(lev), ~overtaken, NEW w \in Workers, NEW c \in Callbacks,
           HandsOff(w, c), UNCHANGED node, Live' = Live
    PROVE  /\ \A v \in Contexts : Placed(lev, v)'
           /\ Claims' /\ Begun' /\ (m_root' = m_root => Balanced')
<1>1. w \in Contexts /\ c \in Contexts  BY DEF Contexts
<1>2. (\A v \in Contexts : Placed(lev, v)) /\ Claims /\ Begun /\ Balanced
  BY DEF Inv, Working
<1>3. ASSUME NEW v \in Contexts  PROVE Placed(lev, v)'
  <2>1. CASE v = w  BY <2>1 DEF HandsOff, Placed, Claiming
  <2>2. CASE v = c
    BY <1>1, <1>2, <2>2 DEF HandsOff, Placed, Claiming
  <2>3. CASE v # w /\ v # c
    <3>1. pc'[v] = pc[v] /\ cur'[v] = cur[v] /\ leaf'[v] = leaf[v] /\ board'[v] = board[v]
      BY <2>3 DEF HandsOff
    <3> QED  BY <1>2, <3>1 DEF Placed
  <2> QED  BY <2>1, <2>2, <2>3
\* The one who claims what v claims now, before the step.
<1> DEFINE was(v) == IF v = c THEN w ELSE v
<1>4. ASSUME NEW v \in Contexts, pc'[v] \in Claiming
      PROVE  /\ was(v) \in Contexts /\ pc[was(v)] \in Claiming /\ leaf'[v] = leaf[was(v)]
             /\ v # w
  BY <1>1, <1>4 DEF HandsOff, Claiming
<1>5. Claims'
  <2>1. ASSUME NEW u \in Contexts, NEW v \in Contexts,
               pc'[u] \in Claiming, pc'[v] \in Claiming, leaf'[u] = leaf'[v]
        PROVE  u = v
    <3>1. was(u) = was(v)  BY <1>2, <1>4, <2>1 DEF Claims
    <3> QED  BY <1>4, <2>1, <3>1
  <2>2. ASSUME NEW v \in Contexts, pc'[v] \in Claiming
        PROVE  node'[leaf'[v]].expand_state = "expanding"
    <3> HIDE DEF was
    <3> QED  BY <1>2, <1>4, <2>2 DEF Claims
  <2>3. ASSUME NEW n \in Live', node'[n].expand_state = "expanding"
        PROVE  \E v \in Contexts : pc'[v] \in Claiming /\ leaf'[v] = n
    <3>1. PICK v \in Contexts : pc[v] \in Claiming /\ leaf[v] = n
      BY <1>2, <2>3 DEF Claims
    <3>2. CASE v = w  BY <1>1, <3>1, <3>2 DEF HandsOff, Claiming
    <3>3. CASE v # w  BY <3>1, <3>3 DEF HandsOff, Claiming
    <3> QED  BY <3>2, <3>3
  <2> QED  BY <2>1, <2>2, <2>3 DEF Claims
<1>6. Begun'
  <2>1. \A v \in Contexts : pc[v] = "publish" => pc'[v] = "publish" /\ leaf'[v] = leaf[v]
    BY DEF HandsOff
  <2>2. ASSUME NEW x \in DOMAIN node,
               node[x].ch # {} \/ (\E m \in Moves : Child(x, m) \in DOMAIN node)
        PROVE  \/ node[x].expand_state = "expanded"
               \/ \E v \in Contexts : pc'[v] = "publish" /\ leaf'[v] = x
    BY <1>2, <2>1, <2>2 DEF Begun
  <2>3. \A x \in Nodes, m \in Moves : Child(x, m) \in DOMAIN node => x \in DOMAIN node
    BY <1>2 DEF Begun
  <2> QED  BY <2>2, <2>3 DEF Begun, Child
<1>7. ASSUME m_root' = m_root  PROVE Balanced'
  <2>1. \A n : Cardinality(Inside(node, cur', n)) = Cardinality(Inside(node, cur, n))
    <3>1. /\ w # c /\ cur[c] = nullptr /\ cur'[w] = nullptr /\ cur'[c] = cur[w]
          /\ \A v \in Contexts \ {w, c} : cur'[v] = cur[v]
      BY DEF HandsOff
    <3> SUFFICES ASSUME NEW n
                 PROVE  Cardinality(Inside(node, cur', n)) = Cardinality(Inside(node, cur, n))
      OBVIOUS
    <3> QED  BY <1>1, <3>1, HandedOver
  <2>2. Balanced' <=>
          \A n \in Live :
            LET losses == Cardinality(Inside(node, cur', n))
            IN  \/ node[n].virtual_loss_count = losses
                \/ /\ n = m_root /\ node[n].expand_state = "expanded"
                   /\ node[n].virtual_loss_count = losses - 1
    BY <1>7 DEF Balanced
  <2> QED  BY <1>2, <2>1, <2>2 DEF Balanced
<1> QED  BY <1>3, <1>5, <1>6, <1>7

\* In asynchronous mode the rest of a simulation is left to a callback.
LEMMA SimHandOffStep ==
    ASSUME NEW lev, Inv(lev), ~overtaken, NEW w \in Workers, SimHandOff(w)
    PROVE  Inv(lev)'
<1>1. PICK c \in Callbacks \ InFlight :
         /\ pc' = [pc EXCEPT ![w] = "idle", ![c] = "eval"]
         /\ cur' = [cur EXCEPT ![w] = nullptr, ![c] = cur[w]]
         /\ leaf' = [leaf EXCEPT ![w] = nullptr, ![c] = leaf[w]]
         /\ board' = [board EXCEPT ![w] = 0, ![c] = board[w]]
  BY DEF SimHandOff
<1>2. /\ pc[w] = "eval" /\ w \in active /\ active' = active \ {w}
      /\ UNCHANGED <<owner, enable_async, threads, overtaken, node, m_root, ply, running, sims,
                     queue, freed, sign, due>>
  BY DEF SimHandOff, EndSimulation, config, engineVars
<1>3. w \in Contexts /\ c \in Contexts /\ pc[c] = "idle" /\ w # c
  BY <1>1, TreeAssumption DEF Contexts, InFlight
<1>4. Types /\ NodeTypes /\ (owner = "engine" => active = {})
      /\ (\A v \in Workers : v \in active <=> pc[v] # "idle")
  BY DEF Inv, Types, Working
<1>5. cur[c] = nullptr /\ leaf[c] = nullptr
  BY <1>3 DEF Inv, Working, Placed
<1>6. /\ pc' \in [Contexts -> ProgramCounters]
      /\ cur' \in [Contexts -> DOMAIN node \cup {nullptr}]
      /\ leaf' \in [Contexts -> DOMAIN node \cup {nullptr}]
      /\ board' \in [Contexts -> Nat]
  BY <1>1, <1>3, <1>4 DEF Types, ProgramCounters
<1>7. HandsOff(w, c)
  BY <1>1, <1>2, <1>3, <1>4, <1>5 DEF HandsOff, Types
<1>8. SameLinks(node, node')  BY <1>2 DEF SameLinks
<1>9. Depths(lev)' /\ Live' = Live /\ Waiting' /\ Partition'
  BY <1>2, <1>8, LinksStep
<1>10. /\ \A v \in Contexts : Placed(lev, v)'
       /\ Claims' /\ Begun' /\ Balanced'
  BY <1>1, <1>2, <1>7, <1>9, HandsOffFacts
<1>11. ChildrenBeforeState'
  BY <1>2, <1>9 DEF Inv, ChildrenBeforeState
<1>12. Working(lev)'
  <2>1. ASSUME NEW v \in Workers  PROVE v \in active' <=> pc'[v] # "idle"
    <3>1. v \in Contexts /\ v # c  BY <1>1, TreeAssumption DEF Contexts
    <3> QED  BY <1>2, <1>4, <1>7, <3>1 DEF HandsOff
  <2>2. owner' # "engine"  BY <1>2, <1>4
  <2> QED  BY <1>10, <2>1, <2>2 DEF Working
<1>13. Types'
  <2>1. NodeTypes'  BY <1>2, <1>4 DEF NodeTypes
  <2> QED  BY <1>2, <1>4, <1>6, <2>1 DEF Types
<1> QED  BY <1>9, <1>10, <1>11, <1>12, <1>13 DEF Inv

-----------------------------------------------------------------------------
(* Expand().                                                               *)

\* A sequence over a set is one over a larger set.
LEMMA SeqGrows ==
    ASSUME NEW S, NEW T, S \subseteq T, NEW q \in Seq(S)
    PROVE  q \in Seq(T)
<1>1. q \in [1..Len(q) -> S] /\ Len(q) \in Nat  OBVIOUS
<1>2. q \in [1..Len(q) -> T]  BY <1>1
<1> QED  BY <1>1, <1>2

Children(l) == {Child(l, m) : m \in Moves}

\* The node l gets its children, and r for its record.
Growth(l, r) ==
    /\ node' = [x \in DOMAIN node \cup Children(l) |->
                  IF x = l THEN r ELSE IF x \in Children(l) THEN InitNode(l) ELSE node[x]]
    /\ r \in Records /\ r.ch = Children(l) /\ r.fa = node[l].fa

\* It has none, nobody else has them, and the game goes on there.
CanGrow(lev, l) ==
    /\ l \in Live /\ node[l].ch = {} /\ lev[l] < GameLength
    /\ \A m \in Moves : Child(l, m) \notin DOMAIN node

\* The names of the new children are names of nodes and not taken.
LEMMA NewNames ==
    ASSUME NEW lev, Inv(lev), NEW l, CanGrow(lev, l)
    PROVE  /\ l \in DOMAIN node /\ l \in Nodes
           /\ \A c \in Children(l) :
                 /\ c \in Nodes /\ Len(c[2]) <= lev[l] + 1 /\ c[1] <= m_root[1]
                 /\ \A m \in Moves : Child(c, m) \notin Children(l)
                 /\ c \notin DOMAIN node /\ c # l
<1> DEFINE C == Children(l)
<1>1. GameLength \in Nat  BY ConstantTypes
<1>2. /\ NodeTypes /\ Forest(node, lev) /\ Live \subseteq DOMAIN node
      /\ \A x \in DOMAIN node : Len(x[2]) <= lev[x] /\ x[1] <= m_root[1]
  BY DEF Inv, Types, Depths, Partition
<1>3. l \in DOMAIN node /\ l \in Nodes /\ lev[l] \in 0..GameLength /\ lev[l] < GameLength
      /\ Len(l[2]) <= lev[l] /\ l[1] <= m_root[1]
  BY <1>2 DEF CanGrow, Forest, NodeTypes
<1>4. Len(l[2]) \in Nat /\ Len(l[2]) < GameLength
  <2>1. Len(l[2]) \in Nat  BY <1>3, ChildNames
  <2> DEFINE k == Len(l[2])
  <2>2. k \in Nat /\ k <= lev[l]  BY <1>3, <2>1
  <2> HIDE DEF k
  <2>3. k < GameLength  BY <1>1, <1>3, <2>2
  <2> QED  BY <2>1, <2>3 DEF k
<1>5. ASSUME NEW c \in C
      PROVE  /\ c \in Nodes /\ Len(c[2]) <= lev[l] + 1 /\ c[1] <= m_root[1]
             /\ \A m \in Moves : Child(c, m) \notin C
             /\ c \notin DOMAIN node /\ c # l
  <2>1. PICK m \in Moves : c = Child(l, m)  BY DEF Children
  <2>2. /\ c[1] = l[1] /\ Len(c[2]) = Len(l[2]) + 1 /\ c \in Nodes
    BY <1>3, <1>4, <2>1, ChildNames
  <2>3. c \notin DOMAIN node  BY <2>1 DEF CanGrow
  <2>4. ASSUME NEW k \in Moves, Child(c, k) \in C  PROVE FALSE
    <3>1. PICK j \in Moves : Child(c, k) = Child(l, j)  BY <2>4 DEF Children
    <3>2. c = l  BY <1>3, <2>2, <3>1, ChildNames
    <3> QED  BY <1>3, <2>3, <3>2
  <2>5. Len(c[2]) <= lev[l] + 1
    <3> DEFINE k == Len(l[2])
               j == Len(c[2])
    <3>1. k \in Nat /\ k <= lev[l] /\ j = k + 1 /\ lev[l] \in Nat  BY <1>3, <1>4, <2>2
    <3> HIDE DEF k, j
    <3>2. j <= lev[l] + 1  BY <3>1
    <3> QED  BY <3>2 DEF j
  <2> QED  BY <1>3, <2>2, <2>3, <2>4, <2>5
<1> QED  BY <1>3, <1>5

\* The records after such a step.
LEMMA GrowthFacts ==
    ASSUME NEW lev, Inv(lev), NEW l, NEW r, CanGrow(lev, l), Growth(l, r)
    PROVE  /\ NodeTypes' /\ Grows(node, node', l, Children(l)) /\ node'[l] = r
           /\ \A x \in DOMAIN node : x # l => node'[x] = node[x]
           /\ \A c \in Children(l) :
                 /\ node'[c].expand_state = "unexpanded" /\ node'[c].virtual_loss_count = 0
                 /\ c \in Nodes /\ Len(c[2]) <= lev[l] + 1 /\ c[1] <= m_root[1]
                 /\ \A m \in Moves : Child(c, m) \notin Children(l)
<1> DEFINE C == Children(l)
<1>1. /\ GameLength \in Nat /\ IsFiniteSet(C) /\ nullptr \notin Nodes
  BY ConstantTypes, ChildrenFinite, Names DEF Children
<1>2. NodeTypes  BY DEF Inv, Types
<1>3. l \in DOMAIN node /\ l \in Nodes  BY NewNames
<1>5. ASSUME NEW c \in C
      PROVE  /\ c \in Nodes /\ Len(c[2]) <= lev[l] + 1 /\ c[1] <= m_root[1]
             /\ \A m \in Moves : Child(c, m) \notin C
             /\ c \notin DOMAIN node /\ c # l
  BY NewNames
<1>6. /\ DOMAIN node' = DOMAIN node \cup C /\ node'[l] = r
      /\ \A x \in DOMAIN node : x # l => node'[x] = node[x]
      /\ \A c \in C : node'[c] = InitNode(l)
  BY <1>3, <1>5 DEF Growth
<1>7. /\ InitNode(l) \in Records /\ InitNode(l).ch = {} /\ InitNode(l).fa = l
      /\ InitNode(l).expand_state = "unexpanded" /\ InitNode(l).virtual_loss_count = 0
  BY <1>3 DEF InitNode, Records
<1> HIDE DEF C
<1>8. Grows(node, node', l, C)
  <2>1. C \cap DOMAIN node = {} /\ nullptr \notin C  BY <1>1, <1>5
  <2>2. r.ch = C /\ r.fa = node[l].fa  BY DEF Growth, C
  <2> QED  BY <1>3, <1>5, <1>6, <1>7, <2>1, <2>2 DEF Grows, CanGrow
<1>9. NodeTypes'
  <2>1. DOMAIN node' \subseteq Nodes  BY <1>2, <1>5, <1>6 DEF NodeTypes
  <2>2. ASSUME NEW x \in DOMAIN node'  PROVE node'[x] \in Records /\ IsFiniteSet(node'[x].ch)
    <3>1. CASE x = l  BY <1>1, <1>6, <3>1 DEF Growth, C
    <3>2. CASE x \in C  BY <1>6, <1>7, <3>2, FS_EmptySet
    <3>3. CASE x # l /\ x \notin C  BY <1>2, <1>6, <3>3 DEF NodeTypes
    <3> QED  BY <3>1, <3>2, <3>3
  <2>3. node' = [x \in DOMAIN node' |-> node'[x]]  BY DEF Growth
  <2>4. node' \in [DOMAIN node' -> Records]  BY <2>2, <2>3
  <2> QED  BY <2>1, <2>2, <2>4 DEF NodeTypes
<1> QED  BY <1>5, <1>6, <1>7, <1>8, <1>9 DEF C

\* What the new children leave of the invariant.
LEMMA GrowthTrees ==
    ASSUME NEW lev, Inv(lev), NEW l, NEW r, CanGrow(lev, l), Growth(l, r),
           UNCHANGED <<m_root, ply, queue, freed>>,
           NEW lv, lv = Extended(node, lev, l, Children(l))
    PROVE  /\ Depths(lv)' /\ Waiting' /\ Partition' /\ \A x \in DOMAIN node : lv[x] = lev[x]
           /\ Live' = Live \cup Children(l)
           /\ \A n \in DOMAIN node :
                 TreeOf(node', n) \subseteq TreeOf(node, n) \cup Children(l)
                 /\ TreeOf(node, n) \subseteq TreeOf(node', n)
           /\ \A c \in Children(l) : TreeOf(node', c) = {c}
           /\ queue' \in Seq(DOMAIN node')
<1> DEFINE C == Children(l)
<1>0. lv = Extended(node, lev, l, C)  OBVIOUS
<1>1. /\ NodeTypes' /\ Grows(node, node', l, C)
      /\ \A c \in C : Len(c[2]) <= lev[l] + 1 /\ c[1] <= m_root[1]
  BY GrowthFacts
<1>2. /\ GameLength \in Nat /\ Forest(node, lev) /\ lev[l] < GameLength /\ l \in Live
      /\ DOMAIN node' = DOMAIN node \cup C /\ C \cap DOMAIN node = {}
      /\ \A x \in DOMAIN node : node'[x].fa = node[x].fa
  BY <1>1, ConstantTypes DEF Inv, Depths, CanGrow, Grows
<1>3. /\ Forest(node', lv)
      /\ \A n \in DOMAIN node :
            TreeOf(node', n) = TreeOf(node, n) \cup (IF l \in TreeOf(node, n) THEN C ELSE {})
      /\ \A c \in C : TreeOf(node', c) = {c}
  BY <1>0, <1>1, <1>2, GrownTrees
<1>4. /\ \A x \in DOMAIN node : lv[x] = lev[x]
      /\ \A c \in C : lv[c] = lev[l] + 1
  BY <1>0, <1>2 DEF Extended
<1>5. /\ m_root \in DOMAIN node /\ m_root[2] = <<>> /\ node[m_root].fa = nullptr
      /\ lev[m_root] = ply
      /\ \A x \in DOMAIN node : Len(x[2]) <= lev[x] /\ x[1] <= m_root[1]
  BY DEF Inv, Depths
<1> HIDE DEF C
<1>6. Depths(lv)'
  <2>1. \A x \in DOMAIN node' : Len(x[2]) <= lv[x] /\ x[1] <= m_root[1]
    BY <1>1, <1>2, <1>4, <1>5
  <2> QED  BY <1>2, <1>3, <1>4, <1>5, <2>1 DEF Depths
<1>7. Waiting' /\ queue' \in Seq(DOMAIN node')
  <2>1. queue \in Seq(DOMAIN node)  BY DEF Inv, Types
  <2>2. queue \in Seq(DOMAIN node')  BY <1>2, <2>1, SeqGrows
  <2>3. \A i \in DOMAIN queue : node'[queue[i]].fa = nullptr
    BY <1>2, <2>1 DEF Inv, Waiting
  <2> QED  BY <2>2, <2>3 DEF Inv, Waiting
<1>8. Live = TreeOf(node, m_root) /\ Live' = TreeOf(node', m_root)
  BY SubtreeIsTree, SubtreeIsTreeNext DEF Live
<1>9. Live' = Live \cup C  BY <1>2, <1>3, <1>5, <1>8
<1>10. Partition'
  <2>1. DOMAIN node = Live \cup Queued \cup freed /\ Live \cap (Queued \cup freed) = {}
        /\ Queued \cap freed = {}
    BY DEF Inv, Partition
  <2>2. ASSUME NEW i \in DOMAIN queue
        PROVE  TreeOf(node', queue'[i]) = TreeOf(node, queue[i])
    <3>1. queue[i] \in DOMAIN node  BY DEF Inv, Types
    <3>2. TreeOf(node, queue[i]) \subseteq Queued  BY SubtreeIsTree DEF Queued
    <3>3. l \notin TreeOf(node, queue[i])  BY <1>2, <2>1, <3>2
    <3> QED  BY <1>3, <3>1, <3>3
  <2>3. Queued = UNION {TreeOf(node, queue[i]) : i \in DOMAIN queue}
    BY SubtreeIsTree DEF Queued
  <2>4. Queued' = UNION {TreeOf(node', queue'[i]) : i \in DOMAIN queue'}
    BY DEF Queued, Subtree, TreeOf
  <2>5. Queued' = Queued  BY <2>2, <2>3, <2>4
  <2> QED  BY <1>2, <1>9, <2>1, <2>5 DEF Partition
<1> QED  BY <1>3, <1>4, <1>6, <1>7, <1>9, <1>10 DEF C

\* And of what concerns the expand states and the contexts, which stay where they are.
LEMMA GrowthInside ==
    ASSUME NEW lev, Inv(lev), ~overtaken, NEW l, NEW r, CanGrow(lev, l), Growth(l, r),
           UNCHANGED <<m_root, ply, queue, freed, cur>>
    PROVE  /\ \A n \in DOMAIN node : Inside(node', cur', n) = Inside(node, cur, n)
           /\ \A c \in Children(l) : Inside(node', cur', c) = {}
<1>1. /\ \A n \in DOMAIN node :
            TreeOf(node', n) \subseteq TreeOf(node, n) \cup Children(l)
            /\ TreeOf(node, n) \subseteq TreeOf(node', n)
      /\ \A c \in Children(l) : TreeOf(node', c) = {c}
  <2>1. \E lv : lv = Extended(node, lev, l, Children(l))  OBVIOUS
  <2> QED  BY <2>1, GrowthTrees
<1>2. \A w \in Contexts : cur[w] \notin Children(l)
  <2>1. \A w \in Contexts : cur[w] \in DOMAIN node \cup {nullptr}  BY DEF Inv, Types
  <2>2. Children(l) \cap DOMAIN node = {} /\ nullptr \notin Children(l)
    BY GrowthFacts DEF Grows
  <2> QED  BY <2>1, <2>2
<1> QED  BY <1>1, <1>2 DEF Inside

\* Expand() of a claimed leaf.
LEMMA SimExpandStep ==
    ASSUME NEW lev, Inv(lev), ~overtaken, NEW w \in Contexts, SimExpand(w)
    PROVE  \E lv : Inv(lv)'
<1> DEFINE l == leaf[w]
<1>1. /\ pc[w] = "expand" /\ pc' = [pc EXCEPT ![w] = "publish"] /\ board[w] < GameLength
      /\ node' = WithChildren(l)
      /\ UNCHANGED <<owner, active, enable_async, threads, m_root, ply, running, sims, queue,
                     freed, cur, leaf, board, sign, overtaken, due>>
  BY DEF SimExpand, Goto, phases, config, engineVars
<1>2. /\ Types /\ NodeTypes /\ Placed(lev, w) /\ Live \subseteq DOMAIN node
      /\ (owner = "engine" => active = {}) /\ m_root \in Live
      /\ \A v \in Contexts : Placed(lev, v)
      /\ \A v \in Workers : v \in active <=> pc[v] # "idle"
  BY InvFacts DEF Inv, Working
<1>3. Claims /\ Begun /\ Balanced /\ ChildrenBeforeState  BY DEF Inv
<1>4. l \in Live /\ cur[w] = l /\ board[w] = lev[l] /\ l \in DOMAIN node
  BY <1>1, <1>2 DEF Placed, Claiming
<1>5. node[l].expand_state = "expanding"  BY <1>1, <1>3 DEF Claims, Claiming
<1>6. CanGrow(lev, l)
  <2>1. \A v \in Contexts : ~(pc[v] = "publish" /\ leaf[v] = l)
    BY <1>1, <1>3 DEF Claims, Claiming
  <2>2. node[l].ch = {} /\ \A m \in Moves : Child(l, m) \notin DOMAIN node
    <3> HIDE DEF l
    <3> QED  BY <1>3, <1>4, <1>5, <2>1 DEF Begun
  <2> QED  BY <1>1, <1>4, <2>2 DEF CanGrow
<1>7. \E r : Growth(l, r) /\ r.expand_state = node[l].expand_state
             /\ r.virtual_loss_count = node[l].virtual_loss_count
  <2> DEFINE r == [node[l] EXCEPT !.ch = Children(l)]
             q == node[l]
  <2>1. q \in Records  BY <1>2, <1>4 DEF NodeTypes
  <2>2. Children(l) \in SUBSET Nodes  BY <1>6, NewNames
  <2>3. r \in Records /\ r.ch = Children(l) /\ r.fa = node[l].fa
        /\ r.expand_state = node[l].expand_state
        /\ r.virtual_loss_count = node[l].virtual_loss_count
    <3> DEFINE C == Children(l)
    <3> HIDE DEF q, C
    <3>1. [q EXCEPT !.ch = C] \in Records /\ [q EXCEPT !.ch = C].ch = C
          /\ [q EXCEPT !.ch = C].fa = q.fa
          /\ [q EXCEPT !.ch = C].expand_state = q.expand_state
          /\ [q EXCEPT !.ch = C].virtual_loss_count = q.virtual_loss_count
      BY <2>1, <2>2 DEF Records, C
    <3> QED  BY <3>1 DEF q, C
  <2>4. node' = [x \in DOMAIN node \cup Children(l) |->
                   IF x = l THEN r ELSE IF x \in Children(l) THEN InitNode(l) ELSE node[x]]
    BY <1>1 DEF WithChildren, Children
  <2> HIDE DEF r
  <2> QED  BY <2>3, <2>4 DEF Growth
<1>8. PICK r : /\ Growth(l, r) /\ r.expand_state = node[l].expand_state
               /\ r.virtual_loss_count = node[l].virtual_loss_count
  BY <1>7
<1>9. \E lv : lv = Extended(node, lev, l, Children(l))  OBVIOUS
<1>10. PICK lv : lv = Extended(node, lev, l, Children(l))  BY <1>9
<1> HIDE DEF l
<1>11. /\ Depths(lv)' /\ Waiting' /\ Partition' /\ \A x \in DOMAIN node : lv[x] = lev[x]
       /\ Live' = Live \cup Children(l) /\ queue' \in Seq(DOMAIN node')
  BY <1>1, <1>6, <1>8, <1>10, GrowthTrees
<1>12. /\ NodeTypes' /\ Grows(node, node', l, Children(l)) /\ node'[l] = r
       /\ \A x \in DOMAIN node : x # l => node'[x] = node[x]
       /\ \A c \in Children(l) :
             /\ node'[c].expand_state = "unexpanded" /\ node'[c].virtual_loss_count = 0
             /\ c \in Nodes /\ \A m \in Moves : Child(c, m) \notin Children(l)
  BY <1>6, <1>8, GrowthFacts
<1>13. /\ DOMAIN node' = DOMAIN node \cup Children(l) /\ node'[l].ch = Children(l)
       /\ Children(l) # {} /\ \A c \in Children(l) : node'[c].ch = {} /\ c \notin DOMAIN node
  BY <1>12, ChildrenFinite DEF Grows, Children
<1>14. \A x \in DOMAIN node : /\ node'[x].expand_state = node[x].expand_state
                              /\ node'[x].virtual_loss_count = node[x].virtual_loss_count
  BY <1>8, <1>12
<1>15. Types'
  <2>1. /\ freed' \subseteq DOMAIN node'
        /\ cur' \in [Contexts -> DOMAIN node' \cup {nullptr}]
        /\ leaf' \in [Contexts -> DOMAIN node' \cup {nullptr}]
        /\ pc' \in [Contexts -> ProgramCounters]
    BY <1>1, <1>2, <1>13 DEF Types, ProgramCounters
  <2> QED  BY <1>1, <1>2, <1>11, <1>12, <2>1 DEF Types
<1>16. ChildrenBeforeState'
  <2> SUFFICES ASSUME NEW n \in Live', node'[n].expand_state = "expanded"
               PROVE  node'[n].ch # {}
    BY DEF ChildrenBeforeState
  <2>1. n \in Live /\ n \in DOMAIN node /\ n # l
    BY <1>2, <1>4, <1>5, <1>11, <1>12, <1>14 DEF l
  <2> QED  BY <1>3, <1>12, <1>14, <2>1 DEF ChildrenBeforeState
<1>17. /\ pc'[w] = "publish"
       /\ \A v \in Contexts \ {w} : pc'[v] = pc[v]
       /\ \A v \in Contexts : cur'[v] = cur[v] /\ leaf'[v] = leaf[v] /\ board'[v] = board[v]
  BY <1>1, <1>2 DEF Types
<1>18. Working(lv)'
  <2>1. ASSUME NEW v \in Contexts, v # w  PROVE Placed(lv, v)'
    <3>1. pc'[v] = pc[v] /\ cur'[v] = cur[v] /\ leaf'[v] = leaf[v] /\ board'[v] = board[v]
      BY <1>17, <2>1
    <3>2. Placed(lev, v)  BY <1>2
    <3>3. Live \subseteq Live' /\ \A x \in Live : x \in DOMAIN node /\ lv[x] = lev[x]
      BY <1>2, <1>11
    <3>4. pc[v] = "publish" => node'[leaf[v]].ch # {}
      <4>1. pc[v] = "publish" => leaf[v] \in DOMAIN node /\ node[leaf[v]].ch # {}
        BY <1>2, <3>2 DEF Placed, Claiming
      <4>2. \A x \in DOMAIN node : node[x].ch # {} => node'[x].ch # {}
        BY <1>12, <1>13
      <4> QED  BY <4>1, <4>2
    <3> QED  BY <3>1, <3>2, <3>3, <3>4 DEF Placed
  <2>2. Placed(lv, w)'
    <3>1. lv[l] = lev[l] /\ l \in Live' /\ node'[l].ch # {}  BY <1>4, <1>11, <1>13 DEF l
    <3> QED  BY <1>4, <1>17, <3>1 DEF Placed, Claiming, l
  <2>3. ASSUME NEW v \in Workers  PROVE v \in active' <=> pc'[v] # "idle"
    BY <1>1, <1>2, <1>17 DEF Contexts
  <2> QED  BY <1>1, <1>2, <2>1, <2>2, <2>3 DEF Working
<1>19. Begun'
  <2>1. ASSUME NEW x \in DOMAIN node',
               node'[x].ch # {} \/ (\E m \in Moves : Child(x, m) \in DOMAIN node')
        PROVE  \/ node'[x].expand_state = "expanded"
               \/ \E v \in Contexts : pc'[v] = "publish" /\ leaf'[v] = x
    <3>1. CASE x = l  BY <1>17, <3>1 DEF l
    <3>2. CASE x \in Children(l)
      BY <1>3, <1>12, <1>13, <2>1, <3>2 DEF Begun
    <3>3. CASE x \in DOMAIN node /\ x # l
      <4>1. \A m \in Moves : Child(x, m) \in Children(l) => x = l
        BY <1>2, <1>6, <3>3, NewNames, ChildNames DEF NodeTypes, Children
      <4>2. node[x].ch # {} \/ (\E m \in Moves : Child(x, m) \in DOMAIN node)
        BY <1>12, <1>13, <2>1, <3>3, <4>1
      <4>3. \/ node[x].expand_state = "expanded"
            \/ \E v \in Contexts : pc[v] = "publish" /\ leaf[v] = x
        BY <1>3, <3>3, <4>2 DEF Begun
      <4> QED  BY <1>1, <1>14, <1>17, <3>3, <4>3
    <3> QED  BY <1>13, <3>1, <3>2, <3>3
  <2>2. ASSUME NEW x \in Nodes, NEW m \in Moves, Child(x, m) \in DOMAIN node'
        PROVE  x \in DOMAIN node'
    <3>1. CASE Child(x, m) \in DOMAIN node  BY <1>3, <1>13, <3>1 DEF Begun
    <3>2. CASE Child(x, m) \in Children(l)
      <4>1. x = l  BY <1>6, <3>2, NewNames, ChildNames DEF Children
      <4> QED  BY <1>4, <1>13, <4>1 DEF l
    <3> QED  BY <1>13, <2>2, <3>1, <3>2
  <2> QED  BY <2>1, <2>2 DEF Begun, Child
<1>20. Claims'
  <2>1. \A v \in Contexts : pc'[v] \in Claiming <=> pc[v] \in Claiming
    BY <1>1, <1>17 DEF Claiming
  <2>2. \A v \in Contexts : pc[v] \in Claiming => leaf[v] \in DOMAIN node
    BY <1>2 DEF Placed
  <2>3. \A n \in Live' : node'[n].expand_state = "expanding" =>
           n \in Live /\ node[n].expand_state = "expanding"
    BY <1>2, <1>11, <1>12, <1>14
  <2> QED  BY <1>3, <1>14, <1>17, <2>1, <2>2, <2>3 DEF Claims
<1>21. Balanced'
  <2>1. /\ \A n \in DOMAIN node : Inside(node', cur', n) = Inside(node, cur, n)
        /\ \A c \in Children(l) : Inside(node', cur', c) = {}
    BY <1>1, <1>6, <1>8, GrowthInside
  <2>2. \A c \in Children(l) :
           node'[c].virtual_loss_count = Cardinality(Inside(node', cur', c))
    BY <1>12, <2>1, FS_EmptySet
  <2>3. ASSUME NEW n \in Live
        PROVE  LET losses == Cardinality(Inside(node', cur', n))
               IN  \/ node'[n].virtual_loss_count = losses
                   \/ /\ n = m_root' /\ node'[n].expand_state = "expanded"
                      /\ node'[n].virtual_loss_count = losses - 1
    BY <1>1, <1>2, <1>3, <1>14, <2>1 DEF Balanced
  <2> QED  BY <1>11, <2>2, <2>3 DEF Balanced
<1>22. Inv(lv)'
  BY <1>1, <1>11, <1>15, <1>16, <1>18, <1>19, <1>20, <1>21 DEF Inv
<1> QED  BY <1>22

-----------------------------------------------------------------------------
(* The steps of the calling thread.                                        *)

\* Between two searches, and with no evaluation in flight, nobody is in the tree.
LEMMA Quiescent ==
    ASSUME NEW lev, Inv(lev), ~overtaken, owner = "engine", InFlight = {}
    PROVE  /\ \A v \in Contexts : pc[v] = "idle" /\ cur[v] = nullptr /\ leaf[v] = nullptr
           /\ \A nd, n : Inside(nd, cur, n) = {}
           /\ \A n \in Live : node[n].expand_state # "expanding"
<1>1. ASSUME NEW v \in Contexts  PROVE pc[v] = "idle" /\ cur[v] = nullptr /\ leaf[v] = nullptr
  <2>1. pc[v] = "idle"
    <3>1. CASE v \in Callbacks  BY <3>1 DEF InFlight
    <3>2. CASE v \in Workers  BY <3>2 DEF Inv, Working
    <3> QED  BY <3>1, <3>2 DEF Contexts
  <2> QED  BY <2>1 DEF Inv, Working, Placed
<1>2. \A nd, n : Inside(nd, cur, n) = {}  BY <1>1 DEF Inside
<1>3. \A n \in Live : node[n].expand_state # "expanding"
  BY <1>1 DEF Inv, Claims, Claiming
<1> QED  BY <1>1, <1>2, <1>3

\* InitRoot() expands the root, which is one virtual loss short from then on.
LEMMA InitRootStep ==
    ASSUME NEW lev, Inv(lev), ~overtaken, InitRoot
    PROVE  \E lv : Inv(lv)'
<1> DEFINE l == m_root
<1>1. /\ owner = "engine" /\ InFlight = {} /\ ply < GameLength
      /\ node[l].expand_state = "unexpanded"
      /\ UNCHANGED <<owner, active, enable_async, threads, m_root, ply, running, sims, queue,
                     freed, pc, cur, leaf, board, sign, overtaken, due>>
  BY DEF InitRoot, phases, config, engineVars, locals
<1>2. PICK v \in Values :
         node' = [WithChildren(l) EXCEPT
                    ![l] = [BackedUp(@, v, Cardinality(Moves)) EXCEPT
                              !.expand_state = "expanded", !.value = v]]
  BY Zenon DEF InitRoot
<1>3. /\ Types /\ NodeTypes /\ Live \subseteq DOMAIN node /\ l \in DOMAIN node /\ lev[l] = ply
      /\ Begun /\ Balanced /\ ChildrenBeforeState /\ Working(lev)
  BY DEF Inv, Types, Depths, Partition
<1>4. /\ \A c \in Contexts : pc[c] = "idle" /\ cur[c] = nullptr /\ leaf[c] = nullptr
      /\ \A nd, n : Inside(nd, cur, n) = {}
      /\ \A n \in Live : node[n].expand_state # "expanding"
  BY <1>1, Quiescent
<1>5. l \in Live
  <2>1. l \in TreeOf(node, l)  BY <1>3, ConstantTypes, TreeClosed DEF Inv, Depths
  <2> QED  BY <2>1, SubtreeIsTree DEF Live
<1>6. CanGrow(lev, l)
  <2>1. node[l].ch = {} /\ \A m \in Moves : Child(l, m) \notin DOMAIN node
    <3> HIDE DEF l
    <3> QED  BY <1>1, <1>3, <1>4 DEF Begun
  <2> QED  BY <1>1, <1>3, <1>5, <2>1 DEF CanGrow
<1>7. \E r : /\ Growth(l, r) /\ r.expand_state = "expanded"
             /\ r.virtual_loss_count = node[l].virtual_loss_count - 1
  <2> DEFINE q == node[l]
             C == Children(l)
             k == Cardinality(Moves)
             b == [q EXCEPT !.ch = C]
             u == BackedUp(b, v, k)
             e == [u EXCEPT !.expand_state = "expanded"]
             r == [e EXCEPT !.value = v]
  <2>1. q \in Records /\ C \in SUBSET Nodes /\ k \in Nat /\ v \in Int
    <3>1. C \in SUBSET Nodes  BY <1>6, NewNames
    <3>2. k \in Nat  BY ConstantTypes, FS_CardinalityType
    <3>3. v \in Int  BY ConstantTypes
    <3>4. q \in Records  BY <1>3 DEF NodeTypes
    <3> QED  BY <3>1, <3>2, <3>3, <3>4
  <2>2. b \in Records /\ b.ch = C /\ b.fa = q.fa
        /\ b.virtual_loss_count = q.virtual_loss_count
    <3> HIDE DEF q, C
    <3> QED  BY <2>1 DEF Records
  <2>3. node' = [WithChildren(l) EXCEPT ![l] = r]
    <3>1. WithChildren(l)[l] = b  BY <1>3 DEF WithChildren, Children
    <3> QED  BY <1>2, <3>1
  <2>4. node' = [x \in DOMAIN node \cup C |->
                   IF x = l THEN r ELSE IF x \in C THEN InitNode(l) ELSE node[x]]
    <3> HIDE DEF r
    <3> QED  BY <1>3, <2>3 DEF WithChildren, Children
  <2> HIDE DEF b, k
  <2>5. u \in Records /\ u.ch = C /\ u.fa = q.fa
        /\ u.virtual_loss_count = q.virtual_loss_count - 1
    <3>1. u \in Records /\ u.ch = b.ch /\ u.fa = b.fa
          /\ u.virtual_loss_count = b.virtual_loss_count - 1
      BY <2>1, <2>2, BackedUpTypes
    <3> HIDE DEF u, q, C
    <3> QED  BY <2>2, <3>1
  <2> HIDE DEF u
  <2>6. e \in Records /\ e.ch = u.ch /\ e.fa = u.fa /\ e.expand_state = "expanded"
        /\ e.virtual_loss_count = u.virtual_loss_count
    BY <2>5, FieldTypes
  <2> HIDE DEF e
  <2>7. r \in Records /\ r.ch = e.ch /\ r.fa = e.fa /\ r.expand_state = e.expand_state
        /\ r.virtual_loss_count = e.virtual_loss_count
    BY <2>1, <2>6, FieldTypes
  <2> HIDE DEF r
  <2>8. r.ch = C /\ r.fa = q.fa /\ r.expand_state = "expanded"
        /\ r.virtual_loss_count = q.virtual_loss_count - 1
    <3> HIDE DEF q, C
    <3> QED  BY <2>5, <2>6, <2>7
  <2>9. Growth(l, r)  BY <2>4, <2>7, <2>8 DEF Growth
  <2> QED  BY <2>8, <2>9
<1>8. PICK r : /\ Growth(l, r) /\ r.expand_state = "expanded"
               /\ r.virtual_loss_count = node[l].virtual_loss_count - 1
  BY <1>7
<1>9. \E lv : lv = Extended(node, lev, l, Children(l))  OBVIOUS
<1>10. PICK lv : lv = Extended(node, lev, l, Children(l))  BY <1>9
<1> HIDE DEF l
<1>11. /\ Depths(lv)' /\ Waiting' /\ Partition'
       /\ Live' = Live \cup Children(l) /\ queue' \in Seq(DOMAIN node')
  BY <1>1, <1>6, <1>8, <1>10, GrowthTrees
<1>12. /\ NodeTypes' /\ Grows(node, node', l, Children(l)) /\ node'[l] = r
       /\ \A x \in DOMAIN node : x # l => node'[x] = node[x]
       /\ \A c \in Children(l) :
             /\ node'[c].expand_state = "unexpanded" /\ node'[c].virtual_loss_count = 0
             /\ c \in Nodes /\ \A m \in Moves : Child(c, m) \notin Children(l)
  BY <1>6, <1>8, GrowthFacts
<1>13. /\ DOMAIN node' = DOMAIN node \cup Children(l) /\ node'[l].ch = Children(l)
       /\ Children(l) # {} /\ \A c \in Children(l) : node'[c].ch = {} /\ c \notin DOMAIN node
  BY <1>12, ChildrenFinite DEF Grows, Children
<1>14. Types'
  <2>1. /\ freed' \subseteq DOMAIN node'
        /\ cur' \in [Contexts -> DOMAIN node' \cup {nullptr}]
        /\ leaf' \in [Contexts -> DOMAIN node' \cup {nullptr}]
    BY <1>1, <1>3, <1>13 DEF Types
  <2> QED  BY <1>1, <1>3, <1>11, <1>12, <2>1 DEF Types
<1>15. ChildrenBeforeState'
  <2> SUFFICES ASSUME NEW n \in Live', node'[n].expand_state = "expanded"
               PROVE  node'[n].ch # {}
    BY DEF ChildrenBeforeState
  <2>1. CASE n = l  BY <1>13, <2>1
  <2>2. CASE n # l
    <3>1. n \in Live /\ n \in DOMAIN node  BY <1>3, <1>11, <1>12, <2>2
    <3> QED  BY <1>3, <1>12, <2>2, <3>1 DEF ChildrenBeforeState
  <2> QED  BY <2>1, <2>2
<1>16. \A c \in Contexts : pc'[c] = "idle" /\ cur'[c] = nullptr /\ leaf'[c] = nullptr
  BY <1>1, <1>4
<1>17. Working(lv)'
  <2>1. \A c \in Contexts : Placed(lv, c)'  BY <1>16 DEF Placed, Claiming
  <2> QED  BY <1>1, <1>3, <2>1 DEF Working
<1>18. Begun'
  <2>1. ASSUME NEW x \in DOMAIN node',
               node'[x].ch # {} \/ (\E m \in Moves : Child(x, m) \in DOMAIN node')
        PROVE  node'[x].expand_state = "expanded"
    <3>1. CASE x = l  BY <1>8, <1>12, <3>1
    <3>2. CASE x \in Children(l)
      BY <1>3, <1>12, <1>13, <2>1, <3>2 DEF Begun
    <3>3. CASE x \in DOMAIN node /\ x # l
      <4>1. \A m \in Moves : Child(x, m) \in Children(l) => x = l
        BY <1>3, <1>6, <3>3, NewNames, ChildNames DEF NodeTypes, Children
      <4>2. node[x].ch # {} \/ (\E m \in Moves : Child(x, m) \in DOMAIN node)
        BY <1>12, <1>13, <2>1, <3>3, <4>1
      <4>3. node[x].expand_state = "expanded"
        BY <1>3, <1>4, <3>3, <4>2 DEF Begun
      <4> QED  BY <1>12, <3>3, <4>3
    <3> QED  BY <1>13, <3>1, <3>2, <3>3
  <2>2. ASSUME NEW x \in Nodes, NEW m \in Moves, Child(x, m) \in DOMAIN node'
        PROVE  x \in DOMAIN node'
    <3>1. CASE Child(x, m) \in DOMAIN node  BY <1>3, <1>13, <3>1 DEF Begun
    <3>2. CASE Child(x, m) \in Children(l)
      <4>1. x = l  BY <1>6, <3>2, NewNames, ChildNames DEF Children
      <4> QED  BY <1>3, <1>13, <4>1 DEF l
    <3> QED  BY <1>13, <2>2, <3>1, <3>2
  <2> QED  BY <2>1, <2>2 DEF Begun, Child
<1>19. Claims'
  <2>1. \A n \in Live' : node'[n].expand_state # "expanding"
    BY <1>3, <1>4, <1>8, <1>11, <1>12
  <2> QED  BY <1>16, <2>1 DEF Claims, Claiming
<1>20. Balanced'
  <2>1. \A n : Cardinality(Inside(node', cur', n)) = 0 /\ Cardinality(Inside(node, cur, n)) = 0
    BY <1>1, <1>4, FS_EmptySet
  <2>2. \A n \in Live : n # l => node[n].virtual_loss_count = 0
    BY <1>3, <2>1 DEF Balanced, l
  <2>3. node[l].virtual_loss_count = 0
    BY <1>1, <1>3, <1>5, <2>1 DEF Balanced
  <2>4. ASSUME NEW n \in Live'
        PROVE  \/ node'[n].virtual_loss_count = 0
               \/ /\ n = m_root' /\ node'[n].expand_state = "expanded"
                  /\ node'[n].virtual_loss_count = 0 - 1
    <3>1. CASE n = l  BY <1>1, <1>8, <1>12, <2>3, <3>1 DEF l
    <3>2. CASE n \in Children(l)  BY <1>12, <3>2
    <3>3. CASE n \in Live /\ n # l  BY <1>3, <1>12, <2>2, <3>3
    <3> QED  BY <1>11, <3>1, <3>2, <3>3
  <2> QED  BY <2>1, <2>4 DEF Balanced
<1>21. Inv(lv)'
  BY <1>1, <1>11, <1>14, <1>15, <1>17, <1>18, <1>19, <1>20 DEF Inv
<1> QED  BY <1>21

\* Nobody moves in the tree, and the tree stays as it is.
LEMMA CalmContexts ==
    ASSUME NEW lev, Inv(lev), ~overtaken,
           UNCHANGED <<node, m_root, ply, pc, cur, leaf, board, active>>,
           owner' = "engine" => active = {}
    PROVE  Working(lev)' /\ Begun' /\ Claims' /\ Balanced' /\ Live' = Live
<1>1. Live' = Live  BY SubtreeIsTree, SubtreeIsTreeNext DEF Live
<1>2. Working(lev)'
  <2>1. \A w \in Contexts : Placed(lev, w)'  BY <1>1 DEF Inv, Working, Placed
  <2> QED  BY <2>1 DEF Inv, Working
<1>3. Begun'  BY DEF Inv, Begun, Child
<1>4. Claims'  BY <1>1 DEF Inv, Claims
<1>5. Balanced'
  <2>1. \A n : Inside(node', cur', n) = Inside(node, cur, n)  BY DEF Inside
  <2> QED  BY <1>1, <2>1 DEF Inv, Balanced
<1> QED  BY <1>1, <1>2, <1>3, <1>4, <1>5

\* And no tree waits or goes.
LEMMA CalmStep ==
    ASSUME NEW lev, Inv(lev), Types',
           UNCHANGED <<node, m_root, ply, queue, freed, pc, cur, leaf, board, overtaken>>,
           ~overtaken => UNCHANGED active /\ (owner' = "engine" => active = {})
    PROVE  Inv(lev)'
<1>1. Depths(lev)' /\ Waiting'  BY DEF Inv, Depths, Waiting
<1>2. Live' = Live /\ Queued' = Queued
  BY SubtreeIsTree, SubtreeIsTreeNext DEF Live, Queued, Subtree, TreeOf
<1>3. Partition' /\ ChildrenBeforeState'
  BY <1>2 DEF Inv, Partition, ChildrenBeforeState
<1>4. ASSUME ~overtaken  PROVE Working(lev)' /\ Begun' /\ Claims' /\ Balanced'
  BY <1>4, CalmContexts
<1> QED  BY <1>1, <1>3, <1>4 DEF Inv

\* SearchResume() gives the tree to the search threads.
LEMMA SearchResumeStep ==
    ASSUME NEW lev, Inv(lev), ~overtaken, SearchResume
    PROVE  Inv(lev)'
<1>1. Types'
  BY DEF Inv, Types, NodeTypes, SearchResume, HandOver, config, locals
<1> QED
  BY <1>1, CalmStep DEF SearchResume, HandOver, config, locals

\* SearchPause() asks for it ...
LEMMA SearchPauseSetStep ==
    ASSUME NEW lev, Inv(lev), ~overtaken, SearchPauseSet
    PROVE  Inv(lev)'
<1>1. Types'
  BY DEF Inv, Types, NodeTypes, SearchPauseSet, phases, config, locals
<1> QED
  BY <1>1, CalmStep DEF SearchPauseSet, phases, config, locals

\* ... and takes it back once no search thread is in a simulation.
LEMMA SearchPauseJoinStep ==
    ASSUME NEW lev, Inv(lev), ~overtaken, SearchPauseJoin
    PROVE  Inv(lev)'
<1>1. Types'
  BY DEF Inv, Types, NodeTypes, SearchPauseJoin, TakeBack, config, engineVars, locals
<1> QED
  BY <1>1, CalmStep DEF SearchPauseJoin, TakeBack, config, engineVars, locals

\* A new root, empty or in the place of a node of the tree, while nobody is in it.
Replanted(root) ==
    /\ root \notin DOMAIN node /\ DOMAIN node' = DOMAIN node \cup {root}
    /\ root[2] = <<>> /\ root \in Nodes
    /\ \A x \in DOMAIN node :
          /\ node'[x].expand_state = node[x].expand_state
          /\ node'[x].virtual_loss_count = node[x].virtual_loss_count
          /\ node'[x].ch # {} => node[x].ch # {}
    /\ \/ /\ node'[root].expand_state = "unexpanded" /\ node'[root].ch = {}
          /\ node'[root].virtual_loss_count = 0
       \/ \E n \in Live \ {m_root} :
             /\ node'[root].expand_state = node[n].expand_state /\ node'[root].ch = node[n].ch
             /\ node'[root].virtual_loss_count = node[n].virtual_loss_count
    /\ Live' \subseteq {root} \cup (Live \ {m_root})

\* Then nothing in the new tree is claimed, and no virtual loss is left on it.
LEMMA ReplantedStep ==
    ASSUME NEW lev, Inv(lev), ~overtaken, owner = "engine", InFlight = {}, NEW root,
           Replanted(root), UNCHANGED <<owner, active, pc, cur, leaf, board>>, NEW lv
    PROVE  Working(lv)' /\ Begun' /\ Claims' /\ Balanced'
<1>1. /\ \A v \in Contexts : pc[v] = "idle" /\ cur[v] = nullptr /\ leaf[v] = nullptr
      /\ \A nd, n : Inside(nd, cur, n) = {}
      /\ \A n \in Live : node[n].expand_state # "expanding"
  BY Quiescent
<1>2. /\ Live \subseteq DOMAIN node /\ DOMAIN node \subseteq Nodes
      /\ Working(lev) /\ Begun /\ Balanced
  BY DEF Inv, Partition, Types, NodeTypes
<1>3. \A v \in Contexts : pc'[v] = "idle" /\ cur'[v] = nullptr /\ leaf'[v] = nullptr
  BY <1>1
<1>4. Working(lv)'
  <2>1. \A v \in Contexts : Placed(lv, v)'  BY <1>3 DEF Placed, Claiming
  <2> QED  BY <1>2, <2>1 DEF Working
<1>5. \A x \in DOMAIN node :
         node[x].ch # {} \/ (\E m \in Moves : Child(x, m) \in DOMAIN node) =>
            node[x].expand_state = "expanded"
  BY <1>1, <1>2 DEF Begun
<1>6. \A x \in Nodes, m \in Moves :
         Child(x, m) \in DOMAIN node' => Child(x, m) \in DOMAIN node /\ x \in DOMAIN node
  <2>1. \A x \in Nodes, m \in Moves : Child(x, m) # root
    BY ChildNames DEF Replanted
  <2> QED  BY <1>2, <2>1 DEF Replanted, Begun
<1>7. Begun'
  <2>1. ASSUME NEW x \in DOMAIN node',
               node'[x].ch # {} \/ (\E m \in Moves : Child(x, m) \in DOMAIN node')
        PROVE  node'[x].expand_state = "expanded"
    <3>1. CASE x = root
      <4>1. \A m \in Moves : Child(x, m) \notin DOMAIN node'
        BY <1>6, <3>1 DEF Replanted
      <4> QED  BY <1>2, <1>5, <2>1, <3>1, <4>1 DEF Replanted
    <3>2. CASE x \in DOMAIN node
      BY <1>2, <1>5, <1>6, <2>1, <3>2 DEF Replanted
    <3> QED  BY <3>1, <3>2 DEF Replanted
  <2>2. \A x \in Nodes, m \in Moves : Child(x, m) \in DOMAIN node' => x \in DOMAIN node'
    BY <1>6 DEF Replanted
  <2> QED  BY <2>1, <2>2 DEF Begun, Child
<1>8. Claims'
  <2>1. \A n \in Live' : node'[n].expand_state # "expanding"
    BY <1>1, <1>2 DEF Replanted
  <2> QED  BY <1>3, <2>1 DEF Claims, Claiming
<1>9. Balanced'
  <2>1. \A nd, n : Cardinality(Inside(nd, cur, n)) = 0  BY <1>1, FS_EmptySet
  <2>2. \A n \in Live \ {m_root} : node[n].virtual_loss_count = 0
    BY <1>2, <2>1 DEF Balanced
  <2>3. \A n \in Live' : node'[n].virtual_loss_count = 0
    BY <1>2, <2>2 DEF Replanted
  <2>4. \A n : Cardinality(Inside(node', cur', n)) = 0  BY <2>1
  <2> QED  BY <2>3, <2>4 DEF Balanced
<1> QED  BY <1>4, <1>7, <1>8, <1>9

\* The elements of a sequence with one more at its end.
LEMMA AppendFacts ==
    ASSUME NEW S, NEW q \in Seq(S), NEW x \in S, NEW t, t = Append(q, x)
    PROVE  /\ t \in Seq(S) /\ Len(q) + 1 \in DOMAIN t /\ t[Len(q) + 1] = x
           /\ \A i \in DOMAIN q : i \in DOMAIN t /\ t[i] = q[i] /\ i # Len(q) + 1
           /\ \A i \in DOMAIN t : i \in DOMAIN q \/ i = Len(q) + 1
<1>1. /\ Len(q) \in Nat /\ DOMAIN q = 1..Len(q) /\ t \in Seq(S) /\ Len(t) = Len(q) + 1
      /\ DOMAIN t = 1..(Len(q) + 1)
  OBVIOUS
<1>2. \A i \in 1..Len(q) : t[i] = q[i]  OBVIOUS
<1>3. t[Len(q) + 1] = x  OBVIOUS
<1> QED  BY <1>1, <1>2, <1>3

\* The old root joins the trees that wait, without the nodes B that the new one takes.
Shifted(root, B) ==
    /\ root \notin DOMAIN node /\ DOMAIN node' = DOMAIN node \cup {root}
    /\ B \subseteq Live
    /\ TreeOf(node', root) = {root} \cup B /\ TreeOf(node', m_root) = Live \ B
    /\ \A i \in DOMAIN queue : TreeOf(node', queue[i]) = TreeOf(node, queue[i])
    /\ \A x \in DOMAIN node : node[x].fa = nullptr => node'[x].fa = nullptr

\* Still each node is in the live tree, in one that waits, or deleted.
LEMMA ShiftedStep ==
    ASSUME NEW lev, Inv(lev), NEW root, NEW B, Shifted(root, B), m_root' = root,
           queue' = Append(queue, m_root), UNCHANGED freed
    PROVE  Live' = {root} \cup B /\ Waiting' /\ Partition' /\ queue' \in Seq(DOMAIN node')
<1>1. /\ queue \in Seq(DOMAIN node) /\ m_root \in DOMAIN node /\ node[m_root].fa = nullptr
      /\ Waiting
      /\ DOMAIN node = Live \cup Queued \cup freed /\ Live \cap (Queued \cup freed) = {}
      /\ Queued \cap freed = {}
  BY DEF Inv, Types, Depths, Partition
<1> DEFINE t == Append(queue, m_root)
           k == Len(queue) + 1
<1>2. /\ t \in Seq(DOMAIN node) /\ k \in DOMAIN t /\ t[k] = m_root
      /\ \A i \in DOMAIN queue : i \in DOMAIN t /\ t[i] = queue[i] /\ i # k
      /\ \A i \in DOMAIN t : i \in DOMAIN queue \/ i = k
  <2> HIDE DEF t
  <2>1. t = Append(queue, m_root)  BY DEF t
  <2> QED  BY <1>1, <2>1, AppendFacts
<1>3. queue' = t  OBVIOUS
<1> HIDE DEF t, k
<1>4. Live' = {root} \cup B
  BY SubtreeIsTreeNext DEF Live, Shifted
<1>5. \A i \in DOMAIN queue : queue[i] \in DOMAIN node  BY <1>1
<1>6. Waiting'
  <2>1. ASSUME NEW i \in DOMAIN t  PROVE node'[t[i]].fa = nullptr /\ t[i] # root
    <3>1. t[i] \in DOMAIN node /\ node[t[i]].fa = nullptr  BY <1>1, <1>2 DEF Waiting
    <3> QED  BY <3>1 DEF Shifted
  <2>2. ASSUME NEW i \in DOMAIN t, NEW j \in DOMAIN t, t[i] = t[j]  PROVE i = j
    BY <1>1, <1>2, <2>2 DEF Waiting
  <2> QED  BY <1>3, <2>1, <2>2 DEF Waiting
<1>7. Queued' = Queued \cup (Live \ B)
  <2>1. Queued = UNION {TreeOf(node, queue[i]) : i \in DOMAIN queue}
    BY SubtreeIsTree DEF Queued
  <2>2. Queued' = UNION {TreeOf(node', t[i]) : i \in DOMAIN t}
    <3>1. Queued' = UNION {TreeOf(node', queue'[i]) : i \in DOMAIN queue'}
      BY DEF Queued, Subtree, TreeOf
    <3> QED  BY <1>3, <3>1
  <2>3. /\ \A i \in DOMAIN queue : TreeOf(node', t[i]) = TreeOf(node, queue[i])
        /\ TreeOf(node', t[k]) = Live \ B
    BY <1>2 DEF Shifted
  <2>4. Queued' \subseteq Queued \cup (Live \ B)  BY <1>2, <2>1, <2>2, <2>3
  <2>5. Queued \cup (Live \ B) \subseteq Queued'  BY <1>2, <2>1, <2>2, <2>3
  <2> QED  BY <2>4, <2>5
<1>8. Partition'
  <2>1. B \subseteq Live /\ root \notin DOMAIN node /\ DOMAIN node' = DOMAIN node \cup {root}
    BY DEF Shifted
  <2> QED  BY <1>1, <1>4, <1>7, <2>1 DEF Partition
<1>9. queue' \in Seq(DOMAIN node')
  <2>1. DOMAIN node \subseteq DOMAIN node'  BY DEF Shifted
  <2> QED  BY <1>2, <1>3, <2>1, SeqGrows
<1> QED  BY <1>4, <1>6, <1>8, <1>9

\* The new root has a name of its own.
LEMMA RootName ==
    ASSUME NEW lev, Inv(lev), NEW root, root = NewRoot(m_root), root[1] <= MaxRoots
    PROVE  /\ root \notin DOMAIN node /\ root \in Nodes /\ root[2] = <<>> /\ root # nullptr
           /\ Len(root[2]) = 0 /\ \A x \in DOMAIN node : x[1] <= root[1]
<1>1. /\ DOMAIN node \subseteq Nodes /\ m_root \in DOMAIN node
      /\ \A x \in DOMAIN node : x[1] <= m_root[1]
  BY DEF Inv, Types, NodeTypes, Depths
<1>2. m_root \in Nodes /\ \A x \in Nodes : x[1] \in 1..MaxRoots  BY <1>1, Names
<1>3. root[1] = m_root[1] + 1 /\ root[2] = <<>> /\ root = <<m_root[1] + 1, <<>>>>
  BY DEF NewRoot
<1>4. root[1] \in 1..MaxRoots /\ MaxRoots \in Nat /\ GameLength \in Nat
  BY <1>2, <1>3, ConstantTypes
<1>5. root \in Nodes
  <2>1. <<>> \in Seq(Moves) /\ Len(<<>>) = 0  OBVIOUS
  <2>2. root \in (1..MaxRoots) \X Seq(Moves)  BY <1>3, <1>4, <2>1
  <2>3. Len(root[2]) <= GameLength  BY <1>3, <1>4, <2>1
  <2> QED  BY <2>2, <2>3, Names
<1>6. \A x \in DOMAIN node : x[1] < root[1] /\ x[1] <= root[1]
  BY <1>1, <1>2, <1>3, <1>4
<1>7. root \notin DOMAIN node
  <2> SUFFICES ASSUME root \in DOMAIN node  PROVE FALSE
    OBVIOUS
  <2>1. root[1] < root[1]  BY <1>6
  <2> QED  BY <1>4, <2>1
<1>8. Len(root[2]) = 0  BY <1>3
<1> QED  BY <1>3, <1>5, <1>6, <1>7, <1>8, Names

\* An empty tree for the old one.
LEMMA EmptyTree ==
    ASSUME NEW lev, Inv(lev), ChangeRoot(nullptr), UNCHANGED freed, ply' \in 0..GameLength,
           NEW lv, lv = WithRoot(node, lev, m_root', ply')
    PROVE  /\ NodeTypes' /\ Depths(lv)' /\ Waiting' /\ Partition' /\ ChildrenBeforeState'
           /\ Replanted(m_root') /\ queue' \in Seq(DOMAIN node')
<1> DEFINE root == m_root'
           q == InitNode(nullptr)
<1>1. /\ root = NewRoot(m_root) /\ root[1] <= MaxRoots
      /\ queue' = Append(queue, m_root)
      /\ node' = [x \in DOMAIN node \cup {root} |-> IF x = root THEN q ELSE node[x]]
  BY DEF ChangeRoot
<1>2. /\ root \notin DOMAIN node /\ root \in Nodes /\ root[2] = <<>> /\ root # nullptr
      /\ Len(root[2]) = 0 /\ \A x \in DOMAIN node : x[1] <= root[1]
  BY <1>1, RootName
<1>3. /\ NodeTypes /\ Forest(node, lev) /\ GameLength \in Nat /\ m_root \in DOMAIN node
      /\ node[m_root].fa = nullptr /\ queue \in Seq(DOMAIN node) /\ ChildrenBeforeState
      /\ \A x \in DOMAIN node : Len(x[2]) <= lev[x]
  BY ConstantTypes DEF Inv, Types, Depths
<1>4. /\ q \in Records /\ q.ch = {} /\ q.fa = nullptr /\ q.expand_state = "unexpanded"
      /\ q.virtual_loss_count = 0
  BY DEF InitNode, Records
<1>5. lv = WithRoot(node, lev, root, ply')  OBVIOUS
<1> HIDE DEF root, q
<1>6. /\ DOMAIN node' = DOMAIN node \cup {root} /\ node'[root] = q
      /\ \A x \in DOMAIN node : node'[x] = node[x]
  BY <1>1, <1>2
<1>7. Planted(node, node', root)  BY <1>2, <1>4, <1>6 DEF Planted
<1>8. /\ Forest(node', lv)
      /\ \A x \in DOMAIN node : TreeOf(node', x) = TreeOf(node, x)
      /\ TreeOf(node', root) = {root}
  BY <1>3, <1>5, <1>7, PlantedTrees
<1>9. NodeTypes'
  <2>1. \A x \in DOMAIN node' : node'[x] \in Records /\ IsFiniteSet(node'[x].ch)
    BY <1>3, <1>4, <1>6, FS_EmptySet DEF NodeTypes
  <2>2. node' \in [DOMAIN node' -> Records]  BY <1>1, <2>1
  <2>3. DOMAIN node' \subseteq Nodes  BY <1>2, <1>3, <1>6 DEF NodeTypes
  <2> QED  BY <2>1, <2>2, <2>3 DEF NodeTypes
<1>10. Live = TreeOf(node, m_root)  BY SubtreeIsTree DEF Live
<1>11. Shifted(root, {})
  <2>1. \A i \in DOMAIN queue : queue[i] \in DOMAIN node  BY <1>3
  <2> QED  BY <1>2, <1>3, <1>6, <1>8, <1>10, <2>1 DEF Shifted
<1>12. Live' = {root} /\ Waiting' /\ Partition' /\ queue' \in Seq(DOMAIN node')
  <2>1. Live' = {root} \cup {} /\ Waiting' /\ Partition' /\ queue' \in Seq(DOMAIN node')
    BY <1>1, <1>11, ShiftedStep DEF root
  <2> QED  BY <2>1
<1>13. Depths(lv)'
  <2>1. lv[root] = ply' /\ \A x \in DOMAIN node : lv[x] = lev[x]
    BY <1>2, <1>5 DEF WithRoot
  <2>2. \A x \in DOMAIN node' : Len(x[2]) <= lv[x] /\ x[1] <= root[1]
    <3>1. root[1] <= root[1]
      <4>1. root[1] \in 1..MaxRoots /\ MaxRoots \in Nat  BY <1>2, Names, ConstantTypes
      <4> QED  BY <4>1
    <3>2. Len(root[2]) <= lv[root]  BY <1>2, <2>1
    <3> QED  BY <1>2, <1>3, <1>6, <2>1, <3>1, <3>2
  <2>3. node'[root].fa = nullptr /\ root \in DOMAIN node'  BY <1>4, <1>6
  <2> QED  BY <1>2, <1>8, <2>1, <2>2, <2>3 DEF Depths, root
<1>14. ChildrenBeforeState'
  BY <1>4, <1>6, <1>12 DEF ChildrenBeforeState
<1>15. Replanted(root)
  BY <1>2, <1>4, <1>6, <1>12 DEF Replanted
<1> QED  BY <1>9, <1>12, <1>13, <1>14, <1>15 DEF root

\* A child n of the old root in its place, with what is below it.
LEMMA KeptTree ==
    ASSUME NEW lev, Inv(lev), NEW n \in node[m_root].ch, ChangeRoot(n), UNCHANGED freed,
           ply' = ply + 1,
           NEW lv, lv = WithRoot(node, lev, m_root', lev[n])
    PROVE  /\ NodeTypes' /\ Depths(lv)' /\ Waiting' /\ Partition' /\ ChildrenBeforeState'
           /\ Replanted(m_root') /\ queue' \in Seq(DOMAIN node')
<1> DEFINE root == m_root'
           q == [node[n] EXCEPT !.fa = nullptr]
           e == [node[n] EXCEPT !.ch = {}]
           k(x) == [node[x] EXCEPT !.fa = root]
           B == TreeOf(node, n) \ {n}
<1>1. /\ NodeTypes /\ Forest(node, lev) /\ GameLength \in Nat /\ m_root \in DOMAIN node
      /\ node[m_root].fa = nullptr /\ queue \in Seq(DOMAIN node) /\ ChildrenBeforeState
      /\ lev[m_root] = ply /\ Partition
      /\ \A x \in DOMAIN node : Len(x[2]) <= lev[x] /\ lev[x] \in 0..GameLength
  BY ConstantTypes DEF Inv, Types, Depths, Forest
<1>2. /\ n \in DOMAIN node /\ node[n].fa = m_root /\ lev[n] = ply + 1 /\ n # nullptr
      /\ m_root # nullptr /\ n # m_root
      /\ \A x \in DOMAIN node : x \in node[n].ch => node[x].fa = n /\ lev[x] = lev[n] + 1
      /\ node[n].ch \subseteq DOMAIN node
  <2>1. /\ n \in DOMAIN node /\ node[n].fa = m_root /\ lev[n] = ply + 1 /\ n # nullptr
        /\ m_root # nullptr
    BY <1>1 DEF Forest
  <2>2. n # m_root  BY <1>1, <2>1
  <2> QED  BY <1>1, <2>1, <2>2 DEF Forest
<1>3. n \notin node[n].ch
  BY <1>1, <1>2
<1>4. /\ root = NewRoot(m_root) /\ root[1] <= MaxRoots /\ queue' = Append(queue, m_root)
      /\ node' = [x \in DOMAIN node \cup {root} |->
                    CASE x = root -> q [] x = n -> e [] x \in node[n].ch -> k(x)
                      [] OTHER -> node[x]]
  BY <1>2 DEF ChangeRoot
<1>5. /\ root \notin DOMAIN node /\ root \in Nodes /\ root[2] = <<>> /\ root # nullptr
      /\ Len(root[2]) = 0 /\ \A x \in DOMAIN node : x[1] <= root[1]
  BY <1>4, RootName
<1>6. /\ q \in Records /\ q.ch = node[n].ch /\ q.fa = nullptr
      /\ q.expand_state = node[n].expand_state
      /\ q.virtual_loss_count = node[n].virtual_loss_count
      /\ e \in Records /\ e.ch = {} /\ e.fa = node[n].fa
      /\ e.expand_state = node[n].expand_state
      /\ e.virtual_loss_count = node[n].virtual_loss_count
  <2> DEFINE r == node[n]
  <2>1. r \in Records  BY <1>1, <1>2 DEF NodeTypes
  <2> HIDE DEF r
  <2>2. LET u == [r EXCEPT !.fa = nullptr]
        IN  u \in Records /\ u.ch = r.ch /\ u.fa = nullptr /\ u.expand_state = r.expand_state
            /\ u.virtual_loss_count = r.virtual_loss_count
    BY <2>1 DEF Records
  <2>3. LET u == [r EXCEPT !.ch = {}]
        IN  u \in Records /\ u.ch = {} /\ u.fa = r.fa /\ u.expand_state = r.expand_state
            /\ u.virtual_loss_count = r.virtual_loss_count
    BY <2>1 DEF Records
  <2> QED  BY <2>2, <2>3 DEF r
<1>7. ASSUME NEW x \in DOMAIN node
      PROVE  /\ k(x) \in Records /\ k(x).ch = node[x].ch /\ k(x).fa = root
             /\ k(x).expand_state = node[x].expand_state
             /\ k(x).virtual_loss_count = node[x].virtual_loss_count
  <2> DEFINE r == node[x]
             f == root
  <2>1. r \in Records /\ f \in Nodes  BY <1>1, <1>5 DEF NodeTypes
  <2> HIDE DEF r, f
  <2>2. LET u == [r EXCEPT !.fa = f]
        IN  u \in Records /\ u.ch = r.ch /\ u.fa = f /\ u.expand_state = r.expand_state
            /\ u.virtual_loss_count = r.virtual_loss_count
    BY <2>1 DEF Records
  <2> QED  BY <2>2 DEF r, f
<1>8. lv = WithRoot(node, lev, root, lev[n])  OBVIOUS
<1> HIDE DEF root, q, e, k
<1>9. /\ DOMAIN node' = DOMAIN node \cup {root} /\ node'[root] = q /\ node'[n] = e
      /\ \A x \in DOMAIN node : x # n =>
            node'[x] = IF x \in node[n].ch THEN k(x) ELSE node[x]
  <2>1. DOMAIN node' = DOMAIN node \cup {root} /\ node'[root] = q
    <3>1. DOMAIN node' = DOMAIN node \cup {root}  BY <1>4
    <3>2. node'[root] = q
      <4>1. root \in DOMAIN node \cup {root} /\ root # n /\ root \notin node[n].ch
        BY <1>2, <1>5
      <4> QED  BY <1>4, <4>1
    <3> QED  BY <3>1, <3>2
  <2>2. node'[n] = e  BY <1>2, <1>4, <1>5
  <2>3. ASSUME NEW x \in DOMAIN node, x # n
        PROVE  node'[x] = IF x \in node[n].ch THEN k(x) ELSE node[x]
    BY <1>4, <1>5, <2>3
  <2> QED  BY <2>1, <2>2, <2>3
<1>10. Rerooted(node, node', n, root)
  BY <1>2, <1>5, <1>6, <1>7, <1>9 DEF Rerooted
<1>11. /\ Forest(node', lv)
       /\ TreeOf(node', root) = {root} \cup B
       /\ \A x \in DOMAIN node :
             TreeOf(node', x) = IF n \in TreeOf(node, x) THEN TreeOf(node, x) \ B
                                ELSE TreeOf(node, x)
  BY <1>1, <1>8, <1>10, RerootedTrees
<1>12. /\ Live = TreeOf(node, m_root) /\ n \in Live /\ B \subseteq Live
       /\ m_root \notin B /\ n \notin B
  <2>1. Live = TreeOf(node, m_root)  BY SubtreeIsTree DEF Live
  <2>2. m_root \in Live /\ n \in Live  BY <1>1, <2>1, TreeClosed
  <2>3. TreeOf(node, n) \subseteq Live  BY <1>1, <2>1, <2>2, TreeInTree
  <2>4. m_root \notin B
    <3> SUFFICES ASSUME m_root \in TreeOf(node, n)  PROVE FALSE
      OBVIOUS
    <3>1. lev[m_root] >= lev[n]  BY <1>1, <1>2, TreeLevel
    <3> QED  BY <1>1, <1>2, <3>1
  <2> QED  BY <2>1, <2>2, <2>3, <2>4
<1> HIDE DEF B
<1>13. Shifted(root, B)
  <2>1. ASSUME NEW i \in DOMAIN queue
        PROVE  TreeOf(node', queue[i]) = TreeOf(node, queue[i])
    <3>1. queue[i] \in DOMAIN node  BY <1>1
    <3>2. TreeOf(node, queue[i]) \subseteq Queued  BY SubtreeIsTree DEF Queued
    <3>3. n \notin TreeOf(node, queue[i])  BY <1>1, <1>12, <3>2 DEF Partition
    <3> QED  BY <1>11, <3>1, <3>3
  <2>2. \A x \in DOMAIN node : node[x].fa = nullptr => node'[x].fa = nullptr
    BY <1>2, <1>6, <1>9
  <2>3. TreeOf(node', m_root) = Live \ B  BY <1>1, <1>11, <1>12
  <2> QED  BY <1>5, <1>9, <1>11, <1>12, <2>1, <2>2, <2>3 DEF Shifted
<1>14. Live' = {root} \cup B /\ Waiting' /\ Partition' /\ queue' \in Seq(DOMAIN node')
  BY <1>4, <1>13, ShiftedStep DEF root
<1>15. NodeTypes'
  <2>1. ASSUME NEW x \in DOMAIN node'
        PROVE  node'[x] \in Records /\ IsFiniteSet(node'[x].ch)
    <3>1. CASE x = root  BY <1>1, <1>2, <1>6, <1>9, <3>1 DEF NodeTypes
    <3>2. CASE x = n  BY <1>6, <1>9, <3>2, FS_EmptySet
    <3>3. CASE x \in DOMAIN node /\ x # n
      BY <1>1, <1>7, <1>9, <3>3 DEF NodeTypes
    <3> QED  BY <1>9, <3>1, <3>2, <3>3
  <2>2. node' = [x \in DOMAIN node' |-> node'[x]]  BY <1>4
  <2>3. node' \in [DOMAIN node' -> Records]  BY <2>1, <2>2
  <2>4. DOMAIN node' \subseteq Nodes  BY <1>1, <1>5, <1>9 DEF NodeTypes
  <2> QED  BY <2>1, <2>3, <2>4 DEF NodeTypes
<1>16. Depths(lv)'
  <2>1. lv[root] = lev[n] /\ \A x \in DOMAIN node : lv[x] = lev[x]
    BY <1>5, <1>8 DEF WithRoot
  <2>2. \A x \in DOMAIN node' : Len(x[2]) <= lv[x] /\ x[1] <= root[1]
    <3>1. root[1] <= root[1]
      <4>1. root[1] \in 1..MaxRoots /\ MaxRoots \in Nat  BY <1>5, Names, ConstantTypes
      <4> QED  BY <4>1
    <3>2. Len(root[2]) <= lv[root]  BY <1>1, <1>2, <1>5, <2>1
    <3> QED  BY <1>1, <1>5, <1>9, <2>1, <3>1, <3>2
  <2>3. node'[root].fa = nullptr /\ root \in DOMAIN node'  BY <1>6, <1>9
  <2> QED  BY <1>2, <1>5, <1>11, <2>1, <2>2, <2>3 DEF Depths, root
<1>17. /\ \A x \in DOMAIN node :
             /\ node'[x].expand_state = node[x].expand_state
             /\ node'[x].virtual_loss_count = node[x].virtual_loss_count
             /\ x # n => node'[x].ch = node[x].ch
       /\ node'[n].ch = {}
  BY <1>6, <1>7, <1>9
<1>18. ChildrenBeforeState'
  <2> SUFFICES ASSUME NEW x \in Live', node'[x].expand_state = "expanded"
               PROVE  node'[x].ch # {}
    BY DEF ChildrenBeforeState
  <2>1. CASE x = root  BY <1>1, <1>6, <1>9, <1>12, <2>1 DEF ChildrenBeforeState
  <2>2. CASE x \in B
    <3>1. x \in Live /\ x \in DOMAIN node /\ x # n  BY <1>1, <1>12, <2>2 DEF Partition
    <3> QED  BY <1>1, <1>17, <3>1 DEF ChildrenBeforeState
  <2> QED  BY <1>14, <2>1, <2>2
<1>19. Replanted(root)
  <2>1. Live' \subseteq {root} \cup (Live \ {m_root})  BY <1>12, <1>14
  <2> QED  BY <1>2, <1>5, <1>6, <1>9, <1>12, <1>17, <2>1 DEF Replanted
<1> QED  BY <1>14, <1>15, <1>16, <1>18, <1>19 DEF root

\* ChangeRoot(), as Move() and Reset() call it; with evaluations in flight only what
\* does not depend on them is kept.
LEMMA ChangeRootStep ==
    ASSUME NEW lev, Inv(lev), ~overtaken, owner = "engine",
           NEW n \in node[m_root].ch \cup {nullptr}, ChangeRoot(n),
           ply' \in 0..GameLength, n # nullptr => ply' = ply + 1, sims' \in Nat,
           UNCHANGED <<phases, config, running, freed, locals, due>>
    PROVE  \E lv : Inv(lv)'
<1>1. \E lv : /\ NodeTypes' /\ Depths(lv)' /\ Waiting' /\ Partition' /\ ChildrenBeforeState'
              /\ Replanted(m_root') /\ queue' \in Seq(DOMAIN node')
  <2>1. CASE n = nullptr
    <3>1. \E lv : lv = WithRoot(node, lev, m_root', ply')  OBVIOUS
    <3>2. PICK lv : lv = WithRoot(node, lev, m_root', ply')  BY <3>1
    <3>3. ChangeRoot(nullptr)  BY <2>1
    <3> QED  BY <3>2, <3>3, EmptyTree
  <2>2. CASE n # nullptr
    <3>1. \E lv : lv = WithRoot(node, lev, m_root', lev[n])  OBVIOUS
    <3>2. PICK lv : lv = WithRoot(node, lev, m_root', lev[n])  BY <3>1
    <3>3. n \in node[m_root].ch /\ ply' = ply + 1  BY <2>2
    <3> QED  BY <3>2, <3>3, KeptTree
  <2> QED  BY <2>1, <2>2
<1>2. PICK lv : /\ NodeTypes' /\ Depths(lv)' /\ Waiting' /\ Partition' /\ ChildrenBeforeState'
                /\ Replanted(m_root') /\ queue' \in Seq(DOMAIN node')
  BY <1>1
<1>3. overtaken' = (InFlight # {})  BY DEF ChangeRoot
<1>4. UNCHANGED <<owner, active, enable_async, threads, running, freed, pc, cur, leaf, board,
                  sign, due>>
  BY DEF phases, config, locals
<1>5. Types'
  <2>1. Types /\ DOMAIN node \subseteq DOMAIN node'  BY <1>2 DEF Inv, Replanted
  <2>2. /\ freed' \subseteq DOMAIN node'
        /\ cur' \in [Contexts -> DOMAIN node' \cup {nullptr}]
        /\ leaf' \in [Contexts -> DOMAIN node' \cup {nullptr}]
    BY <1>4, <2>1 DEF Types
  <2>3. overtaken' \in BOOLEAN  BY <1>3
  <2> QED  BY <1>2, <1>4, <2>1, <2>2, <2>3 DEF Types
<1>6. ASSUME ~overtaken'  PROVE Working(lv)' /\ Begun' /\ Claims' /\ Balanced'
  <2>1. InFlight = {}  BY <1>3, <1>6
  <2> QED  BY <1>2, <1>4, <2>1, ReplantedStep
<1>7. Inv(lv)'  BY <1>2, <1>5, <1>6 DEF Inv
<1> QED  BY <1>7

\* Move() goes on from a child of the root, or from an empty tree.
LEMMA MoveStep ==
    ASSUME NEW lev, Inv(lev), ~overtaken, Move
    PROVE  \E lv : Inv(lv)'
<1>1. PICK n \in node[m_root].ch \cup {nullptr} : ChangeRoot(n)  BY DEF Move
<1>2. ply \in 0..GameLength /\ sims \in Nat /\ GameLength \in Nat
  BY ConstantTypes DEF Inv, Types
<1>3. /\ owner = "engine" /\ ply' \in 0..GameLength /\ ply' = ply + 1 /\ sims' \in Nat
      /\ UNCHANGED <<phases, config, running, freed, locals, due>>
  BY <1>2 DEF Move
<1> QED  BY <1>1, <1>3, ChangeRootStep

\* Reset() from an empty tree.
LEMMA ResetStep ==
    ASSUME NEW lev, Inv(lev), ~overtaken, Reset
    PROVE  \E lv : Inv(lv)'
<1>1. ply \in 0..GameLength /\ GameLength \in Nat  BY ConstantTypes DEF Inv, Types
<1>2. /\ owner = "engine" /\ ply' \in 0..GameLength /\ sims' \in Nat /\ ChangeRoot(nullptr)
      /\ UNCHANGED <<phases, config, running, freed, locals, due>>
  BY <1>1 DEF Reset
<1> QED  BY <1>2, ChangeRootStep

\* The elements of a sequence without its first.
LEMMA TailFacts ==
    ASSUME NEW S, NEW q \in Seq(S), q # <<>>
    PROVE  /\ 1 \in DOMAIN q /\ Head(q) = q[1] /\ Head(q) \in S /\ Tail(q) \in Seq(S)
           /\ \A i \in DOMAIN Tail(q) :
                 i \in Nat /\ i + 1 \in DOMAIN q /\ i + 1 # 1 /\ Tail(q)[i] = q[i + 1]
           /\ \A i \in DOMAIN q : i # 1 => i - 1 \in DOMAIN Tail(q) /\ Tail(q)[i - 1] = q[i]
<1>1. Len(q) \in Nat \ {0} /\ DOMAIN q = 1..Len(q) /\ \A i \in 1..Len(q) : q[i] \in S
  OBVIOUS
<1>2. /\ Tail(q) \in Seq(S) /\ Len(Tail(q)) = Len(q) - 1
      /\ DOMAIN Tail(q) = 1..(Len(q) - 1)
  OBVIOUS
<1>3. \A i \in 1..(Len(q) - 1) : Tail(q)[i] = q[i + 1]  OBVIOUS
<1>4. 1 \in 1..Len(q) /\ Head(q) = q[1]  BY <1>1
<1> QED  BY <1>1, <1>2, <1>3, <1>4

\* The first tree in the queue goes, and it is none of the others.
LEMMA DeleteTreeStep ==
    ASSUME NEW lev, Inv(lev), ~overtaken, DeleteTree
    PROVE  Inv(lev)'
<1> DEFINE h == Head(queue)
           t == Tail(queue)
<1>1. /\ queue # <<>> /\ freed' = freed \cup TreeOf(node, h) /\ queue' = t
      /\ UNCHANGED <<owner, active, enable_async, threads, node, m_root, ply, running, sims,
                     pc, cur, leaf, board, sign, overtaken, due>>
  BY SubtreeIsTree DEF DeleteTree, phases, config, locals
<1>2. /\ Types /\ NodeTypes /\ Depths(lev) /\ Waiting /\ Partition /\ Forest(node, lev)
      /\ queue \in Seq(DOMAIN node) /\ GameLength \in Nat
      /\ (owner = "engine" => active = {})
  BY ConstantTypes DEF Inv, Types, Depths, Working
<1>3. /\ 1 \in DOMAIN queue /\ h = queue[1] /\ h \in DOMAIN node /\ t \in Seq(DOMAIN node)
      /\ \A i \in DOMAIN t :
            i \in Nat /\ i + 1 \in DOMAIN queue /\ i + 1 # 1 /\ t[i] = queue[i + 1]
      /\ \A i \in DOMAIN queue : i # 1 => i - 1 \in DOMAIN t /\ t[i - 1] = queue[i]
  BY <1>1, <1>2, TailFacts
<1> HIDE DEF h, t
<1>4. TreeOf(node, h) \subseteq DOMAIN node  BY <1>2, <1>3, TreeClosed
<1>5. Types'
  <2>1. NodeTypes'  BY <1>1, <1>2 DEF NodeTypes
  <2>2. queue' \in Seq(DOMAIN node') /\ freed' \subseteq DOMAIN node'
    BY <1>1, <1>2, <1>3, <1>4 DEF Types
  <2> QED  BY <1>1, <1>2, <2>1, <2>2 DEF Types
<1>6. Waiting'
  <2>1. ASSUME NEW i \in DOMAIN t, NEW j \in DOMAIN t, t[i] = t[j]  PROVE i = j
    <3>1. i + 1 = j + 1  BY <1>2, <1>3, <2>1 DEF Waiting
    <3> QED  BY <1>3, <3>1
  <2> QED  BY <1>1, <1>2, <1>3, <2>1 DEF Waiting
<1>7. Working(lev)' /\ Begun' /\ Claims' /\ Balanced' /\ Live' = Live
  BY <1>1, <1>2, CalmContexts
<1>8. Partition'
  <2>1. Queued = UNION {TreeOf(node, queue[i]) : i \in DOMAIN queue}
    BY SubtreeIsTree DEF Queued
  <2>2. Queued' = UNION {TreeOf(node, t[i]) : i \in DOMAIN t}
    <3>1. Queued' = UNION {TreeOf(node', queue'[i]) : i \in DOMAIN queue'}
      BY DEF Queued, Subtree, TreeOf
    <3> QED  BY <1>1, <3>1
  <2>3. Queued = Queued' \cup TreeOf(node, h)
    <3>1. Queued \subseteq Queued' \cup TreeOf(node, h)  BY <1>3, <2>1, <2>2
    <3>2. Queued' \cup TreeOf(node, h) \subseteq Queued  BY <1>3, <2>1, <2>2
    <3> QED  BY <3>1, <3>2
  <2>4. Queued' \cap TreeOf(node, h) = {}
    <3>1. ASSUME NEW i \in DOMAIN t  PROVE TreeOf(node, t[i]) \cap TreeOf(node, h) = {}
      <4>1. t[i] # h  BY <1>2, <1>3, <3>1 DEF Waiting
      <4>2. node[t[i]].fa = nullptr /\ node[h].fa = nullptr /\ t[i] \in DOMAIN node
        BY <1>2, <1>3, <3>1 DEF Waiting
      <4> QED  BY <1>2, <1>3, <4>1, <4>2, RootsApart
    <3> QED  BY <2>2, <3>1
  <2> QED  BY <1>1, <1>2, <1>7, <2>3, <2>4 DEF Partition
<1>9. Depths(lev)' /\ ChildrenBeforeState'
  BY <1>1, <1>2, <1>7 DEF Inv, Depths, ChildrenBeforeState
<1> QED  BY <1>5, <1>6, <1>7, <1>8, <1>9 DEF Inv

-----------------------------------------------------------------------------
(* The theorems.                                                           *)

\* The invariant holds of the one node there is at the beginning.
LEMMA InitIInv == Init => IInv
<1> SUFFICES ASSUME Init  PROVE IInv
  OBVIOUS
<1> DEFINE r == <<1, <<>>>>
           q == InitNode(nullptr)
           lv == [x \in {r} |-> 0]
<1>1. /\ m_root = r /\ node = [x \in {r} |-> q] /\ ply = 0 /\ running = FALSE /\ sims = 0
      /\ queue = <<>> /\ freed = {} /\ owner = "engine" /\ active = {} /\ due = {}
      /\ pc = [w \in Contexts |-> "idle"] /\ cur = [w \in Contexts |-> nullptr]
      /\ leaf = [w \in Contexts |-> nullptr] /\ board = [w \in Contexts |-> 0]
      /\ sign = [w \in Contexts |-> 0] /\ overtaken = FALSE /\ enable_async \in BOOLEAN
  BY DEF Init, PInit
<1>2. threads \subseteq Workers  BY DEF Init, kSubset
<1>3. /\ q \in Records /\ q.ch = {} /\ q.fa = nullptr /\ q.expand_state = "unexpanded"
      /\ q.virtual_loss_count = 0
  BY DEF InitNode, Records
<1>4. GameLength \in Nat /\ MaxRoots \in Nat \ {0}  BY ConstantTypes
<1>5. r \in Nodes /\ r # nullptr /\ r[2] = <<>> /\ r[1] = 1 /\ Len(r[2]) = 0
  <2>1. <<>> \in Seq(Moves) /\ Len(<<>>) = 0  OBVIOUS
  <2>2. r \in (1..MaxRoots) \X Seq(Moves)
    <3>1. 1 \in 1..MaxRoots  BY <1>4
    <3> DEFINE M == 1..MaxRoots
               T == Seq(Moves)
    <3>2. 1 \in M /\ <<>> \in T  BY <2>1, <3>1
    <3> HIDE DEF M, T
    <3>3. r \in M \X T  BY <3>2
    <3> QED  BY <3>3 DEF M, T
  <2>3. Len(r[2]) <= GameLength  BY <1>4, <2>1
  <2>4. r \in Nodes /\ nullptr \notin Nodes  BY <2>2, <2>3, Names
  <2> QED  BY <2>1, <2>4
<1> HIDE DEF q, r
<1>6. /\ DOMAIN node = {r} /\ node[r] = q /\ \A x \in {r} : node[x] = q
      /\ lv \in [{r} -> 0..GameLength] /\ lv[r] = 0
  BY <1>1, <1>4
<1> HIDE DEF lv
<1>7. Types
  <2>1. NodeTypes
    <3>1. node \in [DOMAIN node -> Records]  BY <1>1, <1>3
    <3>2. \A x \in DOMAIN node : IsFiniteSet(node[x].ch)
      BY <1>3, <1>6, FS_EmptySet
    <3> QED  BY <1>5, <1>6, <3>1, <3>2 DEF NodeTypes
  <2>2. queue \in Seq(DOMAIN node) /\ freed \subseteq DOMAIN node  BY <1>1
  <2>3. ply \in 0..GameLength /\ sims \in Nat  BY <1>1, <1>4
  <2>4. /\ running \in BOOLEAN /\ enable_async \in BOOLEAN /\ overtaken \in BOOLEAN
        /\ owner \in {"engine", "search"} /\ active \subseteq Workers /\ due \subseteq Workers
    BY <1>1
  <2>5. /\ pc \in [Contexts -> ProgramCounters]
        /\ cur \in [Contexts -> DOMAIN node \cup {nullptr}]
        /\ leaf \in [Contexts -> DOMAIN node \cup {nullptr}]
    BY <1>1 DEF ProgramCounters
  <2>6. board \in [Contexts -> Nat] /\ sign \in [Contexts -> Int]  BY <1>1
  <2> QED  BY <1>2, <2>1, <2>2, <2>3, <2>4, <2>5, <2>6 DEF Types
<1>8. Forest(node, lv)
  BY <1>3, <1>5, <1>6 DEF Forest
<1>9. Live = {r}
  <2>1. r \in TreeOf(node, r) /\ TreeOf(node, r) \subseteq DOMAIN node
    BY <1>4, <1>6, <1>8, TreeClosed
  <2> QED  BY <1>1, <1>6, <2>1, SubtreeIsTree DEF Live
<1>10. Depths(lv)
  BY <1>1, <1>3, <1>5, <1>6, <1>8 DEF Depths
<1>11. Waiting /\ Partition
  <2>1. DOMAIN queue = {}  BY <1>1
  <2>2. Queued = {}  BY <2>1 DEF Queued
  <2> QED  BY <1>1, <1>6, <1>9, <2>1, <2>2 DEF Waiting, Partition
<1>12. ChildrenBeforeState  BY <1>3, <1>6, <1>9 DEF ChildrenBeforeState
<1>13. Working(lv)
  <2>1. \A w \in Contexts : Placed(lv, w)  BY <1>1 DEF Placed, Claiming
  <2> QED  BY <1>1, <2>1 DEF Working, Contexts
<1>14. Begun
  <2>1. \A x \in Nodes, m \in Moves : Child(x, m) # r
    BY <1>5, ChildNames
  <2> QED  BY <1>3, <1>5, <1>6, <2>1 DEF Begun
<1>15. Claims  BY <1>1, <1>3, <1>6, <1>9 DEF Claims, Claiming
<1>16. Balanced
  <2>1. \A n : Inside(node, cur, n) = {}  BY <1>1 DEF Inside
  <2>2. \A n : Cardinality(Inside(node, cur, n)) = 0  BY <2>1, FS_EmptySet
  <2> QED  BY <1>3, <1>6, <1>9, <2>2 DEF Balanced
<1>17. Inv(lv)
  BY <1>7, <1>10, <1>11, <1>12, <1>13, <1>14, <1>15, <1>16 DEF Inv
<1> QED  BY <1>17 DEF IInv

\* Every step keeps it: one lemma for each action, and one for a stuttering step.
LEMMA NextIInv == IInv /\ [Next]_vars => IInv'
<1> SUFFICES ASSUME IInv, [Next]_vars  PROVE \E lv : Inv(lv)'
  BY DEF IInv
<1>1. PICK lev : Inv(lev)  BY DEF IInv
<1>2. CASE UNCHANGED vars
  <2>1. /\ UNCHANGED <<owner, active, enable_async, threads, node, m_root, ply, running, sims,
                       queue, freed, pc, cur, leaf, board, sign, due, overtaken>>
    BY <1>2 DEF vars, phases, config, engineVars, locals
  <2>2. Types'  BY <1>1, <2>1 DEF Inv, Types, NodeTypes
  <2>3. ~overtaken => (owner' = "engine" => active = {})
    BY <1>1, <2>1 DEF Inv, Working
  <2>4. Inv(lev)'  BY <1>1, <2>1, <2>2, <2>3, CalmStep
  <2> QED  BY <2>4
<1>3. CASE Next
  <2>1. ~overtaken  BY <1>3 DEF Next
  <2>2. ASSUME NEW w \in Workers, SearchRoutine(w)  PROVE \E lv : Inv(lv)'
    <3>0. w \in Contexts  BY DEF Contexts
    <3>1. CASE SimBegin(w)  BY <1>1, <2>1, <3>1, SimBeginStep
    <3>2. CASE SimDescend(w)  BY <1>1, <2>1, <3>0, <3>2, SimDescendStep
    <3>3. CASE SimLeaf(w)  BY <1>1, <2>1, <3>0, <3>3, SimLeafStep
    <3>4. CASE SimClaim(w)  BY <1>1, <2>1, <3>0, <3>4, SimClaimStep
    <3>5. CASE SimHandOff(w)  BY <1>1, <2>1, <3>5, SimHandOffStep
    <3> QED  BY <2>2, <3>1, <3>2, <3>3, <3>4, <3>5 DEF SearchRoutine
  <2>3. ASSUME NEW w \in Contexts, SimRest(w)  PROVE \E lv : Inv(lv)'
    <3>1. CASE SimEvalFails(w)  BY <1>1, <2>1, <3>1, SimEvalFailsStep
    <3>2. CASE SimEvalSucceeds(w)  BY <1>1, <2>1, <3>2, SimEvalSucceedsStep
    <3>3. CASE SimExpandOver(w)  BY <1>1, <2>1, <3>3, SimExpandOverStep
    <3>4. CASE SimExpand(w)  BY <1>1, <2>1, <3>4, SimExpandStep
    <3>5. CASE SimPublish(w)  BY <1>1, <2>1, <3>5, SimPublishStep
    <3>6. CASE SimValue(w)  BY <1>1, <2>1, <3>6, SimValueStep
    <3>7. CASE SimBackup(w)  BY <1>1, <2>1, <3>7, SimBackupStep
    <3>8. CASE SimEnd(w)  BY <1>1, <2>1, <3>8, SimEndStep
    <3>9. CASE SimUndo(w)  BY <1>1, <2>1, <3>9, SimUndoStep
    <3>10. CASE SimUndone(w)  BY <1>1, <2>1, <3>10, SimUndoneStep
    <3> QED
      BY <2>3, <3>1, <3>2, <3>3, <3>4, <3>5, <3>6, <3>7, <3>8, <3>9, <3>10 DEF SimRest
  <2>4. CASE InitRoot  BY <1>1, <2>1, <2>4, InitRootStep
  <2>5. CASE SearchResume  BY <1>1, <2>1, <2>5, SearchResumeStep
  <2>6. CASE SearchPauseSet  BY <1>1, <2>1, <2>6, SearchPauseSetStep
  <2>7. CASE SearchPauseJoin  BY <1>1, <2>1, <2>7, SearchPauseJoinStep
  <2>8. CASE Move  BY <1>1, <2>1, <2>8, MoveStep
  <2>9. CASE Reset  BY <1>1, <2>1, <2>9, ResetStep
  <2>10. CASE DeleteTree  BY <1>1, <2>1, <2>10, DeleteTreeStep
  <2> QED
    BY <1>3, <2>2, <2>3, <2>4, <2>5, <2>6, <2>7, <2>8, <2>9, <2>10 DEF Next
<1> QED  BY <1>2, <1>3

\* The invariant is one of every reachable state.
THEOREM Invariance == Spec => []IInv
<1> QED  BY InitIInv, NextIInv, PTL DEF Spec

\* The fields of the nodes, the threads and the callbacks keep their types, and every
\* pointer is to an allocated node.
THEOREM TypeCorrect == Spec => []TypeOK
<1>1. IInv => TypeOK
  <2> SUFFICES ASSUME IInv  PROVE TypeOK
    OBVIOUS
  <2>1. PICK lev : Inv(lev)  BY DEF IInv
  <2>2. /\ Types /\ NodeTypes /\ Forest(node, lev) /\ m_root \in DOMAIN node
    BY <2>1 DEF Inv, Types, Depths
  <2>3. ASSUME NEW n \in DOMAIN node
        PROVE  /\ node[n].fa \in DOMAIN node \cup {nullptr}
               /\ node[n].ch \subseteq DOMAIN node
               /\ node[n].expand_state \in {"unexpanded", "expanding", "expanded"}
               /\ node[n].size \in Nat \ {0} /\ node[n].visit_count \in Nat
               /\ {node[n].virtual_loss_count, node[n].total_action,
                   node[n].value} \subseteq Int
    <3>1. node[n] \in Records  BY <2>2 DEF NodeTypes
    <3>2. /\ node[n].expand_state \in {"unexpanded", "expanding", "expanded"}
          /\ node[n].size \in Nat \ {0} /\ node[n].visit_count \in Nat
          /\ {node[n].virtual_loss_count, node[n].total_action,
              node[n].value} \subseteq Int
      BY <3>1 DEF Records
    <3> QED  BY <2>2, <3>2 DEF Forest
  <2>4. \A w \in Contexts : {cur[w], leaf[w]} \subseteq DOMAIN node \cup {nullptr}
    BY <2>2 DEF Types
  <2> QED  BY <2>2, <2>3, <2>4 DEF Types, NodeTypes, TypeOK
<1> QED  BY <1>1, Invariance, PTL

\* An expanded node has children: Expand() links them before it publishes the state.
THEOREM Published == Spec => []ChildrenBeforeState
<1>1. IInv => ChildrenBeforeState  BY DEF IInv, Inv
<1> QED  BY <1>1, Invariance, PTL

\* The compare-and-exchange gives every expansion one owner, and none is abandoned.
THEOREM Expansion == Spec => []OneExpander
<1>1. IInv => OneExpander
  <2> SUFFICES ASSUME IInv, ~overtaken, NEW n \in Live
               PROVE  LET owners == {w \in Contexts :
                                       leaf[w] = n /\ pc[w] \in {"eval", "expand", "publish"}}
                      IN  Cardinality(owners) =
                            IF node[n].expand_state = "expanding" THEN 1 ELSE 0
    BY DEF OneExpander
  <2> DEFINE owners == {w \in Contexts :
                          leaf[w] = n /\ pc[w] \in {"eval", "expand", "publish"}}
  <2>1. Claims  BY DEF IInv, Inv
  <2>2. CASE node[n].expand_state = "expanding"
    <3>1. PICK w \in Contexts : pc[w] \in Claiming /\ leaf[w] = n
      BY <2>1, <2>2 DEF Claims
    <3>2. owners = {w}  BY <2>1, <3>1 DEF Claims, Claiming
    <3> HIDE DEF owners
    <3>3. Cardinality(owners) = 1  BY <3>2, FS_Singleton
    <3> QED  BY <2>2, <3>3 DEF owners
  <2>3. CASE node[n].expand_state # "expanding"
    <3>1. owners = {}  BY <2>1, <2>3 DEF Claims, Claiming
    <3> HIDE DEF owners
    <3>2. Cardinality(owners) = 0  BY <3>1, FS_EmptySet
    <3> QED  BY <2>3, <3>2 DEF owners
  <2> QED  BY <2>2, <2>3
<1> QED  BY <1>1, Invariance, PTL

\* Every simulation takes off the virtual losses it has put on, by Backup() or by
\* UndoVirtualLoss(), in its thread or in its callback; only InitRoot() leaves one less.
THEOREM Losses == Spec => []VirtualLossBalanced
<1>1. IInv => VirtualLossBalanced
  <2> SUFFICES ASSUME IInv, ~overtaken, NEW n \in Live
               PROVE  LET inside == {w \in Contexts :
                                       cur[w] # nullptr /\ cur[w] \in Subtree(n)}
                          excess == node[n].virtual_loss_count - Cardinality(inside)
                      IN  excess = 0 \/ (n = m_root /\ excess = -1)
    BY DEF VirtualLossBalanced
  <2>1. PICK lev : Inv(lev)  BY DEF IInv
  <2>2. Balanced /\ NodeTypes /\ n \in DOMAIN node
    BY <2>1 DEF Inv, Types, Partition
  <2> DEFINE inside == {w \in Contexts : cur[w] # nullptr /\ cur[w] \in Subtree(n)}
             k == Cardinality(inside)
             l == node[n].virtual_loss_count
  <2>3. inside = Inside(node, cur, n)  BY SubtreeIsTree DEF Inside
  <2>4. k \in Nat
    <3>1. inside \in SUBSET Contexts  OBVIOUS
    <3> HIDE DEF inside
    <3> QED  BY <3>1, ConstantTypes, FS_Subset, FS_CardinalityType
  <2>5. l \in Int  BY <2>2 DEF NodeTypes, Records
  <2>6. l = k \/ (n = m_root /\ l = k - 1)
    <3> HIDE DEF inside
    <3> QED  BY <2>2, <2>3 DEF Balanced
  <2> HIDE DEF k, l
  <2>7. l - k = 0 \/ (n = m_root /\ l - k = -1)  BY <2>4, <2>5, <2>6
  <2> QED  BY <2>7 DEF k, l
<1> QED  BY <1>1, Invariance, PTL

\* No node leaks and none is deleted twice or while it is in use: the live tree, the trees
\* in the deletion queue and the deleted nodes are all there is, and apart.
THEOREM Ownership == Spec => []NodesOwnedOnce
<1>1. IInv => NodesOwnedOnce
  <2> SUFFICES ASSUME IInv  PROVE NodesOwnedOnce
    OBVIOUS
  <2>1. PICK lev : Inv(lev)  BY DEF IInv
  <2>2. Partition  BY <2>1 DEF Inv
  <2>3. ASSUME ~overtaken, NEW w \in Contexts
        PROVE  {cur[w], leaf[w]} \subseteq Live \cup {nullptr}
    <3>1. Placed(lev, w) /\ pc[w] \in ProgramCounters
      BY <2>1, <2>3 DEF Inv, Working, Types
    <3> QED  BY <3>1 DEF Placed, ProgramCounters, Claiming
  <2> QED  BY <2>2, <2>3 DEF Partition, NodesOwnedOnce
<1> QED  BY <1>1, Invariance, PTL

-----------------------------------------------------------------------------
(* The statistics of a node and of its children.                           *)

\* From Expand() on, until the root is backed up, a simulation owes its node cur a visit,
\* the number of the leaf's children and, once the leaf has its value, an action.
BackingUp == {"publish", "value", "backup"}
Arriving(n) == {w \in Contexts : pc[w] \in BackingUp /\ cur[w] = n}
Lens == [w \in Contexts |-> IF pc[w] \in BackingUp THEN ChLen(w) ELSE 0]
Carried == [w \in Contexts |-> IF pc[w] = "backup" THEN sign[w] ELSE 0]

Sizes == [x \in DOMAIN node |-> node[x].size]
Visits == [x \in DOMAIN node |-> node[x].visit_count]
Actions == [x \in DOMAIN node |-> node[x].total_action]

\* With what is owed, they agree.
SizeAdds(n) ==
    node[n].size + Total(Lens, Arriving(n)) = 1 + Total(Sizes, node[n].ch)
VisitsAdd(n) ==
    node[n].visit_count + Cardinality(Arriving(n)) = 1 + Total(Visits, node[n].ch)
ActionsAdd(n) ==
    node[n].total_action + Total(Carried, Arriving(n))
        = node[n].value - Total(Actions, node[n].ch)

Adds(n) == SizeAdds(n) /\ (node[n].ch # {} => VisitsAdd(n) /\ ActionsAdd(n))

\* Where the game is not over a leaf that was never expanded was never backed up.
Fresh(lev, n) ==
    node[n].ch = {} /\ lev[n] < GameLength =>
        node[n].visit_count = 0 /\ node[n].total_action = 0 /\ node[n].value = 0

\* What is backed up comes from a leaf that was expanded, or where the game is over; a
\* leaf of the first kind gets its value once.
Settled(lev, x) == node[x].ch # {} \/ lev[x] = GameLength

Owes(lev, w) ==
    /\ pc[w] \in BackingUp => Settled(lev, cur[w]) /\ Settled(lev, leaf[w])
    /\ pc[w] \in {"publish", "value"} /\ lev[leaf[w]] < GameLength =>
          node[leaf[w]].value = 0
    /\ pc[w] = "value" /\ lev[leaf[w]] < GameLength => IsExpanded(node, leaf[w])

OneValue(lev) ==
    \A v, w \in Contexts :
        pc[v] = "value" /\ pc[w] = "value" /\ leaf[v] = leaf[w]
          /\ lev[leaf[w]] < GameLength => v = w

Stats(lev) ==
    /\ \A n \in Live : Adds(n) /\ Fresh(lev, n)
    /\ \A w \in Contexts : Owes(lev, w)
    /\ OneValue(lev)

SumInv(lev) == Inv(lev) /\ (overtaken => InFlight # {}) /\ (~overtaken => Stats(lev))

-----------------------------------------------------------------------------
(* Levels and sums.                                                        *)

\* A node that stays in the tree of the root has one level.
LEMMA LevelsAgree ==
    ASSUME GameLength \in Nat, NEW nd, NEW lev, Forest(nd, lev), NEW new, NEW lv,
           Forest(new, lv), NEW r \in DOMAIN nd, lv[r] = lev[r],
           DOMAIN nd \subseteq DOMAIN new,
           \A x \in TreeOf(nd, r) : nd[x].ch \subseteq new[x].ch
    PROVE  \A x \in TreeOf(nd, r) : lv[x] = lev[x]
<1> DEFINE D == {x \in TreeOf(nd, r) : lv[x] = lev[x]}
<1>1. /\ r \in TreeOf(nd, r) /\ TreeOf(nd, r) \subseteq DOMAIN nd
      /\ \A x \in TreeOf(nd, r) : nd[x].ch \subseteq TreeOf(nd, r)
  BY TreeClosed
<1>2. ASSUME NEW x \in D, NEW c \in nd[x].ch  PROVE c \in D
  <2>1. x \in DOMAIN nd /\ x \in DOMAIN new /\ c \in new[x].ch /\ c \in TreeOf(nd, r)
    BY <1>1
  <2>2. lev[c] = lev[x] + 1 /\ lv[c] = lv[x] + 1  BY <2>1 DEF Forest
  <2> QED  BY <2>1, <2>2
<1>3. r \in D  BY <1>1
<1> HIDE DEF D
<1>4. TreeOf(nd, r) \subseteq D  BY <1>2, <1>3, TreeLeast
<1> QED  BY <1>4 DEF D

\* What is summed are integers, over finite sets.
SumFacts(lev) ==
    /\ \A x \in DOMAIN node :
          /\ Of(Sizes, x) = node[x].size /\ Of(Visits, x) = node[x].visit_count
          /\ Of(Actions, x) = node[x].total_action
          /\ node[x].size \in Int /\ node[x].visit_count \in Int
          /\ node[x].total_action \in Int /\ node[x].value \in Int
          /\ IsFiniteSet(node[x].ch) /\ node[x].ch \subseteq DOMAIN node
          /\ lev[x] \in 0..GameLength
          /\ node[x].ch # {} => lev[x] < GameLength
    /\ \A w \in Contexts :
          /\ Of(Lens, w) = (IF pc[w] \in BackingUp THEN ChLen(w) ELSE 0)
          /\ Of(Carried, w) = (IF pc[w] = "backup" THEN sign[w] ELSE 0)
          /\ Of(Lens, w) \in Int /\ Of(Carried, w) \in Int
          /\ pc[w] \in BackingUp =>
                /\ ChLen(w) \in Nat
                /\ {cur[w], leaf[w]} \subseteq Live /\ {cur[w], leaf[w]} \subseteq DOMAIN node
                /\ pc[w] # "backup" => cur[w] = leaf[w]
    /\ \A n : Arriving(n) \subseteq Contexts /\ IsFiniteSet(Arriving(n))
    /\ \A n : \A w \in Arriving(n) : Of(Lens, w) \in Int /\ Of(Carried, w) \in Int
    /\ \A x \in DOMAIN node : \A c \in node[x].ch :
          Of(Sizes, c) \in Int /\ Of(Visits, c) \in Int /\ Of(Actions, c) \in Int
    /\ Live \subseteq DOMAIN node
    /\ \A x \in Live : node[x].ch \subseteq Live

\* ... which hold.
LEMMA SumFactsHold == \A lev : Inv(lev) /\ ~overtaken => SumFacts(lev)
<1> SUFFICES ASSUME NEW lev, Inv(lev), ~overtaken  PROVE SumFacts(lev)
  OBVIOUS
<1>1. /\ NodeTypes /\ Forest(node, lev) /\ Live \subseteq DOMAIN node
      /\ sign \in [Contexts -> Int] /\ pc \in [Contexts -> ProgramCounters]
      /\ m_root \in DOMAIN node
  BY DEF Inv, Types, Depths, Partition
<1>2. GameLength \in Nat /\ IsFiniteSet(Contexts)  BY ConstantTypes
<1>3. ASSUME NEW x \in DOMAIN node
      PROVE  /\ Of(Sizes, x) = node[x].size /\ Of(Visits, x) = node[x].visit_count
             /\ Of(Actions, x) = node[x].total_action
             /\ node[x].size \in Int /\ node[x].visit_count \in Int
             /\ node[x].total_action \in Int /\ node[x].value \in Int
             /\ IsFiniteSet(node[x].ch) /\ node[x].ch \subseteq DOMAIN node
             /\ lev[x] \in 0..GameLength
             /\ node[x].ch # {} => lev[x] < GameLength
  <2>1. node[x] \in Records  BY <1>1 DEF NodeTypes
  <2>2. /\ node[x].size \in Int /\ node[x].visit_count \in Int
        /\ node[x].total_action \in Int /\ node[x].value \in Int
    BY <2>1 DEF Records
  <2>3. lev[x] \in 0..GameLength /\ node[x].ch \subseteq DOMAIN node  BY <1>1 DEF Forest
  <2>4. ASSUME NEW c \in node[x].ch  PROVE lev[x] < GameLength
    <3>1. lev[c] = lev[x] + 1 /\ lev[c] \in 0..GameLength  BY <1>1, <2>3 DEF Forest
    <3> QED  BY <1>2, <2>3, <3>1
  <2> QED  BY <1>1, <2>2, <2>3, <2>4 DEF Of, Sizes, Visits, Actions, NodeTypes
<1>4. ASSUME NEW w \in Contexts
      PROVE  /\ Of(Lens, w) = (IF pc[w] \in BackingUp THEN ChLen(w) ELSE 0)
             /\ Of(Carried, w) = (IF pc[w] = "backup" THEN sign[w] ELSE 0)
             /\ Of(Lens, w) \in Int /\ Of(Carried, w) \in Int
             /\ pc[w] \in BackingUp =>
                   /\ ChLen(w) \in Nat
                   /\ {cur[w], leaf[w]} \subseteq Live
                   /\ {cur[w], leaf[w]} \subseteq DOMAIN node
                   /\ pc[w] # "backup" => cur[w] = leaf[w]
  <2>1. Placed(lev, w)  BY DEF Inv, Working
  <2>2. ASSUME pc[w] \in BackingUp
        PROVE  /\ {cur[w], leaf[w]} \subseteq Live /\ {cur[w], leaf[w]} \subseteq DOMAIN node
               /\ pc[w] # "backup" => cur[w] = leaf[w]
    BY <1>1, <2>1, <2>2 DEF Placed, BackingUp, Claiming
  <2>3. ASSUME pc[w] \in BackingUp  PROVE ChLen(w) \in Nat
    BY <1>3, <2>2, <2>3, FS_CardinalityType DEF ChLen
  <2>4. Of(Lens, w) = (IF pc[w] \in BackingUp THEN ChLen(w) ELSE 0)  BY DEF Of, Lens
  <2>5. Of(Carried, w) = (IF pc[w] = "backup" THEN sign[w] ELSE 0)  BY DEF Of, Carried
  <2>6. Of(Lens, w) \in Int  BY <2>3, <2>4
  <2>7. Of(Carried, w) \in Int  BY <1>1, <2>5
  <2> QED  BY <2>2, <2>3, <2>4, <2>5, <2>6, <2>7
<1>5. \A n : Arriving(n) \subseteq Contexts /\ IsFiniteSet(Arriving(n))
  <2>1. \A n : Arriving(n) \in SUBSET Contexts  BY DEF Arriving
  <2> QED  BY <1>2, <2>1, FS_Subset
<1>6. \A x \in Live : node[x].ch \subseteq Live
  BY <1>1, <1>2, SubtreeIsTree, TreeClosed DEF Live
<1>7. \A x \in DOMAIN node : \A c \in node[x].ch :
          Of(Sizes, c) \in Int /\ Of(Visits, c) \in Int /\ Of(Actions, c) \in Int
  BY <1>3
<1> QED  BY <1>1, <1>3, <1>4, <1>5, <1>6, <1>7 DEF SumFacts

\* And after a step.
LEMMA SumFactsNext == \A lev : Inv(lev)' /\ ~overtaken' => SumFacts(lev)'
<1>1. (\A lev : Inv(lev) /\ ~overtaken => SumFacts(lev))'  BY SumFactsHold, PTL
<1> QED  BY <1>1

-----------------------------------------------------------------------------
(* Steps that back up nothing.                                             *)

\* The levels of the nodes that stay in the tree are what they were.
LEMMA LevelsStep ==
    ASSUME NEW lev, Inv(lev), NEW lv, Inv(lv)', UNCHANGED <<m_root, ply>>,
           DOMAIN node \subseteq DOMAIN node',
           \A x \in Live : node[x].ch \subseteq node'[x].ch
    PROVE  \A x \in Live : lv[x] = lev[x]
<1>1. /\ Forest(node, lev) /\ Forest(node', lv) /\ m_root \in DOMAIN node
      /\ lv[m_root] = lev[m_root]
  BY DEF Inv, Depths
<1>2. Live = TreeOf(node, m_root)  BY SubtreeIsTree DEF Live
<1>3. \A x \in TreeOf(node, m_root) : node[x].ch \subseteq node'[x].ch  BY <1>2
<1>4. GameLength \in Nat  BY ConstantTypes
<1>5. \A x \in TreeOf(node, m_root) : lv[x] = lev[x]
  BY <1>1, <1>3, <1>4, LevelsAgree
<1> QED  BY <1>2, <1>5

\* The statistics stay as they are, ...
SameStats ==
    /\ SameLinks(node, node')
    /\ \A x \in DOMAIN node :
          /\ node'[x].size = node[x].size /\ node'[x].visit_count = node[x].visit_count
          /\ node'[x].total_action = node[x].total_action /\ node'[x].value = node[x].value
          /\ IsExpanded(node, x) => IsExpanded(node', x)

\* ... and so does what w owes, ...
SameDebt(w) ==
    /\ pc'[w] \in BackingUp <=> pc[w] \in BackingUp
    /\ pc[w] \in BackingUp =>
          /\ cur'[w] = cur[w] /\ leaf'[w] = leaf[w] /\ sign'[w] = sign[w]
          /\ pc'[w] = "backup" <=> pc[w] = "backup"

\* ... although an expansion may be published.
SameOwed ==
    \A w \in Contexts :
        /\ SameDebt(w)
        /\ pc'[w] = "value" =>
              pc[w] = "value" \/ (pc[w] = "publish" /\ IsExpanded(node', leaf[w]))

\* What w adds to the sums is the same if its leaf has the children it had.
LEMMA DebtKept ==
    ASSUME NEW lev, Inv(lev), ~overtaken, NEW lv, Inv(lv)', ~overtaken',
           NEW w \in Contexts, SameDebt(w),
           pc[w] \in BackingUp => node'[leaf[w]].ch = node[leaf[w]].ch
    PROVE  Of(Lens', w) = Of(Lens, w) /\ Of(Carried', w) = Of(Carried, w)
<1>1. SumFacts(lev) /\ SumFacts(lv)'  BY SumFactsHold, SumFactsNext
<1>2. /\ Of(Lens', w) = (IF pc'[w] \in BackingUp THEN ChLen(w)' ELSE 0)
      /\ Of(Carried', w) = (IF pc'[w] = "backup" THEN sign'[w] ELSE 0)
  BY <1>1 DEF SumFacts
<1>3. /\ Of(Lens, w) = (IF pc[w] \in BackingUp THEN ChLen(w) ELSE 0)
      /\ Of(Carried, w) = (IF pc[w] = "backup" THEN sign[w] ELSE 0)
  BY <1>1 DEF SumFacts
<1>4. pc[w] \in BackingUp => ChLen(w)' = ChLen(w)  BY DEF ChLen, SameDebt
<1>5. pc[w] = "backup" => pc[w] \in BackingUp /\ pc'[w] = "backup" /\ sign'[w] = sign[w]
  BY DEF BackingUp, SameDebt
<1>6. pc'[w] = "backup" => pc[w] = "backup"  BY DEF BackingUp, SameDebt
<1> QED  BY <1>2, <1>3, <1>4, <1>5, <1>6 DEF SameDebt

\* The sums of n are those of m after the step, if its fields, its children and those
\* who are to back it up are the same.
LEMMA AddsKept ==
    ASSUME NEW lev, Inv(lev), ~overtaken, NEW lv, Inv(lv)', ~overtaken',
           NEW n \in DOMAIN node, Adds(n), NEW m \in DOMAIN node',
           node'[m].ch = node[n].ch, node'[m].size = node[n].size,
           node'[m].visit_count = node[n].visit_count,
           node'[m].total_action = node[n].total_action, node'[m].value = node[n].value,
           \A c \in node[n].ch :
              /\ c \in DOMAIN node' /\ node'[c].size = node[c].size
              /\ node'[c].visit_count = node[c].visit_count
              /\ node'[c].total_action = node[c].total_action,
           Arriving(m)' = Arriving(n),
           \A w \in Arriving(n) :
              Of(Lens', w) = Of(Lens, w) /\ Of(Carried', w) = Of(Carried, w)
    PROVE  Adds(m)'
<1>1. SumFacts(lev) /\ SumFacts(lv)'  BY SumFactsHold, SumFactsNext
<1>2. /\ Total(Lens', Arriving(n)) = Total(Lens, Arriving(n))
      /\ Total(Carried', Arriving(n)) = Total(Carried, Arriving(n))
  <2>1. IsFiniteSet(Arriving(n))  BY <1>1 DEF SumFacts
  <2> HIDE DEF Lens, Carried
  <2> QED  BY <2>1, TotalSame
<1>3. /\ Total(Sizes', node[n].ch) = Total(Sizes, node[n].ch)
      /\ Total(Visits', node[n].ch) = Total(Visits, node[n].ch)
      /\ Total(Actions', node[n].ch) = Total(Actions, node[n].ch)
  <2>1. IsFiniteSet(node[n].ch) /\ \A c \in node[n].ch : c \in DOMAIN node /\ c \in DOMAIN node'
    BY <1>1 DEF SumFacts
  <2>2. \A c \in node[n].ch : /\ Of(Sizes', c) = Of(Sizes, c)
                              /\ Of(Visits', c) = Of(Visits, c)
                              /\ Of(Actions', c) = Of(Actions, c)
    BY <1>1, <2>1 DEF SumFacts
  <2> QED  BY <2>1, <2>2, TotalSame
<1>4. SizeAdds(m)'  BY <1>2, <1>3 DEF Adds, SizeAdds
<1>5. ASSUME node[n].ch # {}  PROVE VisitsAdd(m)' /\ ActionsAdd(m)'
  BY <1>2, <1>3, <1>5 DEF Adds, VisitsAdd, ActionsAdd
<1> QED  BY <1>4, <1>5 DEF Adds

\* What is known of the nodes of one who owes the same stays known.
LEMMA OwesKept ==
    ASSUME NEW lev, Inv(lev), ~overtaken, NEW w \in Contexts, Owes(lev, w), SameDebt(w),
           NEW lv, \A x \in Live : lv[x] = lev[x],
           pc[w] \in BackingUp => /\ node[cur[w]].ch # {} => node'[cur[w]].ch # {}
                                  /\ node[leaf[w]].ch # {} => node'[leaf[w]].ch # {},
           pc'[w] \in {"publish", "value"} /\ lev[leaf[w]] < GameLength =>
              node'[leaf[w]].value = node[leaf[w]].value,
           pc'[w] = "value" /\ lev[leaf[w]] < GameLength =>
              \/ pc[w] = "value" /\ (IsExpanded(node, leaf[w]) => IsExpanded(node', leaf[w]))
              \/ IsExpanded(node', leaf[w])
    PROVE  Owes(lv, w)'
<1>1. CASE pc'[w] \in BackingUp
  <2>1. /\ pc[w] \in BackingUp /\ cur'[w] = cur[w] /\ leaf'[w] = leaf[w]
        /\ pc'[w] = "backup" <=> pc[w] = "backup"
    BY <1>1 DEF SameDebt
  <2>2. lv[cur[w]] = lev[cur[w]] /\ lv[leaf[w]] = lev[leaf[w]]
    <3>1. {cur[w], leaf[w]} \subseteq Live  BY <2>1, SumFactsHold DEF SumFacts
    <3> QED  BY <3>1
  <2>3. Settled(lv, cur[w])' /\ Settled(lv, leaf[w])'
    BY <2>1, <2>2 DEF Owes, Settled
  <2>4. pc'[w] \in {"publish", "value"} => pc[w] \in {"publish", "value"}
    BY <2>1 DEF BackingUp
  <2> QED  BY <2>1, <2>2, <2>3, <2>4 DEF Owes, IsExpanded, Settled
<1>2. CASE pc'[w] \notin BackingUp  BY <1>2 DEF Owes, BackingUp
<1> QED  BY <1>1, <1>2

\* Nothing changes in the sums.
LEMMA CalmStats ==
    ASSUME NEW lev, Inv(lev), ~overtaken, Stats(lev), NEW lv, Inv(lv)', ~overtaken',
           UNCHANGED <<m_root, ply>>, SameStats, SameOwed
    PROVE  Stats(lv)'
<1>1. SumFacts(lev)  BY SumFactsHold
<1>2. /\ Live' = Live /\ Live \subseteq DOMAIN node /\ DOMAIN node' = DOMAIN node
      /\ \A x \in DOMAIN node : node'[x].ch = node[x].ch
  BY <1>1, LinksStep DEF SameStats, SameLinks, SumFacts
<1>3. \A x \in Live : lv[x] = lev[x]
  BY <1>2, LevelsStep
<1>4. \A w \in Contexts : pc[w] \in BackingUp =>
         /\ cur[w] \in Live /\ leaf[w] \in Live
         /\ cur[w] \in DOMAIN node /\ leaf[w] \in DOMAIN node
  BY <1>1 DEF SumFacts
<1>5. \A w \in Contexts : Of(Lens', w) = Of(Lens, w) /\ Of(Carried', w) = Of(Carried, w)
  BY <1>2, <1>4, DebtKept DEF SameOwed
<1>6. \A n : Arriving(n)' = Arriving(n)
  BY DEF Arriving, SameOwed, SameDebt
<1>7. ASSUME NEW n \in Live  PROVE Adds(n)' /\ Fresh(lv, n)'
  <2>1. Adds(n) /\ Fresh(lev, n) /\ n \in DOMAIN node /\ n \in DOMAIN node'
    BY <1>2 DEF Stats
  <2>2. /\ node'[n].ch = node[n].ch /\ node'[n].size = node[n].size
        /\ node'[n].visit_count = node[n].visit_count
        /\ node'[n].total_action = node[n].total_action /\ node'[n].value = node[n].value
    BY <2>1 DEF SameStats, SameLinks
  <2>3. \A c \in node[n].ch :
           /\ c \in DOMAIN node' /\ node'[c].size = node[c].size
           /\ node'[c].visit_count = node[c].visit_count
           /\ node'[c].total_action = node[c].total_action
    BY <1>1, <1>2, <2>1 DEF SameStats, SumFacts
  <2>4. \A w \in Arriving(n) : w \in Contexts  BY DEF Arriving
  <2>5. Adds(n)'  BY <1>5, <1>6, <2>1, <2>2, <2>3, <2>4, AddsKept
  <2>6. Fresh(lv, n)'  BY <1>3, <2>1, <2>2 DEF Fresh
  <2> QED  BY <2>5, <2>6
<1>8. ASSUME NEW w \in Contexts  PROVE Owes(lv, w)'
  <2>1. Owes(lev, w) /\ SameDebt(w)  BY DEF Stats, SameOwed
  <2>2. pc[w] \in BackingUp => /\ node[cur[w]].ch # {} => node'[cur[w]].ch # {}
                               /\ node[leaf[w]].ch # {} => node'[leaf[w]].ch # {}
    BY <1>2, <1>4
  <2>3. pc'[w] \in {"publish", "value"} =>
           /\ node'[leaf[w]].value = node[leaf[w]].value
           /\ IsExpanded(node, leaf[w]) => IsExpanded(node', leaf[w])
    BY <1>4, <2>1 DEF SameDebt, BackingUp, SameStats
  <2>4. pc'[w] = "value" =>
           \/ pc[w] = "value" /\ (IsExpanded(node, leaf[w]) => IsExpanded(node', leaf[w]))
           \/ IsExpanded(node', leaf[w])
    BY <2>3 DEF SameOwed
  <2> QED  BY <1>3, <2>1, <2>2, <2>3, <2>4, OwesKept
<1>9. OneValue(lv)'
  <2> SUFFICES ASSUME NEW v \in Contexts, NEW w \in Contexts, pc'[v] = "value",
                      pc'[w] = "value", leaf'[v] = leaf'[w], lv[leaf'[w]] < GameLength
               PROVE  v = w
    BY DEF OneValue
  <2>1. /\ pc[v] \in BackingUp /\ pc[w] \in BackingUp
        /\ leaf'[v] = leaf[v] /\ leaf'[w] = leaf[w]
    BY DEF SameOwed, SameDebt, BackingUp
  <2>2. leaf[v] = leaf[w] /\ lev[leaf[w]] < GameLength
    <3>1. leaf[v] = leaf[w] /\ lv[leaf[w]] < GameLength  BY <2>1
    <3>2. lv[leaf[w]] = lev[leaf[w]]  BY <1>3, <1>4, <2>1
    <3> QED  BY <3>1, <3>2
  <2>3. pc[v] \in {"value", "publish"} /\ pc[w] \in {"value", "publish"}  BY DEF SameOwed
  <2>4. \A u \in Contexts : pc[u] = "publish" => ~IsExpanded(node, leaf[u])
    BY DEF Inv, Claims, Claiming, IsExpanded
  <2>5. \A u \in Contexts : pc[u] = "value" /\ leaf[u] = leaf[w] => IsExpanded(node, leaf[u])
    BY <2>2 DEF Stats, Owes
  <2>6. CASE pc[v] = "publish" /\ pc[w] = "publish"
    BY <2>2, <2>6 DEF Inv, Claims, Claiming
  <2>7. CASE pc[v] = "value" /\ pc[w] = "value"
    BY <2>2, <2>7 DEF Stats, OneValue
  <2> QED  BY <2>2, <2>3, <2>4, <2>5, <2>6, <2>7
<1> QED  BY <1>2, <1>7, <1>8, <1>9 DEF Stats

\* A virtual loss is no statistic ...
LEMMA LossStats ==
    ASSUME NodeTypes, NEW x \in DOMAIN node, NEW i \in Int,
           node' = [node EXCEPT ![x].virtual_loss_count = i]
    PROVE  SameStats
<1>1. SameLinks(node, node') /\ DOMAIN node' = DOMAIN node  BY LossStep
<1>2. ASSUME NEW y \in DOMAIN node
      PROVE  /\ node'[y].size = node[y].size /\ node'[y].visit_count = node[y].visit_count
             /\ node'[y].total_action = node[y].total_action /\ node'[y].value = node[y].value
             /\ node'[y].expand_state = node[y].expand_state
  <2>1. CASE y = x
    <3> DEFINE r == node[x]
    <3>1. r \in Records /\ node'[x] = [r EXCEPT !.virtual_loss_count = i]
      BY DEF NodeTypes
    <3> HIDE DEF r
    <3>2. LET u == [r EXCEPT !.virtual_loss_count = i]
          IN  /\ u.size = r.size /\ u.visit_count = r.visit_count
              /\ u.total_action = r.total_action /\ u.value = r.value
              /\ u.expand_state = r.expand_state
      BY <3>1 DEF Records
    <3> QED  BY <2>1, <3>1, <3>2 DEF r
  <2>2. CASE y # x  BY <2>2
  <2> QED  BY <2>1, <2>2
<1> QED  BY <1>1, <1>2 DEF SameStats, IsExpanded

\* ... and neither is the state.
LEMMA StateStats ==
    ASSUME NodeTypes, NEW x \in DOMAIN node, NEW i \in {"unexpanded", "expanding", "expanded"},
           i = "expanded" \/ ~IsExpanded(node, x),
           node' = [node EXCEPT ![x].expand_state = i]
    PROVE  SameStats /\ node'[x].expand_state = i
<1>1. SameLinks(node, node') /\ DOMAIN node' = DOMAIN node /\ node'[x].expand_state = i
  BY StateStep
<1>2. ASSUME NEW y \in DOMAIN node
      PROVE  /\ node'[y].size = node[y].size /\ node'[y].visit_count = node[y].visit_count
             /\ node'[y].total_action = node[y].total_action /\ node'[y].value = node[y].value
  <2>1. CASE y = x
    <3> DEFINE r == node[x]
    <3>1. r \in Records /\ node'[x] = [r EXCEPT !.expand_state = i]
      BY DEF NodeTypes
    <3> HIDE DEF r
    <3>2. LET u == [r EXCEPT !.expand_state = i]
          IN  /\ u.size = r.size /\ u.visit_count = r.visit_count
              /\ u.total_action = r.total_action /\ u.value = r.value
      BY <3>1 DEF Records
    <3> QED  BY <2>1, <3>1, <3>2 DEF r
  <2>2. CASE y # x  BY <2>2
  <2> QED  BY <2>1, <2>2
<1>3. \A y \in DOMAIN node : IsExpanded(node, y) => IsExpanded(node', y)
  BY <1>1, StateStep DEF IsExpanded
<1> QED  BY <1>1, <1>2, <1>3 DEF SameStats

\* A context that backs up nothing, before the step and after it, owes nothing.
LEMMA OthersOwe ==
    ASSUME NEW w \in Contexts, pc[w] \notin BackingUp, pc'[w] \notin BackingUp,
           \A v \in Contexts \ {w} :
              pc'[v] = pc[v] /\ cur'[v] = cur[v] /\ leaf'[v] = leaf[v] /\ sign'[v] = sign[v]
    PROVE  SameOwed
BY DEF SameOwed, SameDebt, BackingUp

\* So it is until a leaf is expanded ...
LEMMA SearchCalm ==
    ASSUME NEW lev, Inv(lev), ~overtaken, NEW w \in Workers, SearchRoutine(w)
    PROVE  SameStats /\ SameOwed /\ UNCHANGED <<m_root, ply, overtaken>>
<1>0. w \in Contexts  BY DEF Contexts
<1>1. /\ Types /\ NodeTypes /\ Placed(lev, w) /\ m_root \in DOMAIN node
      /\ Live \subseteq DOMAIN node
      /\ \A x \in Live : node[x].ch \subseteq Live
      /\ \A x \in DOMAIN node : node[x].virtual_loss_count \in Int
  BY <1>0, InvFacts
<1>2. UNCHANGED node => SameStats  BY DEF SameStats, SameLinks
<1>3. CASE SimBegin(w)
  <2>1. SameStats
    <3> DEFINE i == node[m_root].virtual_loss_count + 1
    <3>1. i \in Int /\ node' = [node EXCEPT ![m_root].virtual_loss_count = i]
      BY <1>1, <1>3 DEF SimBegin
    <3> HIDE DEF i
    <3> QED  BY <1>1, <3>1, LossStats
  <2>2. SameOwed
    BY <1>0, <1>1, <1>3, OthersOwe DEF SimBegin, Goto, BackingUp, Types
  <2> QED  BY <1>3, <2>1, <2>2 DEF SimBegin, engineVars
<1>4. CASE SimDescend(w)
  <2>1. PICK c \in node[cur[w]].ch :
           /\ cur' = [cur EXCEPT ![w] = c]
           /\ node' = [node EXCEPT ![c].virtual_loss_count = @ + 1]
    BY <1>4 DEF SimDescend
  <2>2. c \in DOMAIN node
    BY <1>1, <1>4 DEF SimDescend, Goto, Placed
  <2>3. SameStats
    <3> DEFINE i == node[c].virtual_loss_count + 1
    <3>1. i \in Int /\ node' = [node EXCEPT ![c].virtual_loss_count = i]
      BY <1>1, <2>1, <2>2
    <3> HIDE DEF i
    <3> QED  BY <1>1, <2>2, <3>1, LossStats
  <2>4. SameOwed
    BY <1>0, <1>1, <1>4, <2>1, OthersOwe DEF SimDescend, Goto, BackingUp, Types
  <2> QED  BY <1>4, <2>3, <2>4 DEF SimDescend, engineVars
<1>5. CASE SimLeaf(w)
  <2>1. SameOwed
    BY <1>0, <1>1, <1>5, OthersOwe DEF SimLeaf, Goto, BackingUp, Types
  <2> QED  BY <1>2, <1>5, <2>1 DEF SimLeaf, engineVars
<1>6. CASE SimClaim(w)
  <2>1. SameStats
    <3>1. CASE UNCHANGED node  BY <1>2, <3>1
    <3>2. CASE /\ pc[w] = "claim" /\ node[leaf[w]].expand_state = "unexpanded"
               /\ node' = [node EXCEPT ![leaf[w]].expand_state = "expanding"]
      <4>1. leaf[w] \in DOMAIN node /\ ~IsExpanded(node, leaf[w])
        BY <1>1, <3>2 DEF Placed, IsExpanded
      <4> QED  BY <1>1, <3>2, <4>1, StateStats
    <3> QED  BY <1>6, <3>1, <3>2 DEF SimClaim, Goto
  <2>2. /\ pc[w] = "claim" /\ pc'[w] \notin BackingUp
        /\ \A v \in Contexts \ {w} : pc'[v] = pc[v]
        /\ UNCHANGED <<cur, leaf, sign>>
    BY <1>0, <1>1, <1>6 DEF SimClaim, Goto, BackingUp, Types
  <2>3. SameOwed  BY <1>0, <2>2, OthersOwe DEF BackingUp
  <2> QED  BY <1>6, <2>1, <2>3 DEF SimClaim, engineVars
<1>7. CASE SimHandOff(w)
  <2>1. PICK c \in Callbacks \ InFlight :
           /\ pc' = [pc EXCEPT ![w] = "idle", ![c] = "eval"]
           /\ cur' = [cur EXCEPT ![w] = nullptr, ![c] = cur[w]]
           /\ leaf' = [leaf EXCEPT ![w] = nullptr, ![c] = leaf[w]]
    BY <1>7 DEF SimHandOff
  <2>2. pc[w] = "eval" /\ UNCHANGED sign /\ pc[c] = "idle" /\ c \in Contexts /\ w # c
    BY <1>7, <2>1, TreeAssumption DEF SimHandOff, InFlight, Contexts
  <2>3. SameOwed  BY <1>0, <1>1, <2>1, <2>2 DEF SameOwed, SameDebt, BackingUp, Types
  <2> QED  BY <1>2, <1>7, <2>3 DEF SimHandOff, engineVars
<1> QED  BY <1>3, <1>4, <1>5, <1>6, <1>7 DEF SearchRoutine

\* ... or where it is not, and at the end.
CalmRest(w) ==
    \/ SimEvalFails(w) \/ SimEvalSucceeds(w) \/ SimPublish(w) \/ SimEnd(w)
    \/ SimUndo(w) \/ SimUndone(w)

\* Such a step changes nothing that SumInv is about.
LEMMA RestCalm ==
    ASSUME NEW lev, Inv(lev), ~overtaken, NEW w \in Contexts, CalmRest(w)
    PROVE  SameStats /\ SameOwed /\ UNCHANGED <<m_root, ply, overtaken>>
<1>1. /\ Types /\ NodeTypes /\ Placed(lev, w) /\ m_root \in DOMAIN node
      /\ Live \subseteq DOMAIN node
      /\ \A x \in DOMAIN node : node[x].virtual_loss_count \in Int
  BY InvFacts
<1>2. UNCHANGED node => SameStats  BY DEF SameStats, SameLinks
<1>3. pc[w] \in Claiming => leaf[w] \in DOMAIN node /\ ~IsExpanded(node, leaf[w])
  BY <1>1 DEF Placed, Inv, Claims, Claiming, IsExpanded
<1>4. CASE SimEvalFails(w)
  <2>1. SameStats
    <3>1. leaf[w] \in DOMAIN node /\ ~IsExpanded(node, leaf[w])
      BY <1>3, <1>4 DEF SimEvalFails, Goto, Claiming
    <3>2. node' = [node EXCEPT ![leaf[w]].expand_state = "unexpanded"]
      BY <1>4 DEF SimEvalFails
    <3> QED  BY <1>1, <3>1, <3>2, StateStats
  <2>2. SameOwed
    BY <1>1, <1>4, OthersOwe DEF SimEvalFails, Goto, BackingUp, Types
  <2> QED  BY <1>4, <2>1, <2>2 DEF SimEvalFails, engineVars
<1>5. CASE SimEvalSucceeds(w)
  <2>1. PICK v \in Values : sign' = [sign EXCEPT ![w] = v]  BY <1>5 DEF SimEvalSucceeds
  <2>2. SameOwed
    BY <1>1, <1>5, <2>1, OthersOwe DEF SimEvalSucceeds, Goto, BackingUp, Types
  <2> QED  BY <1>2, <1>5, <2>2 DEF SimEvalSucceeds, engineVars
<1>6. CASE SimPublish(w)
  <2>1. /\ pc[w] = "publish" /\ pc' = [pc EXCEPT ![w] = "value"]
        /\ node' = [node EXCEPT ![leaf[w]].expand_state = "expanded"]
        /\ UNCHANGED <<m_root, ply, overtaken, cur, leaf, sign>>
    BY <1>6 DEF SimPublish, Goto, engineVars
  <2>2. SameStats /\ IsExpanded(node', leaf[w])
    <3>1. leaf[w] \in DOMAIN node  BY <1>3, <2>1 DEF Claiming
    <3>2. SameStats /\ node'[leaf[w]].expand_state = "expanded"
      BY <1>1, <2>1, <3>1, StateStats
    <3> QED  BY <3>2 DEF IsExpanded
  <2>3. SameOwed
    <3>1. pc'[w] = "value" /\ \A v \in Contexts \ {w} : pc'[v] = pc[v]
      BY <1>1, <2>1 DEF Types
    <3> QED  BY <2>1, <2>2, <3>1 DEF SameOwed, SameDebt, BackingUp
  <2> QED  BY <2>1, <2>2, <2>3
<1>7. CASE SimEnd(w)
  <2>1. SameOwed
    BY <1>1, <1>7, OthersOwe DEF SimEnd, Goto, BackingUp, Types
  <2> QED  BY <1>2, <1>7, <2>1 DEF SimEnd
<1>8. CASE SimUndo(w)
  <2>1. cur[w] \in DOMAIN node
    BY <1>1, <1>8 DEF SimUndo, Goto, Placed
  <2>2. SameStats
    <3> DEFINE i == node[cur[w]].virtual_loss_count - 1
    <3>1. i \in Int /\ node' = [node EXCEPT ![cur[w]].virtual_loss_count = i]
      BY <1>1, <1>8, <2>1 DEF SimUndo
    <3> HIDE DEF i
    <3> QED  BY <1>1, <2>1, <3>1, LossStats
  <2>3. SameOwed
    BY <1>1, <1>8, OthersOwe DEF SimUndo, Goto, BackingUp, Types
  <2> QED  BY <1>8, <2>2, <2>3 DEF SimUndo, engineVars
<1>9. CASE SimUndone(w)
  <2>1. SameOwed
    BY <1>1, <1>9, OthersOwe DEF SimUndone, Goto, BackingUp, Types
  <2> QED  BY <1>2, <1>9, <2>1 DEF SimUndone, engineVars
<1> QED  BY <1>4, <1>5, <1>6, <1>7, <1>8, <1>9 DEF CalmRest

\* The other threads leave the statistics alone but for InitRoot() and ChangeRoot().
LEMMA CallsCalm ==
    ASSUME SearchResume \/ SearchPauseSet \/ SearchPauseJoin \/ DeleteTree \/ UNCHANGED vars
    PROVE  SameStats /\ SameOwed /\ UNCHANGED <<m_root, ply, overtaken>>
<1>1. UNCHANGED <<node, m_root, ply, overtaken, pc, cur, leaf, sign>>
  BY DEF SearchResume, SearchPauseSet, SearchPauseJoin, DeleteTree, vars, engineVars, locals
<1> QED  BY <1>1 DEF SameStats, SameLinks, SameOwed, SameDebt

-----------------------------------------------------------------------------
(* Steps that back up.                                                     *)

\* No context but w moves.
OthersStay(w) ==
    \A v \in Contexts \ {w} :
        pc'[v] = pc[v] /\ cur'[v] = cur[v] /\ leaf'[v] = leaf[v] /\ sign'[v] = sign[v]

\* While w moves in a tree that stays as it is, the others owe what they did.
LEMMA MovedFacts ==
    ASSUME NEW lev, Inv(lev), ~overtaken, NEW lv, Inv(lv)', ~overtaken',
           NEW w \in Contexts, OthersStay(w), UNCHANGED <<m_root, ply>>,
           SameLinks(node, node')
    PROVE  /\ Live' = Live /\ Live \subseteq DOMAIN node /\ DOMAIN node' = DOMAIN node
           /\ \A x \in DOMAIN node : node'[x].ch = node[x].ch
           /\ \A x \in Live : lv[x] = lev[x]
           /\ \A v \in Contexts \ {w} : /\ SameDebt(v)
                                        /\ Of(Lens', v) = Of(Lens, v)
                                        /\ Of(Carried', v) = Of(Carried, v)
           /\ \A n : Arriving(n)' \ {w} = Arriving(n) \ {w}
<1>1. SumFacts(lev)  BY SumFactsHold
<1>2. /\ Live' = Live /\ Live \subseteq DOMAIN node /\ DOMAIN node' = DOMAIN node
      /\ \A x \in DOMAIN node : node'[x].ch = node[x].ch
  BY <1>1, LinksStep DEF SameLinks, SumFacts
<1>3. \A x \in Live : lv[x] = lev[x]
  BY <1>2, LevelsStep
<1>4. ASSUME NEW v \in Contexts \ {w}
      PROVE  SameDebt(v) /\ Of(Lens', v) = Of(Lens, v) /\ Of(Carried', v) = Of(Carried, v)
  <2>1. SameDebt(v)  BY DEF SameDebt, OthersStay
  <2>2. pc[v] \in BackingUp => leaf[v] \in DOMAIN node  BY <1>1 DEF SumFacts
  <2> QED  BY <1>2, <2>1, <2>2, DebtKept
<1>5. \A n : Arriving(n)' \ {w} = Arriving(n) \ {w}  BY DEF Arriving, OthersStay
<1> QED  BY <1>2, <1>3, <1>4, <1>5

\* And what is known of their nodes stays known, if w does not begin to give a leaf its
\* value where the game goes on.
LEMMA MovedOwes ==
    ASSUME NEW lev, Inv(lev), ~overtaken, Stats(lev), NEW lv,
           \A x \in Live : lv[x] = lev[x], NEW w \in Contexts, OthersStay(w),
           \A x \in Live : node[x].ch # {} => node'[x].ch # {},
           \A v \in Contexts \ {w} :
              pc[v] \in {"publish", "value"} /\ lev[leaf[v]] < GameLength =>
                 /\ node'[leaf[v]].value = node[leaf[v]].value
                 /\ IsExpanded(node, leaf[v]) => IsExpanded(node', leaf[v]),
           pc'[w] = "value" => ~(lv[leaf'[w]] < GameLength)
    PROVE  OneValue(lv)' /\ \A v \in Contexts \ {w} : Owes(lv, v)'
<1>1. SumFacts(lev)  BY SumFactsHold
<1>2. \A v \in Contexts : pc[v] \in BackingUp => cur[v] \in Live /\ leaf[v] \in Live
  BY <1>1 DEF SumFacts
<1>3. ASSUME NEW v \in Contexts \ {w}  PROVE Owes(lv, v)'
  <2>1. SameDebt(v) /\ pc'[v] = pc[v]  BY DEF SameDebt, OthersStay
  <2>2. Owes(lev, v)  BY DEF Stats
  <2>3. pc[v] \in BackingUp => /\ node[cur[v]].ch # {} => node'[cur[v]].ch # {}
                               /\ node[leaf[v]].ch # {} => node'[leaf[v]].ch # {}
    BY <1>2
  <2> QED  BY <2>1, <2>2, <2>3, OwesKept
<1>4. OneValue(lv)'
  <2> SUFFICES ASSUME NEW u \in Contexts, NEW v \in Contexts, pc'[u] = "value",
                      pc'[v] = "value", leaf'[u] = leaf'[v], lv[leaf'[v]] < GameLength
               PROVE  u = v
    BY DEF OneValue
  <2>1. u # w /\ v # w  OBVIOUS
  <2>2. pc[u] = "value" /\ pc[v] = "value" /\ leaf[u] = leaf[v] /\ lv[leaf[v]] < GameLength
    BY <2>1 DEF OthersStay
  <2>3. lv[leaf[v]] = lev[leaf[v]]  BY <1>2, <2>2 DEF BackingUp
  <2> QED  BY <2>2, <2>3 DEF Stats, OneValue
<1> QED  BY <1>3, <1>4

\* A position where the game is over has no children to be backed up.
LEMMA OverStats ==
    ASSUME NEW lev, Inv(lev), ~overtaken, Stats(lev), NEW lv, Inv(lv)', ~overtaken',
           NEW w \in Contexts, SimExpandOver(w)
    PROVE  Stats(lv)'
<1>0. \E l : l = leaf[w]  OBVIOUS
<1> PICK l : l = leaf[w]  BY <1>0
<1>1. /\ pc[w] = "expand" /\ pc' = [pc EXCEPT ![w] = "value"] /\ board[w] = GameLength
      /\ node' = [node EXCEPT ![l].expand_state = "unexpanded"]
      /\ UNCHANGED <<m_root, ply, cur, leaf, sign>>
  BY DEF SimExpandOver, Goto, engineVars
<1>2. /\ Types /\ NodeTypes /\ Placed(lev, w) /\ Live \subseteq DOMAIN node
  BY InvFacts
<1>3. l \in Live /\ l \in DOMAIN node /\ cur[w] = l /\ lev[l] = GameLength
  BY <1>1, <1>2 DEF Placed, Claiming
<1>4. SumFacts(lev) /\ SumFacts(lv)'  BY SumFactsHold, SumFactsNext
<1>5. node[l].ch = {} /\ GameLength \in Nat
  BY <1>3, <1>4, ConstantTypes DEF SumFacts
<1>6. SameStats
  <2>1. ~IsExpanded(node, l)  BY <1>1 DEF Inv, Claims, Claiming, IsExpanded
  <2> QED  BY <1>1, <1>2, <1>3, <2>1, StateStats
<1>7. OthersStay(w) /\ pc'[w] = "value"  BY <1>1, <1>2 DEF OthersStay, Types
<1>8. /\ Live' = Live /\ DOMAIN node' = DOMAIN node
      /\ \A x \in DOMAIN node : node'[x].ch = node[x].ch
      /\ \A x \in Live : lv[x] = lev[x]
      /\ \A v \in Contexts \ {w} : /\ SameDebt(v)
                                   /\ Of(Lens', v) = Of(Lens, v)
                                   /\ Of(Carried', v) = Of(Carried, v)
      /\ \A n : Arriving(n)' \ {w} = Arriving(n) \ {w}
  <2>1. SameLinks(node, node') /\ UNCHANGED <<m_root, ply>>  BY <1>1, <1>6 DEF SameStats
  <2> QED  BY <1>7, <2>1, MovedFacts
<1>9. /\ \A n : w \notin Arriving(n)
      /\ Arriving(l)' = Arriving(l) \cup {w}
      /\ \A n : n # l => Arriving(n)' = Arriving(n)
  <2>1. \A n : w \notin Arriving(n)  BY <1>1 DEF Arriving, BackingUp
  <2>2. \A n : w \in Arriving(n)' <=> n = l
    BY <1>1, <1>3, <1>7 DEF Arriving, BackingUp
  <2> QED  BY <1>8, <2>1, <2>2
<1>10. ASSUME NEW n \in Live  PROVE Adds(n)' /\ Fresh(lv, n)'
  <2>1. Adds(n) /\ Fresh(lev, n) /\ n \in DOMAIN node /\ n \in DOMAIN node'
    BY <1>2, <1>8 DEF Stats
  <2>2. /\ node'[n].ch = node[n].ch /\ node'[n].size = node[n].size
        /\ node'[n].visit_count = node[n].visit_count
        /\ node'[n].total_action = node[n].total_action /\ node'[n].value = node[n].value
    BY <1>6, <2>1 DEF SameStats, SameLinks
  <2>3. Fresh(lv, n)'  BY <1>8, <2>1, <2>2 DEF Fresh
  <2>4. CASE n # l
    <3>1. \A c \in node[n].ch :
             /\ c \in DOMAIN node' /\ node'[c].size = node[c].size
             /\ node'[c].visit_count = node[c].visit_count
             /\ node'[c].total_action = node[c].total_action
      BY <1>4, <1>6, <1>8, <2>1 DEF SameStats, SumFacts
    <3>2. Arriving(n)' = Arriving(n) /\ \A v \in Arriving(n) : v \in Contexts \ {w}
      BY <1>9, <2>4 DEF Arriving
    <3> QED  BY <1>8, <2>1, <2>2, <2>3, <3>1, <3>2, AddsKept
  <2>5. CASE n = l
    <3>1. Of(Lens', w) = 0
      <4>1. ChLen(w)' = Cardinality(node'[l].ch)  BY <1>1 DEF ChLen
      <4>2. node'[l].ch = {}  BY <1>3, <1>5, <1>8
      <4>3. Of(Lens', w) = ChLen(w)'  BY <1>4, <1>7 DEF SumFacts, BackingUp
      <4> QED  BY <4>1, <4>2, <4>3, FS_EmptySet
    <3>2. Total(Lens', Arriving(l)') = Total(Lens, Arriving(l))
      <4>1. /\ IsFiniteSet(Arriving(l)) /\ \A v \in Arriving(l) : v \in Contexts \ {w}
            /\ \A v \in Arriving(l) \cup {w} : Of(Lens', v) \in Int
        <5>1. Arriving(l) \subseteq Contexts /\ IsFiniteSet(Arriving(l))  BY <1>4 DEF SumFacts
        <5>2. \A v \in Contexts : Of(Lens', v) \in Int  BY <1>4 DEF SumFacts
        <5> QED  BY <1>9, <5>1, <5>2
      <4>2. Total(Lens', Arriving(l) \cup {w}) = Total(Lens', Arriving(l))
        BY <3>1, <4>1, TotalMore
      <4>3. Total(Lens', Arriving(l)) = Total(Lens, Arriving(l))
        BY <1>8, <4>1, TotalSame
      <4> QED  BY <1>9, <4>2, <4>3
    <3>3. Total(Sizes', node'[l].ch) = Total(Sizes, node[l].ch)
      <4>1. node'[l].ch = {} /\ node[l].ch = {}  BY <1>3, <1>5, <1>8
      <4> QED  BY <4>1, TotalEmpty
    <3>4. SizeAdds(l)'  BY <2>1, <2>2, <2>5, <3>2, <3>3 DEF Adds, SizeAdds
    <3>5. node'[l].ch = {}  BY <1>3, <1>5, <1>8
    <3> QED  BY <2>3, <2>5, <3>4, <3>5 DEF Adds
  <2> QED  BY <2>4, <2>5
<1>11. OneValue(lv)' /\ \A v \in Contexts \ {w} : Owes(lv, v)'
  <2>1. \A x \in Live : node[x].ch # {} => node'[x].ch # {}  BY <1>2, <1>8
  <2>2. \A v \in Contexts : pc[v] \in {"publish", "value"} => leaf[v] \in DOMAIN node
    BY <1>4 DEF SumFacts, BackingUp
  <2>3. lv[leaf'[w]] = GameLength  BY <1>1, <1>3, <1>8
  <2>4. ~(lv[leaf'[w]] < GameLength)  BY <1>5, <2>3
  <2> QED  BY <1>6, <1>7, <1>8, <2>1, <2>2, <2>4, MovedOwes DEF SameStats
<1>12. Owes(lv, w)'
  <2>1. lv[l] = GameLength /\ cur'[w] = l /\ leaf'[w] = l  BY <1>1, <1>3, <1>8
  <2> QED  BY <1>5, <1>7, <2>1 DEF Owes, Settled
<1> QED  BY <1>8, <1>10, <1>11, <1>12 DEF Stats

\* The value of a leaf is set.
LEMMA ValueFields ==
    ASSUME NodeTypes, NEW x \in DOMAIN node, NEW i \in Int,
           node' = [node EXCEPT ![x].value = i]
    PROVE  /\ SameLinks(node, node')
           /\ \A y \in DOMAIN node :
                 /\ node'[y].size = node[y].size
                 /\ node'[y].visit_count = node[y].visit_count
                 /\ node'[y].total_action = node[y].total_action
                 /\ node'[y].expand_state = node[y].expand_state
                 /\ node'[y].value = IF y = x THEN i ELSE node[y].value
<1> DEFINE r == node[x]
           u == [r EXCEPT !.value = i]
<1>1. r \in Records  BY DEF NodeTypes
<1>2. u \in Records /\ u.ch = r.ch /\ u.fa = r.fa /\ u.expand_state = r.expand_state
  <2> HIDE DEF r
  <2> QED  BY <1>1, FieldTypes
<1>3. u.size = r.size /\ u.visit_count = r.visit_count /\ u.total_action = r.total_action
      /\ u.value = i
  <2> HIDE DEF r
  <2> QED  BY <1>1 DEF Records
<1>4. node' = [node EXCEPT ![x] = u]  OBVIOUS
<1> HIDE DEF u
<1>5. /\ SameLinks(node, node') /\ node'[x] = u
      /\ \A y \in DOMAIN node : y # x => node'[y] = node[y]
  BY <1>2, <1>4, RecordStep
<1>6. ASSUME NEW y \in DOMAIN node
      PROVE  /\ node'[y].size = node[y].size
             /\ node'[y].visit_count = node[y].visit_count
             /\ node'[y].total_action = node[y].total_action
             /\ node'[y].expand_state = node[y].expand_state
             /\ node'[y].value = IF y = x THEN i ELSE node[y].value
  <2>1. CASE y = x  BY <1>2, <1>3, <1>5, <2>1
  <2>2. CASE y # x  BY <1>5, <2>2
  <2> QED  BY <2>1, <2>2
<1> QED  BY <1>5, <1>6

\* A leaf gets its value, which is owed to it as an action from then on.
LEMMA ValueStats ==
    ASSUME NEW lev, Inv(lev), ~overtaken, Stats(lev), NEW lv, Inv(lv)', ~overtaken',
           NEW w \in Contexts, SimValue(w)
    PROVE  Stats(lv)'
<1>0. (\E x : x = leaf[w]) /\ \E s : s = sign[w]  OBVIOUS
<1> PICK x : x = leaf[w]  BY <1>0
<1> PICK s : s = sign[w]  BY <1>0
<1>1. /\ pc[w] = "value" /\ pc' = [pc EXCEPT ![w] = "backup"]
      /\ node' = [node EXCEPT ![x].value = s]
      /\ UNCHANGED <<m_root, ply, cur, leaf, sign>>
  BY DEF SimValue, Goto, engineVars
<1>2. /\ Types /\ NodeTypes /\ Placed(lev, w) /\ Live \subseteq DOMAIN node
  BY InvFacts
<1>3. x \in Live /\ x \in DOMAIN node /\ cur[w] = x /\ s \in Int
  BY <1>1, <1>2 DEF Placed, Types
<1>4. SumFacts(lev) /\ SumFacts(lv)'  BY SumFactsHold, SumFactsNext
<1>5. /\ SameLinks(node, node')
      /\ \A y \in DOMAIN node :
            /\ node'[y].size = node[y].size
            /\ node'[y].visit_count = node[y].visit_count
            /\ node'[y].total_action = node[y].total_action
            /\ node'[y].expand_state = node[y].expand_state
            /\ node'[y].value = IF y = x THEN s ELSE node[y].value
  BY <1>1, <1>2, <1>3, ValueFields
<1>6. OthersStay(w) /\ pc'[w] = "backup"  BY <1>1, <1>2 DEF OthersStay, Types
<1>7. /\ Live' = Live /\ DOMAIN node' = DOMAIN node
      /\ \A y \in DOMAIN node : node'[y].ch = node[y].ch
      /\ \A y \in Live : lv[y] = lev[y]
      /\ \A v \in Contexts \ {w} : /\ SameDebt(v)
                                   /\ Of(Lens', v) = Of(Lens, v)
                                   /\ Of(Carried', v) = Of(Carried, v)
      /\ \A n : Arriving(n)' \ {w} = Arriving(n) \ {w}
  <2>1. UNCHANGED <<m_root, ply>> /\ SameLinks(node, node')  BY <1>1, <1>5
  <2> QED  BY <1>6, <2>1, MovedFacts
<1>8. Arriving(x)' = Arriving(x) /\ w \in Arriving(x)
      /\ \A n : n # x => Arriving(n)' = Arriving(n) /\ w \notin Arriving(n)
  <2>1. w \in Arriving(x) /\ w \in Arriving(x)'
    BY <1>1, <1>3, <1>6 DEF Arriving, BackingUp
  <2>2. \A n : n # x => w \notin Arriving(n) /\ w \notin Arriving(n)'
    BY <1>1, <1>3 DEF Arriving
  <2>3. Arriving(x)' = Arriving(x)
    <3>1. Arriving(x)' \ {w} = Arriving(x) \ {w}  BY <1>7
    <3> HIDE DEF Arriving
    <3> QED  BY <2>1, <3>1
  <2>4. ASSUME NEW n, n # x  PROVE Arriving(n)' = Arriving(n)
    <3>1. Arriving(n)' \ {w} = Arriving(n) \ {w}  BY <1>7
    <3> QED  BY <2>2, <2>4, <3>1
  <2> QED  BY <2>1, <2>2, <2>3, <2>4
<1>9. Of(Lens', w) = Of(Lens, w) /\ Of(Carried, w) = 0 /\ Of(Carried', w) = s
  <2>1. ChLen(w)' = ChLen(w)  BY <1>1, <1>3, <1>7 DEF ChLen
  <2> QED  BY <1>1, <1>4, <1>6, <2>1 DEF SumFacts, BackingUp
<1>10. Settled(lev, x) /\ (lev[x] < GameLength => node[x].value = 0 /\ IsExpanded(node, x))
  BY <1>1 DEF Stats, Owes, BackingUp
<1>11. ASSUME NEW n \in Live  PROVE Adds(n)' /\ Fresh(lv, n)'
  <2>1. Adds(n) /\ Fresh(lev, n) /\ n \in DOMAIN node /\ n \in DOMAIN node'
    BY <1>2, <1>7 DEF Stats
  <2>2. \A c \in node[n].ch :
             /\ c \in DOMAIN node /\ c \in DOMAIN node' /\ node'[c].size = node[c].size
             /\ node'[c].visit_count = node[c].visit_count
             /\ node'[c].total_action = node[c].total_action
    BY <1>4, <1>5, <1>7, <2>1 DEF SumFacts
  <2>3. CASE n # x
    <3>1. Fresh(lv, n)'
      BY <1>5, <1>7, <2>1, <2>3 DEF Fresh
    <3>2. Arriving(n)' = Arriving(n) /\ \A v \in Arriving(n) : v \in Contexts \ {w}
      BY <1>8, <2>3 DEF Arriving
    <3> QED  BY <1>5, <1>7, <2>1, <2>2, <2>3, <3>1, <3>2, AddsKept
  <2>4. CASE n = x
    <3>1. Fresh(lv, x)'
      <4>1. lv[x] = lev[x] /\ node'[x].ch = node[x].ch  BY <1>3, <1>7
      <4>2. GameLength \in Nat  BY ConstantTypes
      <4> QED  BY <1>10, <4>1, <4>2 DEF Fresh, Settled
    <3>2. Arriving(x) \subseteq Contexts /\ IsFiniteSet(Arriving(x))
          /\ \A v \in Arriving(x) : Of(Lens, v) \in Int /\ Of(Carried, v) \in Int
      BY <1>4 DEF SumFacts
    <3>3. Total(Lens', Arriving(x)) = Total(Lens, Arriving(x))
      <4>1. \A v \in Arriving(x) : Of(Lens', v) = Of(Lens, v)  BY <1>7, <1>9, <3>2
      <4> QED  BY <3>2, <4>1, TotalSame
    <3>4. /\ Total(Carried', Arriving(x)) = Total(Carried, Arriving(x)) + s
          /\ Total(Carried, Arriving(x)) \in Int
      <4>1. \A v \in Arriving(x) \ {w} : Of(Carried', v) = Of(Carried, v)
        BY <1>7, <3>2
      <4>2. Total(Carried', Arriving(x))
              = Total(Carried, Arriving(x)) - Of(Carried, w) + Of(Carried', w)
        BY <1>3, <1>8, <1>9, <3>2, <4>1, TotalChange
      <4>3. Total(Carried, Arriving(x)) \in Int  BY <3>2, TotalType
      <4> QED  BY <1>3, <1>9, <4>2, <4>3
    <3>5. /\ Total(Sizes', node[x].ch) = Total(Sizes, node[x].ch)
          /\ Total(Visits', node[x].ch) = Total(Visits, node[x].ch)
          /\ Total(Actions', node[x].ch) = Total(Actions, node[x].ch)
      <4>1. IsFiniteSet(node[x].ch)  BY <1>3, <1>4 DEF SumFacts
      <4>2. \A c \in node[x].ch : /\ Of(Sizes', c) = Of(Sizes, c)
                                  /\ Of(Visits', c) = Of(Visits, c)
                                  /\ Of(Actions', c) = Of(Actions, c)
        BY <1>4, <2>2, <2>4 DEF SumFacts
      <4> QED  BY <4>1, <4>2, TotalSame
    <3>6. SizeAdds(x)'
      BY <1>3, <1>5, <1>7, <1>8, <2>1, <2>4, <3>3, <3>5 DEF Adds, SizeAdds
    <3>7. ASSUME node[x].ch # {}  PROVE VisitsAdd(x)' /\ ActionsAdd(x)'
      <4>1. VisitsAdd(x) /\ ActionsAdd(x)  BY <2>1, <2>4, <3>7 DEF Adds
      <4>2. VisitsAdd(x)'  BY <1>3, <1>5, <1>7, <1>8, <3>5, <4>1 DEF VisitsAdd
      <4>3. lev[x] < GameLength  BY <1>3, <1>4, <3>7 DEF SumFacts
      <4>4. node[x].value = 0  BY <1>10, <4>3
      <4>5. Total(Actions, node[x].ch) \in Int /\ node[x].total_action \in Int
        <5>1. /\ IsFiniteSet(node[x].ch) /\ \A c \in node[x].ch : Of(Actions, c) \in Int
              /\ node[x].total_action \in Int
          BY <1>3, <1>4 DEF SumFacts
        <5> QED  BY <5>1, TotalType
      <4>6. node[x].total_action + Total(Carried, Arriving(x)) + s
              = s - Total(Actions, node[x].ch)
        BY <1>3, <3>4, <4>1, <4>4, <4>5 DEF ActionsAdd
      <4>7. node[x].total_action + (Total(Carried, Arriving(x)) + s)
              = s - Total(Actions, node[x].ch)
        BY <1>3, <3>4, <4>5, <4>6
      <4>8. ActionsAdd(x)'
        BY <1>3, <1>5, <1>7, <1>8, <3>4, <3>5, <4>7 DEF ActionsAdd
      <4> QED  BY <4>2, <4>8
    <3> QED  BY <1>3, <1>7, <2>4, <3>1, <3>6, <3>7 DEF Adds
  <2> QED  BY <2>3, <2>4
<1>12. OneValue(lv)' /\ \A v \in Contexts \ {w} : Owes(lv, v)'
  <2>1. \A y \in Live : node[y].ch # {} => node'[y].ch # {}  BY <1>2, <1>7
  <2>2. ASSUME NEW v \in Contexts \ {w}, pc[v] \in {"publish", "value"},
               lev[leaf[v]] < GameLength
        PROVE  /\ node'[leaf[v]].value = node[leaf[v]].value
               /\ IsExpanded(node, leaf[v]) => IsExpanded(node', leaf[v])
    <3>1. leaf[v] \in DOMAIN node  BY <1>4, <2>2 DEF SumFacts, BackingUp
    <3>2. leaf[v] # x
      <4> SUFFICES ASSUME leaf[v] = x  PROVE FALSE
        OBVIOUS
      <4>1. IsExpanded(node, x)  BY <1>10, <2>2
      <4>2. pc[v] = "value"
        BY <2>2, <4>1 DEF Inv, Claims, Claiming, IsExpanded
      <4> QED  BY <1>1, <2>2, <4>2 DEF Stats, OneValue
    <3> QED  BY <1>5, <3>1, <3>2 DEF IsExpanded
  <2> QED  BY <1>6, <1>7, <2>1, <2>2, MovedOwes
<1>13. Owes(lv, w)'
  <2>1. lv[x] = lev[x] /\ cur'[w] = x /\ leaf'[w] = x /\ node'[x].ch = node[x].ch
    BY <1>1, <1>3, <1>7
  <2> QED  BY <1>6, <1>10, <2>1 DEF Owes, Settled
<1> QED  BY <1>7, <1>11, <1>12, <1>13 DEF Stats

\* A node is backed up.
LEMMA BackedUpFields ==
    ASSUME NodeTypes, NEW x \in DOMAIN node, NEW i \in Int, NEW k \in Nat,
           node' = [node EXCEPT ![x] = BackedUp(node[x], i, k)]
    PROVE  /\ SameLinks(node, node')
           /\ \A y \in DOMAIN node :
                 /\ node'[y].value = node[y].value
                 /\ node'[y].expand_state = node[y].expand_state
                 /\ y # x => /\ node'[y].size = node[y].size
                             /\ node'[y].visit_count = node[y].visit_count
                             /\ node'[y].total_action = node[y].total_action
           /\ node'[x].size = node[x].size + k
           /\ node'[x].visit_count = node[x].visit_count + 1
           /\ node'[x].total_action = node[x].total_action + i
<1> DEFINE r == node[x]
           u == BackedUp(r, i, k)
<1>1. r \in Records  BY DEF NodeTypes
<1>2. u \in Records /\ u.ch = r.ch /\ u.fa = r.fa /\ u.expand_state = r.expand_state
  <2> HIDE DEF r
  <2> QED  BY <1>1, BackedUpTypes
<1>3. /\ u.size = r.size + k /\ u.visit_count = r.visit_count + 1
      /\ u.total_action = r.total_action + i /\ u.value = r.value
  <2> HIDE DEF r
  <2> DEFINE a == [r EXCEPT !.size = @ + k]
             b == [a EXCEPT !.visit_count = @ + 1]
             c == [b EXCEPT !.virtual_loss_count = @ - 1]
             d == [c EXCEPT !.total_action = @ + i]
  <2>1. u = d  BY DEF BackedUp
  <2>2. /\ a \in Records /\ a.size = r.size + k /\ a.visit_count = r.visit_count
        /\ a.total_action = r.total_action /\ a.value = r.value
    BY <1>1 DEF Records
  <2> HIDE DEF a
  <2>3. /\ b \in Records /\ b.size = a.size /\ b.visit_count = a.visit_count + 1
        /\ b.total_action = a.total_action /\ b.value = a.value
    BY <2>2 DEF Records
  <2> HIDE DEF b
  <2>4. /\ c \in Records /\ c.size = b.size /\ c.visit_count = b.visit_count
        /\ c.total_action = b.total_action /\ c.value = b.value
    BY <2>3 DEF Records
  <2> HIDE DEF c
  <2>5. /\ d.size = c.size /\ d.visit_count = c.visit_count
        /\ d.total_action = c.total_action + i /\ d.value = c.value
    BY <2>4 DEF Records
  <2> HIDE DEF d
  <2> QED  BY <2>1, <2>2, <2>3, <2>4, <2>5
<1>4. node' = [node EXCEPT ![x] = u]  OBVIOUS
<1> HIDE DEF u
<1>5. /\ SameLinks(node, node') /\ node'[x] = u
      /\ \A y \in DOMAIN node : y # x => node'[y] = node[y]
  BY <1>2, <1>4, RecordStep
<1>6. ASSUME NEW y \in DOMAIN node
      PROVE  /\ node'[y].value = node[y].value
             /\ node'[y].expand_state = node[y].expand_state
             /\ y # x => /\ node'[y].size = node[y].size
                         /\ node'[y].visit_count = node[y].visit_count
                         /\ node'[y].total_action = node[y].total_action
  <2>1. CASE y = x  BY <1>2, <1>3, <1>5, <2>1
  <2>2. CASE y # x  BY <1>5, <2>2
  <2> QED  BY <2>1, <2>2
<1> QED  BY <1>3, <1>5, <1>6

\* The statistics change at x alone, where they grow by what w owes it; w goes on to p.
BackedUpAt(w, x, p) ==
    /\ UNCHANGED <<m_root, ply>> /\ SameLinks(node, node') /\ OthersStay(w)
    /\ x \in DOMAIN node /\ node[x].fa = p /\ pc[w] = "backup" /\ cur[w] = x
    /\ pc'[w] = IF p = nullptr THEN "count" ELSE "backup"
    /\ cur'[w] = p /\ leaf'[w] = leaf[w] /\ sign'[w] = - sign[w]
    /\ \A y \in DOMAIN node :
          /\ node'[y].value = node[y].value
          /\ node'[y].expand_state = node[y].expand_state
          /\ y # x => /\ node'[y].size = node[y].size
                      /\ node'[y].visit_count = node[y].visit_count
                      /\ node'[y].total_action = node[y].total_action
    /\ node'[x].size = node[x].size + ChLen(w)
    /\ node'[x].visit_count = node[x].visit_count + 1
    /\ node'[x].total_action = node[x].total_action + sign[w]

\* SimBackup does that to a live node.
LEMMA BackupIs ==
    ASSUME NEW lev, Inv(lev), ~overtaken, NEW w \in Contexts, SimBackup(w)
    PROVE  \E x \in Live : \E p : BackedUpAt(w, x, p)
<1>0. \E x, p, s, k : x = cur[w] /\ p = node[cur[w]].fa /\ s = sign[w] /\ k = ChLen(w)
  OBVIOUS
<1> PICK x, p, s, k : x = cur[w] /\ p = node[cur[w]].fa /\ s = sign[w] /\ k = ChLen(w)
  BY <1>0
<1>1. /\ pc[w] = "backup"
      /\ pc' = [pc EXCEPT ![w] = IF p = nullptr THEN "count" ELSE "backup"]
      /\ node' = [node EXCEPT ![x] = BackedUp(node[x], s, k)]
      /\ cur' = [cur EXCEPT ![w] = p] /\ sign' = [sign EXCEPT ![w] = -s]
      /\ UNCHANGED <<m_root, ply, leaf>>
  BY DEF SimBackup, Goto, engineVars
<1>2. /\ Types /\ NodeTypes /\ Placed(lev, w) /\ Live \subseteq DOMAIN node
  BY InvFacts
<1>3. x \in Live /\ x \in DOMAIN node /\ s \in Int
  BY <1>1, <1>2 DEF Placed, Types
<1>4. k \in Nat  BY <1>1, SumFactsHold DEF SumFacts, BackingUp
<1>5. /\ SameLinks(node, node')
      /\ \A y \in DOMAIN node :
            /\ node'[y].value = node[y].value
            /\ node'[y].expand_state = node[y].expand_state
            /\ y # x => /\ node'[y].size = node[y].size
                        /\ node'[y].visit_count = node[y].visit_count
                        /\ node'[y].total_action = node[y].total_action
      /\ node'[x].size = node[x].size + k
      /\ node'[x].visit_count = node[x].visit_count + 1
      /\ node'[x].total_action = node[x].total_action + s
  <2>1. node' = [node EXCEPT ![x] = BackedUp(node[x], s, k)]  BY <1>1
  <2> QED  BY <1>2, <1>3, <1>4, <2>1, BackedUpFields
<1>6. OthersStay(w)  BY <1>1, <1>2 DEF OthersStay, Types
<1>7. /\ pc'[w] = IF p = nullptr THEN "count" ELSE "backup"
      /\ cur'[w] = p /\ leaf'[w] = leaf[w] /\ sign'[w] = - s
  BY <1>1, <1>2 DEF Types
<1>8. BackedUpAt(w, x, p)  BY <1>1, <1>3, <1>5, <1>6, <1>7 DEF BackedUpAt
<1> QED  BY <1>3, <1>8

\* Where w is and what it owes.
LEMMA BackupFacts ==
    ASSUME NEW lev, Inv(lev), ~overtaken, Stats(lev), NEW lv, Inv(lv)', ~overtaken',
           NEW w \in Contexts, NEW x \in Live, NEW p, BackedUpAt(w, x, p)
    PROVE  /\ Live' = Live /\ Live \subseteq DOMAIN node /\ DOMAIN node' = DOMAIN node
           /\ \A y \in DOMAIN node : node'[y].ch = node[y].ch
           /\ \A y \in Live : lv[y] = lev[y]
           /\ \A v \in Contexts \ {w} : /\ SameDebt(v)
                                        /\ Of(Lens', v) = Of(Lens, v)
                                        /\ Of(Carried', v) = Of(Carried, v)
           /\ w \in Arriving(x) /\ Arriving(x)' = Arriving(x) \ {w}
           /\ \A n \in Live : n # x =>
                 /\ w \notin Arriving(n)
                 /\ Arriving(n)' = IF n = p THEN Arriving(n) \cup {w} ELSE Arriving(n)
           /\ \A n \in Live : x \in node[n].ch <=> n = p
           /\ x # p /\ x \notin node[x].ch
           /\ Of(Lens, w) = ChLen(w) /\ Of(Carried, w) = sign[w] /\ sign[w] \in Int
           /\ p # nullptr => /\ Of(Lens', w) = ChLen(w) /\ Of(Carried', w) = - sign[w]
                             /\ p \in Live
<1>1. SumFacts(lev) /\ SumFacts(lv)'  BY SumFactsHold, SumFactsNext
<1>2. /\ Live' = Live /\ Live \subseteq DOMAIN node /\ DOMAIN node' = DOMAIN node
      /\ \A y \in DOMAIN node : node'[y].ch = node[y].ch
      /\ \A y \in Live : lv[y] = lev[y]
      /\ \A v \in Contexts \ {w} : /\ SameDebt(v)
                                   /\ Of(Lens', v) = Of(Lens, v)
                                   /\ Of(Carried', v) = Of(Carried, v)
      /\ \A n : Arriving(n)' \ {w} = Arriving(n) \ {w}
  <2>1. UNCHANGED <<m_root, ply>> /\ SameLinks(node, node') /\ OthersStay(w)
    BY DEF BackedUpAt
  <2> QED  BY <2>1, MovedFacts
<1>3. /\ Forest(node, lev) /\ sign[w] \in Int /\ nullptr \notin DOMAIN node
      /\ node[m_root].fa = nullptr
      /\ \A y \in Live : y # m_root => node[y].fa # nullptr /\ node[y].fa \in Live
  <2>1. Types  BY InvFacts
  <2> QED  BY <2>1, InvFacts DEF Types
<1>4. /\ pc[w] = "backup" /\ cur[w] = x /\ node[x].fa = p
      /\ pc'[w] = IF p = nullptr THEN "count" ELSE "backup"
      /\ cur'[w] = p /\ leaf'[w] = leaf[w] /\ sign'[w] = - sign[w]
  BY DEF BackedUpAt
<1>5. p # nullptr => p \in Live /\ x \in node[p].ch
  BY <1>2, <1>3, <1>4 DEF Forest
<1>6. \A n \in Live : x \in node[n].ch <=> n = p
  BY <1>2, <1>3, <1>4, <1>5 DEF Forest
<1>7. x # p /\ x \notin node[x].ch
  <2>1. \A c \in node[x].ch : lev[c] = lev[x] + 1 /\ lev[x] \in Int
    BY <1>1, <1>2, <1>3 DEF Forest, SumFacts
  <2>2. x \notin node[x].ch  BY <2>1
  <2> QED  BY <1>6, <2>2
<1>8. w \in Arriving(x) /\ Arriving(x)' = Arriving(x) \ {w}
  <2>1. w \in Arriving(x) /\ w \notin Arriving(x)'
    BY <1>4, <1>7 DEF Arriving, BackingUp
  <2>2. Arriving(x)' \ {w} = Arriving(x) \ {w}  BY <1>2
  <2> QED  BY <2>1, <2>2
<1>9. ASSUME NEW n \in Live, n # x
      PROVE  /\ w \notin Arriving(n)
             /\ Arriving(n)' = IF n = p THEN Arriving(n) \cup {w} ELSE Arriving(n)
  <2>1. w \notin Arriving(n)  BY <1>4, <1>9 DEF Arriving
  <2>2. n # nullptr  BY <1>2, <1>3
  <2>3. w \in Arriving(n)' <=> n = p  BY <1>4, <2>2 DEF Arriving, BackingUp
  <2>4. Arriving(n)' \ {w} = Arriving(n) \ {w}  BY <1>2
  <2> QED  BY <2>1, <2>3, <2>4
<1>10. Of(Lens, w) = ChLen(w) /\ Of(Carried, w) = sign[w]
  BY <1>1, <1>4 DEF SumFacts, BackingUp
<1>11. ASSUME p # nullptr  PROVE Of(Lens', w) = ChLen(w) /\ Of(Carried', w) = - sign[w]
  <2>1. leaf[w] \in DOMAIN node  BY <1>1, <1>4 DEF SumFacts, BackingUp
  <2>2. ChLen(w)' = ChLen(w)  BY <1>2, <1>4, <2>1 DEF ChLen
  <2> QED  BY <1>1, <1>4, <1>11, <2>2 DEF SumFacts, BackingUp
<1> QED  BY <1>2, <1>3, <1>5, <1>6, <1>7, <1>8, <1>9, <1>10, <1>11

\* The node that is left has got what w owed it, ...
LEMMA LeftAdds ==
    ASSUME NEW lev, Inv(lev), ~overtaken, Stats(lev), NEW lv, Inv(lv)', ~overtaken',
           NEW w \in Contexts, NEW x \in Live, NEW p, BackedUpAt(w, x, p)
    PROVE  Adds(x)'
<1>1. SumFacts(lev) /\ SumFacts(lv)' /\ Adds(x)
  BY SumFactsHold, SumFactsNext DEF Stats
<1>2. /\ Live \subseteq DOMAIN node /\ DOMAIN node' = DOMAIN node /\ x \in DOMAIN node
      /\ node'[x].ch = node[x].ch
      /\ \A v \in Contexts \ {w} : /\ Of(Lens', v) = Of(Lens, v)
                                   /\ Of(Carried', v) = Of(Carried, v)
      /\ w \in Arriving(x) /\ Arriving(x)' = Arriving(x) \ {w}
      /\ x \notin node[x].ch
      /\ Of(Lens, w) = ChLen(w) /\ Of(Carried, w) = sign[w] /\ sign[w] \in Int
  BY BackupFacts
<1>3. /\ node'[x].size = node[x].size + ChLen(w)
      /\ node'[x].visit_count = node[x].visit_count + 1
      /\ node'[x].total_action = node[x].total_action + sign[w]
      /\ node'[x].value = node[x].value
      /\ \A c \in node[x].ch :
            /\ c \in DOMAIN node /\ node'[c].size = node[c].size
            /\ node'[c].visit_count = node[c].visit_count
            /\ node'[c].total_action = node[c].total_action
  BY <1>1, <1>2 DEF BackedUpAt, SumFacts
<1> DEFINE A == Arriving(x)
           B == A \ {w}
<1>4. /\ A \subseteq Contexts /\ IsFiniteSet(A) /\ IsFiniteSet(B)
      /\ \A v \in A : Of(Lens, v) \in Int /\ Of(Carried, v) \in Int
  <2>1. /\ A \subseteq Contexts /\ IsFiniteSet(A)
        /\ \A v \in A : Of(Lens, v) \in Int /\ Of(Carried, v) \in Int
    BY <1>1 DEF SumFacts
  <2> HIDE DEF A
  <2> QED  BY <2>1, FS_RemoveElement
<1>5. /\ Total(Lens, A) = ChLen(w) + Total(Lens', B)
      /\ Total(Carried, A) = sign[w] + Total(Carried', B)
      /\ Total(Lens', B) \in Int /\ Total(Carried', B) \in Int
      /\ Cardinality(A) = Cardinality(B) + 1 /\ Cardinality(B) \in Nat
  <2>0. w \in A  BY <1>2
  <2> HIDE DEF A
  <2>1. Total(Lens, A) = ChLen(w) + Total(Lens, B)  BY <1>2, <1>4, <2>0, TotalRemove
  <2>2. Total(Carried, A) = sign[w] + Total(Carried, B)  BY <1>2, <1>4, <2>0, TotalRemove
  <2>3. \A v \in B : Of(Lens', v) = Of(Lens, v) /\ Of(Carried', v) = Of(Carried, v)
    BY <1>2, <1>4
  <2>4. Total(Lens', B) = Total(Lens, B) /\ Total(Carried', B) = Total(Carried, B)
    BY <1>4, <2>3, TotalSame
  <2>5. Total(Lens, B) \in Int /\ Total(Carried, B) \in Int  BY <1>4, TotalType
  <2>6. Cardinality(A) = Cardinality(B) + 1 /\ Cardinality(B) \in Nat
    BY <1>4, <2>0, FS_RemoveElement, FS_CardinalityType
  <2> QED  BY <2>1, <2>2, <2>4, <2>5, <2>6
<1>6. /\ Total(Sizes', node[x].ch) = Total(Sizes, node[x].ch)
      /\ Total(Visits', node[x].ch) = Total(Visits, node[x].ch)
      /\ Total(Actions', node[x].ch) = Total(Actions, node[x].ch)
  <2>1. IsFiniteSet(node[x].ch)  BY <1>1, <1>2 DEF SumFacts
  <2>2. \A c \in node[x].ch : /\ Of(Sizes', c) = Of(Sizes, c)
                              /\ Of(Visits', c) = Of(Visits, c)
                              /\ Of(Actions', c) = Of(Actions, c)
    BY <1>1, <1>2, <1>3 DEF SumFacts
  <2> QED  BY <2>1, <2>2, TotalSame
<1>7. /\ node[x].size \in Int /\ node[x].visit_count \in Int /\ node[x].total_action \in Int
      /\ ChLen(w) \in Int
  BY <1>1, <1>2, <1>4 DEF SumFacts
<1>8. SizeAdds(x)'
  <2>1. node[x].size + (ChLen(w) + Total(Lens', B)) = 1 + Total(Sizes, node[x].ch)
    BY <1>1, <1>5 DEF Adds, SizeAdds
  <2>2. (node[x].size + ChLen(w)) + Total(Lens', B) = 1 + Total(Sizes, node[x].ch)
    BY <1>5, <1>7, <2>1
  <2> QED  BY <1>2, <1>3, <1>6, <2>2 DEF SizeAdds
<1>9. ASSUME node[x].ch # {}  PROVE VisitsAdd(x)' /\ ActionsAdd(x)'
  <2>1. VisitsAdd(x)'
    <3>1. node[x].visit_count + (Cardinality(B) + 1) = 1 + Total(Visits, node[x].ch)
      BY <1>1, <1>5, <1>9 DEF Adds, VisitsAdd
    <3>2. (node[x].visit_count + 1) + Cardinality(B) = 1 + Total(Visits, node[x].ch)
      BY <1>5, <1>7, <3>1
    <3> QED  BY <1>2, <1>3, <1>6, <3>2 DEF VisitsAdd
  <2>2. ActionsAdd(x)'
    <3>1. node[x].total_action + (sign[w] + Total(Carried', B))
            = node[x].value - Total(Actions, node[x].ch)
      BY <1>1, <1>5, <1>9 DEF Adds, ActionsAdd
    <3>2. (node[x].total_action + sign[w]) + Total(Carried', B)
            = node[x].value - Total(Actions, node[x].ch)
      BY <1>2, <1>5, <1>7, <3>1
    <3> QED  BY <1>2, <1>3, <1>6, <3>2 DEF ActionsAdd
  <2> QED  BY <2>1, <2>2
<1> QED  BY <1>2, <1>8, <1>9 DEF Adds

\* ... which w owes the parent then.
LEMMA JoinedAdds ==
    ASSUME NEW lev, Inv(lev), ~overtaken, Stats(lev), NEW lv, Inv(lv)', ~overtaken',
           NEW w \in Contexts, NEW x \in Live, NEW p \in Live, BackedUpAt(w, x, p),
           p # nullptr
    PROVE  Adds(p)'
<1>1. SumFacts(lev) /\ SumFacts(lv)' /\ Adds(p)
  BY SumFactsHold, SumFactsNext DEF Stats
<1>2. /\ Live \subseteq DOMAIN node /\ DOMAIN node' = DOMAIN node
      /\ p \in DOMAIN node /\ x \in DOMAIN node /\ x # p
      /\ node'[p].ch = node[p].ch /\ x \in node[p].ch
      /\ \A v \in Contexts \ {w} : /\ Of(Lens', v) = Of(Lens, v)
                                   /\ Of(Carried', v) = Of(Carried, v)
      /\ w \notin Arriving(p) /\ Arriving(p)' = Arriving(p) \cup {w}
      /\ Of(Lens', w) = ChLen(w) /\ Of(Carried', w) = - sign[w] /\ sign[w] \in Int
  BY BackupFacts
<1>3. /\ node'[p].size = node[p].size /\ node'[p].visit_count = node[p].visit_count
      /\ node'[p].total_action = node[p].total_action /\ node'[p].value = node[p].value
      /\ node'[x].size = node[x].size + ChLen(w)
      /\ node'[x].visit_count = node[x].visit_count + 1
      /\ node'[x].total_action = node[x].total_action + sign[w]
      /\ \A c \in node[p].ch \ {x} :
            /\ c \in DOMAIN node /\ node'[c].size = node[c].size
            /\ node'[c].visit_count = node[c].visit_count
            /\ node'[c].total_action = node[c].total_action
  BY <1>1, <1>2 DEF BackedUpAt, SumFacts
<1>4. /\ node[p].size \in Int /\ node[p].visit_count \in Int
      /\ node[p].total_action \in Int /\ node[p].value \in Int
      /\ node[x].size \in Int /\ node[x].visit_count \in Int /\ node[x].total_action \in Int
      /\ ChLen(w) \in Int
  <2>1. Of(Lens', w) \in Int  BY <1>1 DEF SumFacts
  <2> QED  BY <1>1, <1>2, <2>1 DEF SumFacts
<1> DEFINE A == Arriving(p)
           B == A \cup {w}
           C == node[p].ch
<1>5. /\ Total(Lens', B) = ChLen(w) + Total(Lens, A)
      /\ Total(Carried', B) = Total(Carried, A) - sign[w]
      /\ Total(Lens, A) \in Int /\ Total(Carried, A) \in Int
      /\ Cardinality(B) = Cardinality(A) + 1 /\ Cardinality(A) \in Nat
  <2>1. /\ A \subseteq Contexts /\ IsFiniteSet(A)
        /\ \A v \in A : Of(Lens, v) \in Int /\ Of(Carried, v) \in Int
        /\ \A v \in Contexts : Of(Lens', v) \in Int /\ Of(Carried', v) \in Int
    BY <1>1 DEF SumFacts
  <2>2. w \notin A  BY <1>2
  <2> HIDE DEF A
  <2>3. \A v \in A : Of(Lens', v) = Of(Lens, v) /\ Of(Carried', v) = Of(Carried, v)
    BY <1>2, <2>1, <2>2
  <2>4. Total(Lens', A) = Total(Lens, A) /\ Total(Carried', A) = Total(Carried, A)
    BY <2>1, <2>3, TotalSame
  <2>5. \A v \in B : Of(Lens', v) \in Int /\ Of(Carried', v) \in Int  BY <2>1
  <2>6. /\ Total(Lens', B) = ChLen(w) + Total(Lens', A)
        /\ Total(Carried', B) = - sign[w] + Total(Carried', A)
    BY <1>2, <2>1, <2>2, <2>5, TotalAdd
  <2>7. Total(Lens, A) \in Int /\ Total(Carried, A) \in Int  BY <2>1, TotalType
  <2>8. Cardinality(B) = Cardinality(A) + 1 /\ Cardinality(A) \in Nat
    BY <2>1, <2>2, FS_AddElement, FS_CardinalityType
  <2> QED  BY <1>2, <2>4, <2>6, <2>7, <2>8
<1>6. /\ Total(Sizes', C) = Total(Sizes, C) + ChLen(w)
      /\ Total(Visits', C) = Total(Visits, C) + 1
      /\ Total(Actions', C) = Total(Actions, C) + sign[w]
      /\ Total(Sizes, C) \in Int /\ Total(Visits, C) \in Int /\ Total(Actions, C) \in Int
  <2>1. /\ IsFiniteSet(C) /\ x \in C
        /\ \A c \in C : Of(Sizes, c) \in Int /\ Of(Visits, c) \in Int /\ Of(Actions, c) \in Int
    BY <1>1, <1>2 DEF SumFacts
  <2>2. /\ \A c \in C \ {x} : /\ Of(Sizes', c) = Of(Sizes, c)
                              /\ Of(Visits', c) = Of(Visits, c)
                              /\ Of(Actions', c) = Of(Actions, c)
        /\ Of(Sizes', x) = Of(Sizes, x) + ChLen(w)
        /\ Of(Visits', x) = Of(Visits, x) + 1
        /\ Of(Actions', x) = Of(Actions, x) + sign[w]
    BY <1>1, <1>2, <1>3 DEF SumFacts
  <2> HIDE DEF C
  <2>3. /\ Of(Sizes', x) \in Int /\ Of(Visits', x) \in Int /\ Of(Actions', x) \in Int
    BY <1>2, <1>4, <2>1, <2>2
  <2>4. /\ Total(Sizes', C) = Total(Sizes, C) - Of(Sizes, x) + Of(Sizes', x)
        /\ Total(Visits', C) = Total(Visits, C) - Of(Visits, x) + Of(Visits', x)
        /\ Total(Actions', C) = Total(Actions, C) - Of(Actions, x) + Of(Actions', x)
    BY <2>1, <2>2, <2>3, TotalChange
  <2>5. Total(Sizes, C) \in Int /\ Total(Visits, C) \in Int /\ Total(Actions, C) \in Int
    BY <2>1, TotalType
  <2> QED  BY <1>2, <1>4, <2>1, <2>2, <2>4, <2>5
<1>7. SizeAdds(p)'
  <2>1. node[p].size + Total(Lens, A) = 1 + Total(Sizes, C)
    BY <1>1 DEF Adds, SizeAdds
  <2>2. node[p].size + Total(Lens', B) = 1 + Total(Sizes', C)
    <3> HIDE DEF A, B, C
    <3> QED  BY <1>4, <1>5, <1>6, <2>1
  <2> QED  BY <1>2, <1>3, <2>2 DEF SizeAdds
<1>8. VisitsAdd(p)'
  <2>1. node[p].visit_count + Cardinality(A) = 1 + Total(Visits, C)
    BY <1>1, <1>2 DEF Adds, VisitsAdd
  <2>2. node[p].visit_count + Cardinality(B) = 1 + Total(Visits', C)
    <3> HIDE DEF A, B, C
    <3> QED  BY <1>4, <1>5, <1>6, <2>1
  <2> QED  BY <1>2, <1>3, <2>2 DEF VisitsAdd
<1>9. ActionsAdd(p)'
  <2>1. node[p].total_action + Total(Carried, A) = node[p].value - Total(Actions, C)
    BY <1>1, <1>2 DEF Adds, ActionsAdd
  <2>2. node[p].total_action + Total(Carried', B) = node[p].value - Total(Actions', C)
    <3> HIDE DEF A, B, C
    <3> QED  BY <1>2, <1>4, <1>5, <1>6, <2>1
  <2> QED  BY <1>2, <1>3, <2>2 DEF ActionsAdd
<1> QED  BY <1>7, <1>8, <1>9 DEF Adds

\* The other nodes do not notice.
LEMMA BackupStats ==
    ASSUME NEW lev, Inv(lev), ~overtaken, Stats(lev), NEW lv, Inv(lv)', ~overtaken',
           NEW w \in Contexts, SimBackup(w)
    PROVE  Stats(lv)'
<1>0. \E x \in Live : \E p : BackedUpAt(w, x, p)  BY BackupIs
<1> PICK x \in Live : \E p : BackedUpAt(w, x, p)  BY <1>0
<1> PICK p : BackedUpAt(w, x, p)  OBVIOUS
<1>1. /\ Live' = Live /\ Live \subseteq DOMAIN node /\ DOMAIN node' = DOMAIN node
      /\ \A y \in DOMAIN node : node'[y].ch = node[y].ch
      /\ \A y \in Live : lv[y] = lev[y]
      /\ \A v \in Contexts \ {w} : /\ SameDebt(v)
                                   /\ Of(Lens', v) = Of(Lens, v)
                                   /\ Of(Carried', v) = Of(Carried, v)
      /\ \A n \in Live : n # x =>
            /\ w \notin Arriving(n)
            /\ Arriving(n)' = IF n = p THEN Arriving(n) \cup {w} ELSE Arriving(n)
      /\ \A n \in Live : x \in node[n].ch <=> n = p
      /\ p # nullptr => p \in Live
  BY BackupFacts
<1>2. SumFacts(lev) /\ nullptr \notin DOMAIN node
  BY SumFactsHold, InvFacts
<1>3. /\ pc[w] = "backup" /\ cur[w] = x /\ OthersStay(w)
      /\ pc'[w] = IF p = nullptr THEN "count" ELSE "backup"
      /\ cur'[w] = p /\ leaf'[w] = leaf[w]
      /\ \A y \in DOMAIN node :
          /\ node'[y].value = node[y].value
          /\ node'[y].expand_state = node[y].expand_state
          /\ y # x => /\ node'[y].size = node[y].size
                      /\ node'[y].visit_count = node[y].visit_count
                      /\ node'[y].total_action = node[y].total_action
  BY DEF BackedUpAt
<1>4. Settled(lev, x) /\ Settled(lev, leaf[w]) /\ leaf[w] \in Live
  BY <1>2, <1>3 DEF Stats, Owes, BackingUp, SumFacts
<1>5. ASSUME NEW n \in Live  PROVE Adds(n)' /\ Fresh(lv, n)'
  <2>1. Adds(n) /\ Fresh(lev, n) /\ n \in DOMAIN node /\ n \in DOMAIN node'
    BY <1>1 DEF Stats
  <2>2. Fresh(lv, n)'
    <3>1. CASE n = x
      <4>1. lv[x] = lev[x] /\ node'[x].ch = node[x].ch  BY <1>1
      <4>2. GameLength \in Nat  BY ConstantTypes
      <4> QED  BY <1>4, <3>1, <4>1, <4>2 DEF Fresh, Settled
    <3>2. CASE n # x  BY <1>1, <1>3, <2>1, <3>2 DEF Fresh
    <3> QED  BY <3>1, <3>2
  <2>3. CASE n = x  BY <2>2, <2>3, LeftAdds
  <2>4. CASE n = p
    <3>1. p # nullptr  BY <1>2, <2>1, <2>4
    <3> QED  BY <2>2, <2>4, <3>1, JoinedAdds
  <2>5. CASE n # x /\ n # p
    <3>1. \A c \in node[n].ch :
             /\ c \in DOMAIN node' /\ node'[c].size = node[c].size
             /\ node'[c].visit_count = node[c].visit_count
             /\ node'[c].total_action = node[c].total_action
      BY <1>1, <1>2, <1>3, <2>1, <2>5 DEF SumFacts
    <3>2. Arriving(n)' = Arriving(n) /\ \A v \in Arriving(n) : v \in Contexts \ {w}
      <4>1. Arriving(n) \subseteq Contexts  BY <1>2 DEF SumFacts
      <4> QED  BY <1>1, <2>5, <4>1
    <3> QED  BY <1>1, <1>3, <2>1, <2>2, <2>5, <3>1, <3>2, AddsKept
  <2> QED  BY <2>3, <2>4, <2>5
<1>6. OneValue(lv)' /\ \A v \in Contexts \ {w} : Owes(lv, v)'
  <2>1. \A y \in Live : node[y].ch # {} => node'[y].ch # {}  BY <1>1
  <2>2. \A v \in Contexts : pc[v] \in {"publish", "value"} => leaf[v] \in DOMAIN node
    BY <1>2 DEF SumFacts, BackingUp
  <2>3. pc'[w] # "value"  BY <1>3
  <2> QED  BY <1>1, <1>3, <2>1, <2>2, <2>3, MovedOwes DEF IsExpanded
<1>7. Owes(lv, w)'
  <2>1. CASE p = nullptr  BY <1>3, <2>1 DEF Owes, BackingUp
  <2>2. CASE p # nullptr
    <3>1. p \in Live /\ p \in DOMAIN node /\ x \in node[p].ch  BY <1>1, <2>2
    <3>2. node'[p].ch # {}  BY <1>1, <3>1
    <3>3. Settled(lv, leaf[w])'
      <4>1. lv[leaf[w]] = lev[leaf[w]] /\ node'[leaf[w]].ch = node[leaf[w]].ch
            /\ leaf'[w] = leaf[w]
        BY <1>1, <1>3, <1>4
      <4> QED  BY <1>4, <4>1 DEF Settled
    <3>4. Settled(lv, cur[w])'  BY <1>3, <3>2 DEF Settled
    <3> QED  BY <1>3, <2>2, <3>3, <3>4 DEF Owes
  <2> QED  BY <2>1, <2>2
<1> QED  BY <1>1, <1>5, <1>6, <1>7 DEF Stats

-----------------------------------------------------------------------------
(* Steps that create nodes.                                                *)

\* A leaf where the game goes on gets its children.
LEMMA GrownFacts ==
    ASSUME NEW lev, Inv(lev), ~overtaken, NEW lv, Inv(lv)', ~overtaken', NEW l, NEW r,
           CanGrow(lev, l), Growth(l, r), UNCHANGED <<m_root, ply, queue, freed>>
    PROVE  /\ Live' = Live \cup Children(l) /\ Live \cap Children(l) = {}
           /\ Live \subseteq DOMAIN node /\ DOMAIN node \subseteq DOMAIN node'
           /\ l \in Live /\ node[l].ch = {} /\ node'[l] = r /\ r.ch = Children(l)
           /\ Children(l) # {} /\ Children(l) \cap DOMAIN node = {}
           /\ \A x \in Live : lv[x] = lev[x]
           /\ \A x \in DOMAIN node : x # l => node'[x] = node[x]
           /\ \A c \in Children(l) : node'[c] = InitNode(l)
           /\ Cardinality(Children(l)) \in Nat
           /\ Total(Sizes', Children(l)) = Cardinality(Children(l))
           /\ Total(Visits', Children(l)) = 0 /\ Total(Actions', Children(l)) = 0
<1>1. /\ Grows(node, node', l, Children(l)) /\ node'[l] = r
      /\ \A x \in DOMAIN node : x # l => node'[x] = node[x]
  BY GrowthFacts
<1>2. /\ l \in Live /\ node[l].ch = {} /\ r.ch = Children(l)
      /\ Children(l) \cap DOMAIN node = {} /\ DOMAIN node' = DOMAIN node \cup Children(l)
  BY <1>1 DEF CanGrow, Growth, Grows
<1>3. Live \subseteq DOMAIN node  BY SumFactsHold DEF SumFacts
<1>4. Live' = Live \cup Children(l)
  <2>1. \E k : k = Extended(node, lev, l, Children(l))  OBVIOUS
  <2> QED  BY <2>1, GrowthTrees
<1>5. \A x \in Live : lv[x] = lev[x]
  <2>1. \A x \in Live : node[x].ch \subseteq node'[x].ch  BY <1>1, <1>2, <1>3
  <2> QED  BY <1>2, <2>1, LevelsStep
<1>6. \A c \in Children(l) : node'[c] = InitNode(l) /\ c \in DOMAIN node'
  BY <1>2, <1>3 DEF Growth
<1>7. IsFiniteSet(Children(l)) /\ Cardinality(Children(l)) \in Nat /\ Children(l) # {}
  BY ChildrenFinite DEF Children
<1>8. \A c \in Children(l) : Of(Sizes', c) = 1 /\ Of(Visits', c) = 0 /\ Of(Actions', c) = 0
  BY <1>6, SumFactsNext DEF SumFacts, InitNode
<1>9. /\ Total(Sizes', Children(l)) = Cardinality(Children(l))
      /\ Total(Visits', Children(l)) = 0 /\ Total(Actions', Children(l)) = 0
  BY <1>7, <1>8, TotalOnes, TotalZero
<1> QED  BY <1>1, <1>2, <1>3, <1>4, <1>5, <1>6, <1>7, <1>9

\* A node that is new is owed nothing and has no children.
LEMMA NewAdds ==
    ASSUME NEW lv, Inv(lv)', ~overtaken', NEW c \in DOMAIN node', NEW p,
           node'[c] = InitNode(p), Arriving(c)' = {}
    PROVE  Adds(c)' /\ Fresh(lv, c)'
<1>1. /\ node'[c].size = 1 /\ node'[c].ch = {} /\ node'[c].visit_count = 0
      /\ node'[c].total_action = 0 /\ node'[c].value = 0
  BY DEF InitNode
<1>2. Total(Lens', {}) = 0 /\ Total(Sizes', {}) = 0  BY TotalEmpty
<1> QED  BY <1>1, <1>2 DEF Adds, SizeAdds, Fresh

\* Before it is expanded such a leaf has nothing.
LEMMA LeafFresh ==
    ASSUME NEW lev, Inv(lev), ~overtaken, Stats(lev), NEW l, CanGrow(lev, l)
    PROVE  /\ node[l].size = 1 /\ node[l].visit_count = 0 /\ node[l].total_action = 0
           /\ node[l].value = 0 /\ Arriving(l) = {}
           /\ \A v \in Contexts : pc[v] \in BackingUp => cur[v] # l /\ leaf[v] # l
<1>1. l \in Live /\ node[l].ch = {} /\ lev[l] < GameLength  BY DEF CanGrow
<1>2. SumFacts(lev) /\ GameLength \in Nat  BY SumFactsHold, ConstantTypes
<1>3. l \in DOMAIN node /\ node[l].size \in Int  BY <1>1, <1>2 DEF SumFacts
<1>4. ~Settled(lev, l)  BY <1>1, <1>2 DEF Settled
<1>5. \A v \in Contexts : pc[v] \in BackingUp => cur[v] # l /\ leaf[v] # l
  BY <1>4 DEF Stats, Owes
<1>6. Arriving(l) = {}  BY <1>5 DEF Arriving
<1>7. node[l].size = 1
  <2>1. node[l].size + Total(Lens, {}) = 1 + Total(Sizes, {})
    BY <1>1, <1>6 DEF Stats, Adds, SizeAdds
  <2> QED  BY <1>3, <2>1, TotalEmpty
<1> QED  BY <1>1, <1>5, <1>6, <1>7 DEF Stats, Fresh

\* Expand() of a claimed leaf: it is owed the number of its children.
LEMMA ExpandStats ==
    ASSUME NEW lev, Inv(lev), ~overtaken, Stats(lev), NEW lv, Inv(lv)', ~overtaken',
           NEW w \in Contexts, SimExpand(w)
    PROVE  Stats(lv)'
<1>0. \E l : l = leaf[w]  OBVIOUS
<1> PICK l : l = leaf[w]  BY <1>0
<1>1. /\ pc[w] = "expand" /\ pc' = [pc EXCEPT ![w] = "publish"] /\ board[w] < GameLength
      /\ node' = WithChildren(l)
      /\ UNCHANGED <<m_root, ply, queue, freed, cur, leaf, sign>>
  BY DEF SimExpand, Goto, engineVars
<1>2. /\ Types /\ NodeTypes /\ Placed(lev, w) /\ Live \subseteq DOMAIN node
  BY InvFacts
<1>3. l \in Live /\ cur[w] = l /\ board[w] = lev[l] /\ l \in DOMAIN node
  BY <1>1, <1>2 DEF Placed, Claiming
<1>4. CanGrow(lev, l)
  <2>1. \A v \in Contexts : ~(pc[v] = "publish" /\ leaf[v] = l)
    BY <1>1 DEF Inv, Claims, Claiming
  <2>2. node[l].expand_state = "expanding"
    BY <1>1 DEF Inv, Claims, Claiming
  <2>3. node[l].ch = {} /\ \A m \in Moves : Child(l, m) \notin DOMAIN node
    BY <1>3, <2>1, <2>2 DEF Inv, Begun
  <2> QED  BY <1>1, <1>3, <2>3 DEF CanGrow
<1>5. \E r : /\ Growth(l, r) /\ r.size = node[l].size
             /\ r.visit_count = node[l].visit_count
             /\ r.total_action = node[l].total_action /\ r.value = node[l].value
             /\ r.expand_state = node[l].expand_state
  <2>0. \E q, C : q = node[l] /\ C = Children(l)  OBVIOUS
  <2> PICK q, C : q = node[l] /\ C = Children(l)  BY <2>0
  <2> DEFINE r == [q EXCEPT !.ch = C]
  <2>1. q \in Records /\ C \in SUBSET Nodes  BY <1>2, <1>3, <1>4, NewNames DEF NodeTypes
  <2>2. /\ r \in Records /\ r.ch = C /\ r.fa = q.fa /\ r.size = q.size
        /\ r.visit_count = q.visit_count /\ r.total_action = q.total_action
        /\ r.value = q.value /\ r.expand_state = q.expand_state
    BY <2>1 DEF Records
  <2>3. node' = [x \in DOMAIN node \cup Children(l) |->
                   IF x = l THEN r ELSE IF x \in Children(l) THEN InitNode(l) ELSE node[x]]
    BY <1>1 DEF WithChildren, Children
  <2> HIDE DEF r
  <2>4. Growth(l, r)  BY <2>2, <2>3 DEF Growth
  <2> QED  BY <2>2, <2>4
<1> PICK r : /\ Growth(l, r) /\ r.size = node[l].size
             /\ r.visit_count = node[l].visit_count
             /\ r.total_action = node[l].total_action /\ r.value = node[l].value
             /\ r.expand_state = node[l].expand_state
  BY <1>5
<1>6. /\ Live' = Live \cup Children(l) /\ Live \cap Children(l) = {}
      /\ DOMAIN node \subseteq DOMAIN node'
      /\ node[l].ch = {} /\ node'[l] = r /\ r.ch = Children(l)
      /\ Children(l) # {} /\ Children(l) \cap DOMAIN node = {}
      /\ \A x \in Live : lv[x] = lev[x]
      /\ \A x \in DOMAIN node : x # l => node'[x] = node[x]
      /\ \A c \in Children(l) : node'[c] = InitNode(l)
      /\ Cardinality(Children(l)) \in Nat
      /\ Total(Sizes', Children(l)) = Cardinality(Children(l))
      /\ Total(Visits', Children(l)) = 0 /\ Total(Actions', Children(l)) = 0
  <2>1. UNCHANGED <<m_root, ply, queue, freed>>  BY <1>1
  <2> QED  BY <1>4, <2>1, GrownFacts
<1>7. /\ node[l].size = 1 /\ node[l].visit_count = 0 /\ node[l].total_action = 0
      /\ node[l].value = 0 /\ Arriving(l) = {}
      /\ \A v \in Contexts : pc[v] \in BackingUp => cur[v] # l /\ leaf[v] # l
  BY <1>4, LeafFresh
<1>8. SumFacts(lev) /\ SumFacts(lv)'  BY SumFactsHold, SumFactsNext
<1>9. OthersStay(w) /\ pc'[w] = "publish"  BY <1>1, <1>2 DEF OthersStay, Types
<1>10. ASSUME NEW x \in DOMAIN node
       PROVE  /\ x \in DOMAIN node' /\ node'[x].size = node[x].size
              /\ node'[x].visit_count = node[x].visit_count
              /\ node'[x].total_action = node[x].total_action /\ node'[x].value = node[x].value
              /\ node'[x].expand_state = node[x].expand_state
  <2>1. CASE x = l  BY <1>6, <2>1
  <2>2. CASE x # l  BY <1>6, <2>2
  <2> QED  BY <2>1, <2>2
<1>11. ASSUME NEW v \in Contexts \ {w}
       PROVE  SameDebt(v) /\ Of(Lens', v) = Of(Lens, v) /\ Of(Carried', v) = Of(Carried, v)
  <2>1. SameDebt(v)  BY <1>9 DEF SameDebt, OthersStay
  <2>2. pc[v] \in BackingUp => node'[leaf[v]].ch = node[leaf[v]].ch
    BY <1>6, <1>7, <1>8 DEF SumFacts
  <2> QED  BY <2>1, <2>2, DebtKept
<1>12. /\ Arriving(l)' = {w}
       /\ \A n \in Live : n # l => Arriving(n)' = Arriving(n) /\ w \notin Arriving(n)
       /\ \A c \in Children(l) : Arriving(c)' = {}
  <2>1. w \notin Arriving(l) /\ \A n : n # l => w \notin Arriving(n)
    BY <1>1 DEF Arriving, BackingUp
  <2>2. \A n : w \in Arriving(n)' <=> n = l
    BY <1>1, <1>3, <1>9 DEF Arriving, BackingUp
  <2>3. \A n : Arriving(n)' \ {w} = Arriving(n) \ {w}
    BY <1>9 DEF Arriving, OthersStay
  <2>4. Arriving(l)' = {w}
    <3>1. Arriving(l)' \ {w} = Arriving(l) \ {w}  BY <2>3
    <3> QED  BY <1>7, <2>2, <3>1
  <2>5. ASSUME NEW n, n # l  PROVE Arriving(n)' = Arriving(n)
    <3>1. Arriving(n)' \ {w} = Arriving(n) \ {w}  BY <2>3
    <3> QED  BY <2>1, <2>2, <2>5, <3>1
  <2>6. ASSUME NEW c \in Children(l)  PROVE Arriving(c)' = {}
    <3>1. c \notin DOMAIN node /\ c # l  BY <1>3, <1>6
    <3>2. Arriving(c) = {}  BY <1>8, <3>1 DEF Arriving, SumFacts
    <3> QED  BY <2>5, <3>1, <3>2
  <2> QED  BY <2>1, <2>4, <2>5, <2>6
<1>13. ASSUME NEW n \in Live'  PROVE Adds(n)' /\ Fresh(lv, n)'
  <2>1. CASE n \in Children(l)
    <3>1. n \in DOMAIN node'  BY <1>8 DEF SumFacts
    <3> QED  BY <1>6, <1>12, <2>1, <3>1, NewAdds
  <2>2. CASE n \in Live /\ n # l
    <3>1. Adds(n) /\ Fresh(lev, n) /\ n \in DOMAIN node /\ n \in DOMAIN node'
          /\ node'[n].ch = node[n].ch
      BY <1>2, <1>6, <2>2 DEF Stats
    <3>2. Fresh(lv, n)'  BY <1>6, <1>10, <2>2, <3>1 DEF Fresh
    <3>3. \A c \in node[n].ch :
             /\ c \in DOMAIN node' /\ node'[c].size = node[c].size
             /\ node'[c].visit_count = node[c].visit_count
             /\ node'[c].total_action = node[c].total_action
      BY <1>8, <1>10, <3>1 DEF SumFacts
    <3>4. Arriving(n)' = Arriving(n) /\ \A v \in Arriving(n) : v \in Contexts \ {w}
      BY <1>12, <2>2 DEF Arriving
    <3> QED  BY <1>10, <1>11, <3>1, <3>2, <3>3, <3>4, AddsKept
  <2>3. CASE n = l
    <3>1. /\ node'[l].ch = Children(l) /\ node'[l].size = 1 /\ node'[l].visit_count = 0
          /\ node'[l].total_action = 0 /\ node'[l].value = 0
      BY <1>3, <1>6, <1>7, <1>10
    <3>2. Of(Lens', w) = Cardinality(Children(l)) /\ Of(Carried', w) = 0
      <4>1. ChLen(w)' = Cardinality(Children(l))  BY <1>1, <3>1 DEF ChLen
      <4> QED  BY <1>8, <1>9, <4>1 DEF SumFacts, BackingUp
    <3>3. /\ Total(Lens', {w}) = Cardinality(Children(l)) /\ Total(Carried', {w}) = 0
          /\ Cardinality({w}) = 1
      <4>1. IsFiniteSet({}) /\ w \notin {} /\ {} \cup {w} = {w} /\ Cardinality({w}) = 1
        BY FS_EmptySet, FS_Singleton
      <4>2. /\ Total(Lens', {} \cup {w}) = Of(Lens', w) + Total(Lens', {})
            /\ Total(Carried', {} \cup {w}) = Of(Carried', w) + Total(Carried', {})
        <5>1. \A v \in {} \cup {w} : Of(Lens', v) \in Int /\ Of(Carried', v) \in Int
          BY <1>6, <3>2
        <5> QED  BY <4>1, <5>1, TotalAdd
      <4> QED  BY <1>6, <3>2, <4>1, <4>2, TotalEmpty
    <3>4. SizeAdds(l)' /\ VisitsAdd(l)' /\ ActionsAdd(l)'
      BY <1>6, <1>12, <3>1, <3>3 DEF SizeAdds, VisitsAdd, ActionsAdd
    <3>5. Fresh(lv, l)'  BY <1>6, <3>1 DEF Fresh
    <3> QED  BY <2>3, <3>4, <3>5 DEF Adds
  <2> QED  BY <1>6, <2>1, <2>2, <2>3
<1>14. OneValue(lv)' /\ \A v \in Contexts \ {w} : Owes(lv, v)'
  <2>1. \A y \in Live : node[y].ch # {} => node'[y].ch # {}  BY <1>2, <1>6
  <2>2. \A v \in Contexts : pc[v] \in {"publish", "value"} => leaf[v] \in DOMAIN node
    BY <1>8 DEF SumFacts, BackingUp
  <2>3. pc'[w] # "value"  BY <1>9
  <2> QED  BY <1>6, <1>9, <1>10, <2>1, <2>2, <2>3, MovedOwes DEF IsExpanded
<1>15. Owes(lv, w)'
  <2>1. /\ cur'[w] = l /\ leaf'[w] = l /\ node'[l].ch # {} /\ node'[l].value = 0
    BY <1>1, <1>3, <1>6, <1>7, <1>10
  <2> QED  BY <1>9, <2>1 DEF Owes, Settled
<1> QED  BY <1>13, <1>14, <1>15 DEF Stats

\* InitRoot() expands the root and backs it up at once.
LEMMA InitRootStats ==
    ASSUME NEW lev, Inv(lev), ~overtaken, Stats(lev), NEW lv, Inv(lv)', ~overtaken',
           InitRoot
    PROVE  Stats(lv)'
<1>0. \E l : l = m_root  OBVIOUS
<1> PICK l : l = m_root  BY <1>0
<1>1. /\ owner = "engine" /\ InFlight = {} /\ ply < GameLength
      /\ node[l].expand_state = "unexpanded"
      /\ UNCHANGED <<m_root, ply, queue, freed, pc, cur, leaf, sign>>
  BY DEF InitRoot, engineVars, locals
<1>2. PICK v \in Values :
         node' = [WithChildren(l) EXCEPT
                    ![l] = [BackedUp(@, v, Cardinality(Moves)) EXCEPT
                              !.expand_state = "expanded", !.value = v]]
  BY Zenon DEF InitRoot
<1>3. /\ Types /\ NodeTypes /\ Live \subseteq DOMAIN node /\ l \in DOMAIN node /\ lev[l] = ply
      /\ Begun
  BY DEF Inv, Types, Depths, Partition
<1>4. \A c \in Contexts : pc[c] = "idle" /\ cur[c] = nullptr /\ leaf[c] = nullptr
  BY <1>1, Quiescent
<1>5. CanGrow(lev, l)
  <2>1. l \in Live
    <3>1. l \in TreeOf(node, l)  BY <1>3, ConstantTypes, TreeClosed DEF Inv, Depths
    <3> QED  BY <3>1, SubtreeIsTree DEF Live
  <2>2. node[l].ch = {} /\ \A m \in Moves : Child(l, m) \notin DOMAIN node
    BY <1>1, <1>3, <1>4 DEF Begun
  <2> QED  BY <1>1, <1>3, <2>1, <2>2 DEF CanGrow
<1>6. /\ node[l].size = 1 /\ node[l].visit_count = 0 /\ node[l].total_action = 0
      /\ node[l].value = 0
  BY <1>5, LeafFresh
<1>7. \E r, k : /\ Growth(l, r) /\ k = Cardinality(Moves) /\ k \in Nat /\ v \in Int
                /\ r.size = 1 + k /\ r.visit_count = 1 /\ r.total_action = v /\ r.value = v
  <2>0. \E q, C, k : q = node[l] /\ C = Children(l) /\ k = Cardinality(Moves)  OBVIOUS
  <2> PICK q, C, k : q = node[l] /\ C = Children(l) /\ k = Cardinality(Moves)  BY <2>0
  <2> DEFINE b == [q EXCEPT !.ch = C]
             u == BackedUp(b, v, k)
             r == [u EXCEPT !.expand_state = "expanded", !.value = v]
  <2>1. q \in Records /\ C \in SUBSET Nodes /\ k \in Nat /\ v \in Int
    <3>1. C \in SUBSET Nodes  BY <1>5, NewNames
    <3>2. k \in Nat  BY ConstantTypes, FS_CardinalityType
    <3>3. v \in Int  BY ConstantTypes
    <3>4. q \in Records  BY <1>3 DEF NodeTypes
    <3> QED  BY <3>1, <3>2, <3>3, <3>4
  <2>2. /\ b \in Records /\ b.ch = C /\ b.fa = q.fa /\ b.size = 1 /\ b.visit_count = 0
        /\ b.total_action = 0
    BY <1>6, <2>1 DEF Records
  <2>3. node' = [WithChildren(l) EXCEPT ![l] = r]
    <3>1. WithChildren(l)[l] = b  BY <1>3 DEF WithChildren, Children
    <3> QED  BY <1>2, <3>1
  <2>4. node' = [x \in DOMAIN node \cup Children(l) |->
                   IF x = l THEN r ELSE IF x \in Children(l) THEN InitNode(l) ELSE node[x]]
    <3> HIDE DEF r
    <3> QED  BY <1>3, <2>3 DEF WithChildren, Children
  <2> HIDE DEF b
  <2>5. u \in Records /\ u.ch = C /\ u.fa = q.fa
    BY <2>1, <2>2, BackedUpTypes
  <2>6. u.size = 1 + k /\ u.visit_count = 1 /\ u.total_action = v
    <3> DEFINE d == [b EXCEPT !.size = @ + k]
               e == [d EXCEPT !.visit_count = @ + 1]
               f == [e EXCEPT !.virtual_loss_count = @ - 1]
               g == [f EXCEPT !.total_action = @ + v]
    <3>1. u = g  BY DEF BackedUp
    <3>2. /\ d \in Records /\ d.size = 1 + k /\ d.visit_count = 0 /\ d.total_action = 0
      BY <2>1, <2>2 DEF Records
    <3> HIDE DEF d
    <3>3. /\ e \in Records /\ e.size = 1 + k /\ e.visit_count = 1 /\ e.total_action = 0
      BY <3>2 DEF Records
    <3> HIDE DEF e
    <3>4. /\ f \in Records /\ f.size = 1 + k /\ f.visit_count = 1 /\ f.total_action = 0
      BY <3>3 DEF Records
    <3> HIDE DEF f
    <3>5. g.size = 1 + k /\ g.visit_count = 1 /\ g.total_action = v
      BY <2>1, <3>4 DEF Records
    <3> HIDE DEF g
    <3> QED  BY <3>1, <3>5
  <2> HIDE DEF u
  <2>7. /\ r \in Records /\ r.ch = C /\ r.fa = q.fa /\ r.size = 1 + k /\ r.visit_count = 1
        /\ r.total_action = v /\ r.value = v
    <3> DEFINE d == [u EXCEPT !.expand_state = "expanded"]
               e == [d EXCEPT !.value = v]
    <3>1. r = e  OBVIOUS
    <3>2. /\ d \in Records /\ d.ch = C /\ d.fa = q.fa /\ d.size = 1 + k
          /\ d.visit_count = 1 /\ d.total_action = v
      BY <2>5, <2>6 DEF Records
    <3> HIDE DEF d
    <3>3. /\ e \in Records /\ e.ch = C /\ e.fa = q.fa /\ e.size = 1 + k
          /\ e.visit_count = 1 /\ e.total_action = v /\ e.value = v
      BY <2>1, <3>2 DEF Records
    <3> HIDE DEF r, e
    <3> QED  BY <3>1, <3>3
  <2> HIDE DEF r
  <2>8. Growth(l, r)  BY <2>4, <2>7 DEF Growth
  <2> QED  BY <2>1, <2>7, <2>8
<1> PICK r, k : /\ Growth(l, r) /\ k = Cardinality(Moves) /\ k \in Nat /\ v \in Int
                /\ r.size = 1 + k /\ r.visit_count = 1 /\ r.total_action = v /\ r.value = v
  BY <1>7
<1>8. /\ Live' = Live \cup Children(l) /\ Live \cap Children(l) = {}
      /\ DOMAIN node \subseteq DOMAIN node'
      /\ l \in Live /\ node[l].ch = {} /\ node'[l] = r /\ r.ch = Children(l)
      /\ Children(l) # {} /\ Children(l) \cap DOMAIN node = {}
      /\ \A x \in Live : lv[x] = lev[x]
      /\ \A x \in DOMAIN node : x # l => node'[x] = node[x]
      /\ \A c \in Children(l) : node'[c] = InitNode(l)
      /\ Total(Sizes', Children(l)) = Cardinality(Children(l))
      /\ Total(Visits', Children(l)) = 0 /\ Total(Actions', Children(l)) = 0
  <2>1. UNCHANGED <<m_root, ply, queue, freed>>  BY <1>1
  <2> QED  BY <1>5, <2>1, GrownFacts
<1>9. SumFacts(lev) /\ SumFacts(lv)'  BY SumFactsHold, SumFactsNext
<1>10. Cardinality(Children(l)) = k
  <2> DEFINE f == [m \in Moves |-> Child(l, m)]
             C == Children(l)
  <2>1. ASSUME NEW x \in Moves, NEW y \in Moves, Child(l, x) = Child(l, y)  PROVE x = y
    <3>1. l[2] = <<>>  BY DEF Inv, Depths
    <3>2. Child(l, x)[2] = Append(<<>>, x) /\ Child(l, y)[2] = Append(<<>>, y)
      BY <3>1 DEF Child
    <3>3. Append(<<>>, x) = Append(<<>>, y)  BY <2>1, <3>2
    <3>4. Append(<<>>, x)[1] = x /\ Append(<<>>, y)[1] = y  OBVIOUS
    <3> QED  BY <3>3, <3>4
  <2>2. f \in Bijection(Moves, C)
    <3>1. f \in [Moves -> C]  BY DEF Children
    <3>2. \A x, y \in Moves : f[x] = f[y] => x = y  BY <2>1
    <3>3. \A c \in C : \E m \in Moves : f[m] = c  BY DEF Children
    <3> HIDE DEF f, C
    <3> QED  BY <3>1, <3>2, <3>3 DEF Bijection, Injection, Surjection, IsInjective
  <2> HIDE DEF f, C
  <2>3. IsFiniteSet(Moves)  BY ConstantTypes
  <2>4. Cardinality(C) = Cardinality(Moves)  BY <2>2, <2>3, FS_Bijection DEF ExistsBijection
  <2> QED  BY <2>4 DEF C
<1>11. \A n : Arriving(n) = {} /\ Arriving(n)' = {}
  BY <1>1, <1>4 DEF Arriving, BackingUp
<1>12. ASSUME NEW n \in Live'  PROVE Adds(n)' /\ Fresh(lv, n)'
  <2>1. CASE n \in Children(l)
    <3>1. n \in DOMAIN node'  BY <1>9 DEF SumFacts
    <3> QED  BY <1>8, <1>11, <2>1, <3>1, NewAdds
  <2>2. CASE n \in Live /\ n # l
    <3>1. Adds(n) /\ Fresh(lev, n) /\ n \in DOMAIN node /\ n \in DOMAIN node'
          /\ node'[n] = node[n]
      BY <1>3, <1>8, <2>2 DEF Stats
    <3>2. Fresh(lv, n)'  BY <1>8, <2>2, <3>1 DEF Fresh
    <3>3. \A c \in node[n].ch :
             /\ c \in DOMAIN node' /\ node'[c].size = node[c].size
             /\ node'[c].visit_count = node[c].visit_count
             /\ node'[c].total_action = node[c].total_action
      <4>1. l \notin node[n].ch
        <5>1. node[l].fa = nullptr  BY DEF Inv, Depths
        <5>2. \A c \in node[n].ch : node[c].fa = n  BY <3>1 DEF Inv, Depths, Forest
        <5>3. n # nullptr  BY <3>1 DEF Inv, Depths, Forest
        <5> QED  BY <5>1, <5>2, <5>3
      <4> QED  BY <1>8, <1>9, <3>1, <4>1 DEF SumFacts
    <3> QED  BY <1>11, <3>1, <3>2, <3>3, AddsKept
  <2>3. CASE n = l
    <3>1. Total(Lens', {}) = 0 /\ Total(Carried', {}) = 0 /\ Cardinality({}) = 0
      BY TotalEmpty, FS_EmptySet
    <3>2. SizeAdds(l)' /\ VisitsAdd(l)' /\ ActionsAdd(l)'
      BY <1>8, <1>10, <1>11, <3>1 DEF SizeAdds, VisitsAdd, ActionsAdd
    <3>3. Fresh(lv, l)'  BY <1>8 DEF Fresh
    <3> QED  BY <2>3, <3>2, <3>3 DEF Adds
  <2> QED  BY <1>8, <2>1, <2>2, <2>3
<1>13. OneValue(lv)' /\ \A c \in Contexts : Owes(lv, c)'
  <2>1. \A c \in Contexts : pc'[c] = "idle"  BY <1>1, <1>4
  <2> QED  BY <2>1 DEF OneValue, Owes, BackingUp
<1> QED  BY <1>12, <1>13 DEF Stats

-----------------------------------------------------------------------------
(* Changes of the root.                                                    *)

\* Between two searches nobody owes anything.
LEMMA NothingOwed ==
    ASSUME NEW lev, Inv(lev), ~overtaken, owner = "engine", InFlight = {}, UNCHANGED pc
    PROVE  /\ \A n : Arriving(n) = {} /\ Arriving(n)' = {}
           /\ \A lv : OneValue(lv)' /\ \A w \in Contexts : Owes(lv, w)'
<1>1. \A w \in Contexts : pc[w] = "idle" /\ pc'[w] = "idle"  BY Quiescent
<1> QED  BY <1>1 DEF Arriving, OneValue, Owes, BackingUp

\* A new root alone has no statistics.
LEMMA EmptyStats ==
    ASSUME NEW lev, Inv(lev), ~overtaken, owner = "engine", InFlight = {}, UNCHANGED pc,
           NEW lv, Inv(lv)', ~overtaken', ChangeRoot(nullptr)
    PROVE  Stats(lv)'
<1>0. \E root : root = m_root'  OBVIOUS
<1> PICK root : root = m_root'  BY <1>0
<1>1. /\ root = NewRoot(m_root) /\ root[1] <= MaxRoots
      /\ node' = [x \in DOMAIN node \cup {root} |->
                    IF x = root THEN InitNode(nullptr) ELSE node[x]]
  BY DEF ChangeRoot
<1>2. root \in DOMAIN node' /\ node'[root] = InitNode(nullptr)  BY <1>1
<1>3. Live' \subseteq {root}
  <2>1. node'[root].ch = {}  BY <1>2 DEF InitNode
  <2>2. Live' = TreeOf(node', root)  BY SubtreeIsTreeNext DEF Live
  <2>3. GameLength \in Nat  BY ConstantTypes
  <2>4. TreeOf(node', root) \subseteq {root}  BY <2>1, <2>3, TreeLeast
  <2> QED  BY <2>2, <2>4
<1>4. Arriving(root)' = {} /\ OneValue(lv)' /\ \A w \in Contexts : Owes(lv, w)'
  BY NothingOwed
<1>5. Adds(root)' /\ Fresh(lv, root)'  BY <1>2, <1>4, NewAdds
<1> QED  BY <1>3, <1>4, <1>5 DEF Stats

\* A child n becomes the root and keeps its statistics and those of the nodes below.
LEMMA KeptStats ==
    ASSUME NEW lev, Inv(lev), ~overtaken, Stats(lev), owner = "engine", InFlight = {},
           UNCHANGED pc, NEW lv, Inv(lv)', ~overtaken',
           NEW n \in node[m_root].ch, ChangeRoot(n), ply' = ply + 1
    PROVE  Stats(lv)'
<1>0. \E root, B : root = m_root' /\ B = TreeOf(node, n) \ {n}  OBVIOUS
<1> PICK root, B : root = m_root' /\ B = TreeOf(node, n) \ {n}  BY <1>0
<1>1. /\ NodeTypes /\ Forest(node, lev) /\ GameLength \in Nat /\ m_root \in DOMAIN node
      /\ node[m_root].fa = nullptr /\ lev[m_root] = ply /\ ply \in Nat
      /\ \A x \in DOMAIN node : lev[x] \in 0..GameLength
      /\ Live = TreeOf(node, m_root) /\ Live \subseteq DOMAIN node
  BY ConstantTypes, SubtreeIsTree DEF Inv, Types, Depths, Forest, Partition, Live
<1>2. /\ n \in DOMAIN node /\ node[n].fa = m_root /\ lev[n] = ply + 1 /\ n # nullptr
      /\ m_root # nullptr /\ node[n].ch \subseteq DOMAIN node
      /\ \A x \in DOMAIN node : \A c \in node[x].ch : node[c].fa = x /\ lev[c] = lev[x] + 1
  BY <1>1 DEF Forest
<1>3. n \in Live /\ n # m_root
  <2>1. n \in Live  BY <1>1, TreeClosed
  <2> QED  BY <1>1, <1>2, <2>1
<1>4. /\ n \in TreeOf(node, n) /\ TreeOf(node, n) \subseteq Live
      /\ \A x \in TreeOf(node, n) : node[x].ch \subseteq TreeOf(node, n)
      /\ m_root \notin TreeOf(node, n)
  <2>1. m_root \notin TreeOf(node, n)
    <3> SUFFICES ASSUME m_root \in TreeOf(node, n)  PROVE FALSE
      OBVIOUS
    <3>1. lev[m_root] >= lev[n]  BY <1>1, <1>2, TreeLevel
    <3> QED  BY <1>1, <1>2, <3>1
  <2> QED  BY <1>1, <1>2, <1>3, <2>1, TreeClosed, TreeInTree
<1>5. \A x \in TreeOf(node, n) : n \notin node[x].ch /\ node[x].ch \subseteq B
  <2>1. ASSUME NEW x \in TreeOf(node, n)  PROVE n \notin node[x].ch
    <3>1. x \in DOMAIN node /\ x # m_root  BY <1>1, <1>4
    <3> QED  BY <1>2, <3>1
  <2> QED  BY <1>4, <2>1
<1>6. /\ root = NewRoot(m_root) /\ root[1] <= MaxRoots
      /\ node' = [x \in DOMAIN node \cup {root} |->
                    CASE x = root -> [node[n] EXCEPT !.fa = nullptr]
                      [] x = n -> [node[n] EXCEPT !.ch = {}]
                      [] x \in node[n].ch -> [node[x] EXCEPT !.fa = root]
                      [] OTHER -> node[x]]
  BY <1>2 DEF ChangeRoot
<1>7. root \notin DOMAIN node /\ root \in Nodes  BY <1>6, RootName
<1>8. /\ root \in DOMAIN node' /\ node'[root].ch = node[n].ch
      /\ node'[root].size = node[n].size /\ node'[root].visit_count = node[n].visit_count
      /\ node'[root].total_action = node[n].total_action
      /\ node'[root].value = node[n].value
  <2>0. \E q : q = node[n]  OBVIOUS
  <2> PICK q : q = node[n]  BY <2>0
  <2>1. q \in Records  BY <1>1, <1>2 DEF NodeTypes
  <2>2. LET u == [q EXCEPT !.fa = nullptr]
        IN  /\ u.ch = q.ch /\ u.size = q.size /\ u.visit_count = q.visit_count
            /\ u.total_action = q.total_action /\ u.value = q.value
    BY <2>1 DEF Records
  <2>3. root \in DOMAIN node' /\ node'[root] = [q EXCEPT !.fa = nullptr]
    BY <1>2, <1>6, <1>7
  <2> QED  BY <2>2, <2>3
<1>9. ASSUME NEW x \in DOMAIN node, x # n
      PROVE  /\ x \in DOMAIN node' /\ node'[x].ch = node[x].ch
             /\ node'[x].size = node[x].size /\ node'[x].visit_count = node[x].visit_count
             /\ node'[x].total_action = node[x].total_action
             /\ node'[x].value = node[x].value
  <2>0. \E q : q = node[x]  OBVIOUS
  <2> PICK q : q = node[x]  BY <2>0
  <2>1. q \in Records  BY <1>1 DEF NodeTypes
  <2>2. LET u == [q EXCEPT !.fa = root]
        IN  /\ u.ch = q.ch /\ u.size = q.size /\ u.visit_count = q.visit_count
            /\ u.total_action = q.total_action /\ u.value = q.value
    BY <1>7, <2>1 DEF Records
  <2>3. /\ x \in DOMAIN node'
        /\ node'[x] = IF x \in node[n].ch THEN [q EXCEPT !.fa = root] ELSE q
    BY <1>6, <1>7, <1>9
  <2>4. CASE x \in node[n].ch  BY <2>2, <2>3, <2>4
  <2>5. CASE x \notin node[n].ch  BY <2>3, <2>5
  <2> QED  BY <2>4, <2>5
<1>10. B \subseteq Live /\ B \subseteq DOMAIN node /\ n \notin B  BY <1>1, <1>4
<1>11. Live' \subseteq {root} \cup B
  <2>1. Live' = TreeOf(node', root)  BY SubtreeIsTreeNext DEF Live
  <2>2. \A x \in {root} \cup B : node'[x].ch \subseteq {root} \cup B
    <3>1. \A x \in B : node'[x].ch \subseteq B  BY <1>5, <1>9, <1>10
    <3>2. node'[root].ch \subseteq B  BY <1>4, <1>5, <1>8
    <3> QED  BY <3>1, <3>2
  <2>3. TreeOf(node', root) \subseteq {root} \cup B
    <3> DEFINE D == {root} \cup B
    <3>1. root \in D /\ \A x \in D : node'[x].ch \subseteq D  BY <2>2
    <3> HIDE DEF D
    <3>2. TreeOf(node', root) \subseteq D  BY <1>1, <3>1, TreeLeast
    <3> QED  BY <3>2 DEF D
  <2> QED  BY <2>1, <2>3
<1>12. lv[root] = lev[n] /\ \A x \in B : lv[x] = lev[x]
  <2>1. Forest(node', lv) /\ lv[root] = lev[n]  BY <1>2 DEF Inv, Depths
  <2>2. \A x \in DOMAIN node' : \A c \in node'[x].ch : lv[c] = lv[x] + 1
    BY <2>1 DEF Forest
  <2> DEFINE D == {n} \cup {x \in B : lv[x] = lev[x]}
  <2>3. ASSUME NEW x \in D, NEW c \in node[x].ch  PROVE c \in D
    <3>1. x \in TreeOf(node, n) /\ x \in DOMAIN node  BY <1>1, <1>4
    <3>2. c \in B /\ lev[c] = lev[x] + 1  BY <1>2, <1>5, <3>1
    <3>3. CASE x = n
      <4>1. lv[c] = lv[root] + 1  BY <1>8, <2>2, <3>3
      <4> QED  BY <2>1, <3>2, <3>3, <4>1
    <3>4. CASE x # n
      <4>1. x \in DOMAIN node' /\ c \in node'[x].ch  BY <1>9, <3>1, <3>4
      <4>2. lv[c] = lv[x] + 1 /\ lv[x] = lev[x]  BY <2>2, <3>4, <4>1
      <4> QED  BY <3>2, <4>2
    <3> QED  BY <3>3, <3>4
  <2>4. n \in D  OBVIOUS
  <2> HIDE DEF D
  <2>5. TreeOf(node, n) \subseteq D  BY <1>1, <2>3, <2>4, TreeLeast
  <2> QED  BY <2>1, <2>5 DEF D
<1>13. /\ \A x : Arriving(x) = {} /\ Arriving(x)' = {}
       /\ OneValue(lv)' /\ \A w \in Contexts : Owes(lv, w)'
  BY NothingOwed
<1>14. ASSUME NEW x \in TreeOf(node, n)
       PROVE  \A c \in node[x].ch :
                 /\ c \in DOMAIN node' /\ node'[c].size = node[c].size
                 /\ node'[c].visit_count = node[c].visit_count
                 /\ node'[c].total_action = node[c].total_action
  BY <1>5, <1>9, <1>10
<1>15. Adds(root)' /\ Fresh(lv, root)'
  <2>1. Adds(n) /\ Fresh(lev, n)  BY <1>3 DEF Stats
  <2>2. Fresh(lv, root)'  BY <1>8, <1>12, <2>1 DEF Fresh
  <2>3. \A c \in node[n].ch :
           /\ c \in DOMAIN node' /\ node'[c].size = node[c].size
           /\ node'[c].visit_count = node[c].visit_count
           /\ node'[c].total_action = node[c].total_action
    BY <1>4, <1>14
  <2> QED  BY <1>2, <1>8, <1>13, <2>1, <2>2, <2>3, AddsKept
<1>16. ASSUME NEW x \in B  PROVE Adds(x)' /\ Fresh(lv, x)'
  <2>1. /\ x \in Live /\ x \in DOMAIN node /\ x # n /\ x \in TreeOf(node, n)
        /\ Adds(x) /\ Fresh(lev, x)
    BY <1>10 DEF Stats
  <2>2. /\ x \in DOMAIN node' /\ node'[x].ch = node[x].ch
        /\ node'[x].size = node[x].size /\ node'[x].visit_count = node[x].visit_count
        /\ node'[x].total_action = node[x].total_action
        /\ node'[x].value = node[x].value
    BY <1>9, <2>1
  <2>3. Fresh(lv, x)'  BY <1>12, <2>1, <2>2 DEF Fresh
  <2>4. \A c \in node[x].ch :
           /\ c \in DOMAIN node' /\ node'[c].size = node[c].size
           /\ node'[c].visit_count = node[c].visit_count
           /\ node'[c].total_action = node[c].total_action
    BY <1>14, <2>1
  <2> QED  BY <1>13, <2>1, <2>2, <2>3, <2>4, AddsKept
<1> QED  BY <1>11, <1>13, <1>15, <1>16 DEF Stats

-----------------------------------------------------------------------------
(* The statistics in every reachable state.                                *)

\* At the start there is a root and nothing else.
LEMMA SumsInit == Init => \E lev : SumInv(lev)
<1> SUFFICES ASSUME Init  PROVE \E lev : SumInv(lev)
  OBVIOUS
<1> PICK lev : Inv(lev)  BY InitIInv DEF IInv
<1>1. /\ node = [x \in {m_root} |-> InitNode(nullptr)] /\ overtaken = FALSE
      /\ pc = [w \in Contexts |-> "idle"]
  BY DEF Init
<1>2. Live \subseteq {m_root}
  <2>1. Live \subseteq DOMAIN node  BY DEF Inv, Partition
  <2> QED  BY <1>1, <2>1
<1>3. /\ node[m_root].size = 1 /\ node[m_root].ch = {} /\ node[m_root].visit_count = 0
      /\ node[m_root].total_action = 0 /\ node[m_root].value = 0
  BY <1>1 DEF InitNode
<1>4. Arriving(m_root) = {}  BY <1>1 DEF Arriving, BackingUp
<1>5. Total(Lens, {}) = 0 /\ Total(Sizes, {}) = 0  BY TotalEmpty
<1>6. Adds(m_root) /\ Fresh(lev, m_root)
  BY <1>3, <1>4, <1>5 DEF Adds, SizeAdds, Fresh
<1>7. OneValue(lev) /\ \A w \in Contexts : Owes(lev, w)
  BY <1>1 DEF OneValue, Owes, BackingUp
<1>8. Stats(lev)  BY <1>2, <1>6, <1>7 DEF Stats
<1> QED  BY <1>1, <1>8 DEF SumInv

\* A step that changes no root under an evaluation in flight.
LEMMA StatsStep ==
    ASSUME NEW lev, Inv(lev), ~overtaken, Stats(lev), NEW lv, Inv(lv)', ~overtaken', Next
    PROVE  Stats(lv)'
<1>1. ASSUME SameStats, SameOwed, UNCHANGED <<m_root, ply>>  PROVE Stats(lv)'
  BY <1>1, CalmStats
<1>2. ASSUME NEW w \in Workers, SearchRoutine(w)  PROVE Stats(lv)'
  <2>1. w \in Contexts  BY DEF Contexts
  <2>2. SameStats /\ SameOwed /\ UNCHANGED <<m_root, ply>>  BY <1>2, <2>1, SearchCalm
  <2> QED  BY <1>1, <2>2
<1>3. ASSUME NEW w \in Contexts, SimRest(w)  PROVE Stats(lv)'
  <2>1. CASE CalmRest(w)
    <3>1. SameStats /\ SameOwed /\ UNCHANGED <<m_root, ply>>  BY <2>1, RestCalm
    <3> QED  BY <1>1, <3>1
  <2>2. CASE SimExpandOver(w)  BY <2>2, OverStats
  <2>3. CASE SimExpand(w)  BY <2>3, ExpandStats
  <2>4. CASE SimValue(w)  BY <2>4, ValueStats
  <2>5. CASE SimBackup(w)  BY <2>5, BackupStats
  <2> QED  BY <1>3, <2>1, <2>2, <2>3, <2>4, <2>5 DEF SimRest, CalmRest
<1>4. CASE InitRoot  BY <1>4, InitRootStats
<1>5. CASE SearchResume \/ SearchPauseSet \/ SearchPauseJoin \/ DeleteTree
  <2>1. SameStats /\ SameOwed /\ UNCHANGED <<m_root, ply>>  BY <1>5, CallsCalm
  <2> QED  BY <1>1, <2>1
<1>6. CASE Move
  <2>1. PICK n \in node[m_root].ch \cup {nullptr} : ChangeRoot(n)  BY <1>6 DEF Move
  <2>2. /\ owner = "engine" /\ UNCHANGED pc /\ ply' = ply + 1 /\ InFlight = {}
    BY <1>6, <2>1 DEF Move, locals, ChangeRoot
  <2>3. CASE n = nullptr
    <3>1. ChangeRoot(nullptr)  BY <2>1, <2>3
    <3> QED  BY <2>2, <3>1, EmptyStats
  <2>4. CASE n # nullptr
    <3>1. n \in node[m_root].ch  BY <2>4
    <3> QED  BY <2>1, <2>2, <3>1, KeptStats
  <2> QED  BY <2>3, <2>4
<1>7. CASE Reset
  <2>1. /\ owner = "engine" /\ UNCHANGED pc /\ ChangeRoot(nullptr) /\ InFlight = {}
    BY <1>7 DEF Reset, locals, ChangeRoot
  <2> QED  BY <2>1, EmptyStats
<1> QED  BY <1>2, <1>3, <1>4, <1>5, <1>6, <1>7 DEF Next

\* A root is changed under an evaluation in flight, or never.
LEMMA OvertakenStep == ~overtaken /\ Next /\ overtaken' => InFlight # {} /\ UNCHANGED pc
<1> SUFFICES ASSUME ~overtaken, Next, overtaken'  PROVE InFlight # {} /\ UNCHANGED pc
  OBVIOUS
<1>1. ASSUME NEW w, SearchRoutine(w) \/ SimRest(w)  PROVE UNCHANGED overtaken
  BY <1>1 DEF SearchRoutine, SimBegin, SimDescend, SimLeaf, SimClaim, SimHandOff, SimRest,
     SimEvalFails, SimEvalSucceeds, SimExpandOver, SimExpand, SimPublish, SimValue, SimBackup,
     SimEnd, SimUndo, SimUndone
<1>2. ASSUME \/ InitRoot \/ SearchResume \/ SearchPauseSet \/ SearchPauseJoin \/ DeleteTree
      PROVE  UNCHANGED overtaken
  <2>1. CASE InitRoot  BY <2>1 DEF InitRoot
  <2>2. CASE SearchResume  BY <2>2 DEF SearchResume
  <2>3. CASE SearchPauseSet  BY <2>3 DEF SearchPauseSet
  <2>4. CASE SearchPauseJoin  BY <2>4 DEF SearchPauseJoin
  <2>5. CASE DeleteTree  BY <2>5 DEF DeleteTree
  <2> QED  BY <1>2, <2>1, <2>2, <2>3, <2>4, <2>5, Zenon
<1>3. ASSUME Move \/ Reset  PROVE InFlight # {} /\ UNCHANGED pc
  BY <1>3 DEF Move, Reset, ChangeRoot, locals
<1> QED  BY <1>1, <1>2, <1>3 DEF Next

\* Every step preserves the statistics' invariant.
LEMMA SumsNext == (\E lev : SumInv(lev)) /\ [Next]_vars => (\E lev : SumInv(lev))'
<1> SUFFICES ASSUME NEW lev, SumInv(lev), [Next]_vars  PROVE \E lv : SumInv(lv)'
  OBVIOUS
<1>1. Inv(lev) /\ (overtaken => InFlight # {}) /\ (~overtaken => Stats(lev))  BY DEF SumInv
<1>2. \E lv : Inv(lv)'
  <2>1. IInv'  BY <1>1, NextIInv DEF IInv
  <2> QED  BY <2>1 DEF IInv
<1> PICK lv : Inv(lv)'  BY <1>2
<1>3. CASE overtaken
  <2>1. UNCHANGED <<overtaken, pc>>
    BY <1>3 DEF Next, vars, locals
  <2> QED  BY <1>1, <1>3, <2>1 DEF SumInv, InFlight
<1>4. CASE ~overtaken /\ overtaken'
  <2>1. UNCHANGED vars => UNCHANGED overtaken  BY DEF vars
  <2>2. Next  BY <1>4, <2>1, Zenon
  <2>3. InFlight # {} /\ UNCHANGED pc  BY <1>4, <2>2, OvertakenStep
  <2> QED  BY <1>4, <2>3 DEF SumInv, InFlight
<1>5. CASE ~overtaken /\ ~overtaken'
  <2>1. CASE Next
    <3>1. Stats(lv)'  BY <1>1, <1>5, <2>1, StatsStep
    <3> QED  BY <1>5, <3>1 DEF SumInv
  <2>2. CASE UNCHANGED vars
    <3>1. SameStats /\ SameOwed /\ UNCHANGED <<m_root, ply>>  BY <2>2, CallsCalm
    <3>2. Stats(lv)'  BY <1>1, <1>5, <3>1, CalmStats
    <3> QED  BY <1>5, <3>2 DEF SumInv
  <2> QED  BY <2>1, <2>2
<1> QED  BY <1>3, <1>4, <1>5

\* The sums of StatisticsAddUp are these.
LEMMA FieldsAdded ==
    ASSUME NEW n \in DOMAIN node, node[n].ch \subseteq DOMAIN node
    PROVE  /\ SumOver(LAMBDA c : node[c].size, n) = Total(Sizes, node[n].ch)
           /\ SumOver(LAMBDA c : node[c].visit_count, n) = Total(Visits, node[n].ch)
           /\ SumOver(LAMBDA c : node[c].total_action, n) = Total(Actions, node[n].ch)
<1>0. \E S : S = node[n].ch  OBVIOUS
<1> PICK S : S = node[n].ch  BY <1>0
<1>1. \A s \in SUBSET S : s # {} => Picked(s) \in DOMAIN node  BY DEF Picked
<1>2. SumOver(LAMBDA c : node[c].size, n) = Total(Sizes, S)
  <2> DEFINE sum(s, iter) == IF s = {} THEN 0
                             ELSE node[Picked(s)].size + iter[s \ {Picked(s)}]
  <2>1. SumOver(LAMBDA c : node[c].size, n)
          = (CHOOSE iter : iter = [s \in SUBSET S |-> sum(s, iter)])[S]
    BY DEF SumOver, FoldSet, MapThenFoldSet, Picked
  <2>2. ASSUME NEW iter
        PROVE  iter = [s \in SUBSET S |-> sum(s, iter)] <=> Adding(Sizes, S, iter)
    <3> DEFINE add(s) == IF s = {} THEN 0 ELSE Of(Sizes, Picked(s)) + iter[s \ {Picked(s)}]
    <3>1. \A s \in SUBSET S : sum(s, iter) = add(s)  BY <1>1 DEF Of, Sizes
    <3>2. [s \in SUBSET S |-> sum(s, iter)] = [s \in SUBSET S |-> add(s)]  BY <3>1
    <3> QED  BY <3>2 DEF Adding
  <2> HIDE DEF sum
  <2> QED  BY <2>1, <2>2 DEF Total
<1>3. SumOver(LAMBDA c : node[c].visit_count, n) = Total(Visits, S)
  <2> DEFINE sum(s, iter) == IF s = {} THEN 0
                             ELSE node[Picked(s)].visit_count + iter[s \ {Picked(s)}]
  <2>1. SumOver(LAMBDA c : node[c].visit_count, n)
          = (CHOOSE iter : iter = [s \in SUBSET S |-> sum(s, iter)])[S]
    BY DEF SumOver, FoldSet, MapThenFoldSet, Picked
  <2>2. ASSUME NEW iter
        PROVE  iter = [s \in SUBSET S |-> sum(s, iter)] <=> Adding(Visits, S, iter)
    <3> DEFINE add(s) == IF s = {} THEN 0 ELSE Of(Visits, Picked(s)) + iter[s \ {Picked(s)}]
    <3>1. \A s \in SUBSET S : sum(s, iter) = add(s)  BY <1>1 DEF Of, Visits
    <3>2. [s \in SUBSET S |-> sum(s, iter)] = [s \in SUBSET S |-> add(s)]  BY <3>1
    <3> QED  BY <3>2 DEF Adding
  <2> HIDE DEF sum
  <2> QED  BY <2>1, <2>2 DEF Total
<1>4. SumOver(LAMBDA c : node[c].total_action, n) = Total(Actions, S)
  <2> DEFINE sum(s, iter) == IF s = {} THEN 0
                             ELSE node[Picked(s)].total_action + iter[s \ {Picked(s)}]
  <2>1. SumOver(LAMBDA c : node[c].total_action, n)
          = (CHOOSE iter : iter = [s \in SUBSET S |-> sum(s, iter)])[S]
    BY DEF SumOver, FoldSet, MapThenFoldSet, Picked
  <2>2. ASSUME NEW iter
        PROVE  iter = [s \in SUBSET S |-> sum(s, iter)] <=> Adding(Actions, S, iter)
    <3> DEFINE add(s) == IF s = {} THEN 0 ELSE Of(Actions, Picked(s)) + iter[s \ {Picked(s)}]
    <3>1. \A s \in SUBSET S : sum(s, iter) = add(s)  BY <1>1 DEF Of, Actions
    <3>2. [s \in SUBSET S |-> sum(s, iter)] = [s \in SUBSET S |-> add(s)]  BY <3>1
    <3> QED  BY <3>2 DEF Adding
  <2> HIDE DEF sum
  <2> QED  BY <2>1, <2>2 DEF Total
<1> QED  BY <1>2, <1>3, <1>4

\* Between two searches every thread and callback is done with its simulation.
LEMMA AllIdle ==
    ASSUME NEW lev, Inv(lev), ~overtaken, active = {}, InFlight = {}
    PROVE  \A w \in Contexts : pc[w] = "idle"
<1>1. \A w \in Callbacks : pc[w] = "idle"  BY DEF InFlight
<1>2. \A w \in Workers : pc[w] = "idle"  BY Zenon DEF Inv, Working
<1> QED  BY <1>1, <1>2, Zenon DEF Contexts

\* When nobody searches, a node has a visit, a node and a value of its own besides those
\* of its children: what every simulation has backed up, on all of its path.
THEOREM Sums == Spec => []StatisticsAddUp
<1>1. Spec => [](\E lev : SumInv(lev))  BY SumsInit, SumsNext, PTL DEF Spec
<1>2. (\E lev : SumInv(lev)) => StatisticsAddUp
  <2> SUFFICES ASSUME NEW lev, SumInv(lev), active = {}, InFlight = {}, NEW n \in Live
               PROVE  /\ node[n].size = 1 + SumOver(LAMBDA c : node[c].size, n)
                      /\ node[n].ch # {} =>
                           /\ node[n].visit_count =
                                1 + SumOver(LAMBDA c : node[c].visit_count, n)
                           /\ node[n].total_action =
                                node[n].value - SumOver(LAMBDA c : node[c].total_action, n)
    BY DEF StatisticsAddUp
  <2>1. Inv(lev) /\ ~overtaken /\ Stats(lev)  BY DEF SumInv
  <2>2. SumFacts(lev)  BY <2>1, SumFactsHold
  <2>3. \A w \in Contexts : pc[w] = "idle"  BY <2>1, AllIdle
  <2>4. Arriving(n) = {}  BY <2>3 DEF Arriving, BackingUp
  <2>5. n \in DOMAIN node /\ node[n].ch \subseteq DOMAIN node  BY <2>2 DEF SumFacts
  <2>6. /\ SumOver(LAMBDA c : node[c].size, n) = Total(Sizes, node[n].ch)
        /\ SumOver(LAMBDA c : node[c].visit_count, n) = Total(Visits, node[n].ch)
        /\ SumOver(LAMBDA c : node[c].total_action, n) = Total(Actions, node[n].ch)
    BY <2>5, FieldsAdded
  <2>7. /\ Total(Lens, {}) = 0 /\ Total(Carried, {}) = 0 /\ Cardinality({}) = 0
        /\ node[n].size \in Int /\ node[n].visit_count \in Int /\ node[n].total_action \in Int
    BY <2>2, <2>5, TotalEmpty, FS_EmptySet DEF SumFacts
  <2>8. Adds(n)  BY <2>1 DEF Stats
  <2>9. node[n].size = 1 + Total(Sizes, node[n].ch)
    BY <2>4, <2>7, <2>8 DEF Adds, SizeAdds
  <2>10. ASSUME node[n].ch # {}
         PROVE  /\ node[n].visit_count = 1 + Total(Visits, node[n].ch)
                /\ node[n].total_action = node[n].value - Total(Actions, node[n].ch)
    BY <2>4, <2>7, <2>8, <2>10 DEF Adds, VisitsAdd, ActionsAdd
  <2> QED  BY <2>6, <2>9, <2>10
<1> QED  BY <1>1, <1>2, PTL

=============================================================================
