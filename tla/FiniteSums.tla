------------------------------ MODULE FiniteSums ------------------------------
(***************************************************************************)
(* Lemmas about sums over finite sets, which the code's totals are: of the *)
(* counts of the threads' LocalMonitors (MonitorThread_proofs), of the     *)
(* statistics of a node's children (SearchTree_proofs).                    *)
(*                                                                         *)
(* The folds of the community modules pick one element after the other in  *)
(* an order nobody knows.  Total is the function they compute their sums   *)
(* with, and the lemmas say that the order does not matter.  The library's *)
(* induction theorems take an operator, so the induction is over a set of  *)
(* naturals (AllNaturals).                                                 *)
(***************************************************************************)
EXTENDS Integers, FiniteSetTheorems, WellFoundedInduction, TLAPS

\* Induction: a set of naturals with 0 and the successor of each of its members.
LEMMA AllNaturals ==
    ASSUME NEW T, 0 \in T, \A k \in Nat : k \in T => k + 1 \in T
    PROVE  Nat \subseteq T
<1> SUFFICES ASSUME Nat \ T # {}  PROVE FALSE
  OBVIOUS
<1> DEFINE R == {ss \in Nat \X Nat : ss[1] < ss[2]}
<1>1. IsWellFoundedOn(R, Nat)  BY NatLessThanWellFounded DEF OpToRel
<1>2. \A y, x \in Nat : y < x => <<y, x>> \in R  OBVIOUS
<1> HIDE DEF R
<1>3. PICK x \in Nat \ T : \A y \in Nat \ T : ~ (<<y, x>> \in R)
  BY <1>1, WFMin
<1>4. x # 0  BY <1>3
<1>5. x - 1 \in Nat /\ x - 1 < x /\ (x - 1) + 1 = x  BY <1>4
<1>6. x - 1 \in T  BY <1>2, <1>3, <1>5
<1> QED  BY <1>3, <1>5, <1>6

\* A function is 0 outside its domain.
Of(f, x) == IF x \in DOMAIN f THEN f[x] ELSE 0

Picked(s) == CHOOSE r \in s : TRUE

\* The function that a sum is computed with, set by set.
Adding(cnt, S, iter) ==
    iter = [s \in SUBSET S |-> IF s = {} THEN 0
                                ELSE Of(cnt, Picked(s)) + iter[s \ {Picked(s)}]]

\* The sum of the function's values over S.
Total(cnt, S) == (CHOOSE iter : Adding(cnt, S, iter))[S]

\* Two of these functions agree where both are defined.
LEMMA AddingAgree ==
    ASSUME NEW cnt, NEW S, IsFiniteSet(S), NEW T \in SUBSET S,
           NEW f, Adding(cnt, S, f), NEW g, Adding(cnt, T, g)
    PROVE  \A s \in SUBSET T : f[s] = g[s]
<1> DEFINE Q == {n \in Nat : \A s \in SUBSET T : Cardinality(s) = n => f[s] = g[s]}
<1>1. 0 \in Q
  <2> SUFFICES ASSUME NEW s \in SUBSET T, Cardinality(s) = 0  PROVE f[s] = g[s]
    OBVIOUS
  <2>1. s \in SUBSET S /\ IsFiniteSet(s)  BY FS_Subset
  <2>2. s = {}  BY <2>1, FS_EmptySet
  <2> QED  BY <2>1, <2>2 DEF Adding
<1>2. ASSUME NEW n \in Nat, n \in Q  PROVE n + 1 \in Q
  <2> SUFFICES ASSUME NEW s \in SUBSET T, Cardinality(s) = n + 1  PROVE f[s] = g[s]
    OBVIOUS
  <2>1. s \in SUBSET S /\ IsFiniteSet(s)  BY FS_Subset
  <2>2. s # {}
    <3>1. Cardinality(s) # 0  OBVIOUS
    <3> QED  BY <2>1, <3>1, FS_EmptySet
  <2>3. Picked(s) \in s  BY <2>2 DEF Picked
  <2>4. Cardinality(s \ {Picked(s)}) = n
    <3>1. Cardinality(s \ {Picked(s)}) = Cardinality(s) - 1
      BY <2>1, <2>3, FS_RemoveElement
    <3> QED  BY <3>1
  <2>5. f[s \ {Picked(s)}] = g[s \ {Picked(s)}]  BY <1>2, <2>4
  <2>6. f[s] = Of(cnt, Picked(s)) + f[s \ {Picked(s)}]  BY <2>1, <2>2 DEF Adding
  <2>7. g[s] = Of(cnt, Picked(s)) + g[s \ {Picked(s)}]  BY <2>2 DEF Adding
  <2> QED  BY <2>5, <2>6, <2>7
<1> HIDE DEF Q
<1>3. Nat \subseteq Q  BY <1>1, <1>2, AllNaturals
<1> SUFFICES ASSUME NEW s \in SUBSET T  PROVE f[s] = g[s]
  OBVIOUS
<1>4. IsFiniteSet(s)  BY FS_Subset
<1>5. Cardinality(s) \in Nat  BY <1>4, FS_CardinalityType
<1> QED  BY <1>3, <1>5 DEF Q

\* There is such a function for every finite set.
LEMMA AddingExists ==
    ASSUME NEW cnt, NEW S, IsFiniteSet(S)
    PROVE  \E iter : Adding(cnt, S, iter)
<1> DEFINE Q == {n \in Nat : \A T \in SUBSET S : Cardinality(T) = n => \E f : Adding(cnt, T, f)}
<1>1. 0 \in Q
  <2> SUFFICES ASSUME NEW T \in SUBSET S, Cardinality(T) = 0  PROVE \E f : Adding(cnt, T, f)
    OBVIOUS
  <2>1. IsFiniteSet(T)  BY FS_Subset
  <2>2. T = {}  BY <2>1, FS_EmptySet
  <2> DEFINE f == [s \in SUBSET {} |-> 0]
  <2>3. Adding(cnt, {}, f)  BY DEF Adding
  <2> HIDE DEF f
  <2> QED  BY <2>2, <2>3
<1>2. ASSUME NEW n \in Nat, n \in Q  PROVE n + 1 \in Q
  <2> SUFFICES ASSUME NEW T \in SUBSET S, Cardinality(T) = n + 1
               PROVE  \E f : Adding(cnt, T, f)
    OBVIOUS
  <2>1. IsFiniteSet(T)  BY FS_Subset
  <2>2. ASSUME NEW x \in T  PROVE Cardinality(T \ {x}) = n
    <3>1. Cardinality(T \ {x}) = Cardinality(T) - 1  BY <2>1, FS_RemoveElement
    <3> QED  BY <3>1
  <2>3. \A x \in T : \E f : Adding(cnt, T \ {x}, f)  BY <1>2, <2>2
  <2> DEFINE part(x) == CHOOSE f : Adding(cnt, T \ {x}, f)
             \* Any element that is not in s will do.
             at(s) == part(CHOOSE x \in T : x \notin s)[s]
             val(s) == IF s = {} THEN 0 ELSE Of(cnt, Picked(s)) + at(s \ {Picked(s)})
             g == [s \in SUBSET T |-> IF s = T THEN val(T) ELSE at(s)]
  <2>4. \A x \in T : Adding(cnt, T \ {x}, part(x))  BY <2>3
  <2> HIDE DEF part
  <2>5. ASSUME NEW s \in SUBSET T, s # T, NEW x \in T, x \notin s
        PROVE  at(s) = part(x)[s]
    <3> DEFINE y == CHOOSE z \in T : z \notin s
    <3>1. y \in T /\ y \notin s  BY <2>5
    <3> HIDE DEF y
    <3> DEFINE U == T \ {x, y}
               h == [u \in SUBSET U |-> part(x)[u]]
               k == [u \in SUBSET U |-> part(y)[u]]
    <3>2. Adding(cnt, T \ {x}, part(x)) /\ Adding(cnt, T \ {y}, part(y))  BY <2>4, <3>1
    <3>3. U \in SUBSET (T \ {x}) /\ U \in SUBSET (T \ {y}) /\ s \in SUBSET U  BY <2>5, <3>1
    <3>4. \A u \in SUBSET U : u # {} => Picked(u) \in u  BY DEF Picked
    <3>5. Adding(cnt, U, h)
      <4>1. \A u \in SUBSET U : h[u] = IF u = {} THEN 0
                                       ELSE Of(cnt, Picked(u)) + h[u \ {Picked(u)}]
        <5> HIDE DEF U
        <5> SUFFICES ASSUME NEW u \in SUBSET U
                     PROVE  h[u] = IF u = {} THEN 0
                                   ELSE Of(cnt, Picked(u)) + h[u \ {Picked(u)}]
          OBVIOUS
        <5>1. u \in SUBSET (T \ {x}) /\ u \ {Picked(u)} \in SUBSET U  BY <3>3
        <5>2. h[u] = part(x)[u] /\ h[u \ {Picked(u)}] = part(x)[u \ {Picked(u)}]  BY <5>1
        <5> HIDE DEF h
        <5> QED  BY <3>2, <5>1, <5>2 DEF Adding
      <4>2. h = [u \in SUBSET U |-> h[u]]  OBVIOUS
      <4> HIDE DEF h, U
      <4> QED  BY <4>1, <4>2 DEF Adding
    <3>6. IsFiniteSet(T \ {x}) /\ IsFiniteSet(T \ {y})  BY <2>1, FS_Subset
    <3>7. part(x)[s] = h[s] /\ part(y)[s] = h[s]
      <4> HIDE DEF h, U
      <4> QED  BY <3>2, <3>3, <3>5, <3>6, AddingAgree
    <3> QED  BY <3>7 DEF y
  <2>6. ASSUME NEW s \in SUBSET T  PROVE g[s] = IF s = {} THEN 0
                                          ELSE Of(cnt, Picked(s)) + g[s \ {Picked(s)}]
    <3> DEFINE c == Picked(s)
    <3>1. s # {} => c \in s  BY DEF Picked
    <3>2. s # {} => s \ {c} # T /\ s \ {c} \in SUBSET T  BY <3>1
    <3>3. s # {} => g[s \ {c}] = at(s \ {c})  BY <3>2
    <3>4. CASE s = T
      <4>1. g[s] = val(s)  BY <3>4
      <4> HIDE DEF at, g
      <4> QED  BY <3>3, <4>1
    <3>5. CASE s # T
      <4>1. PICK x \in T : x \notin s  BY <3>5
      <4>2. g[s] = at(s)  BY <3>5
      <4> HIDE DEF at, g
      <4>3. at(s) = part(x)[s]  BY <2>5, <3>5, <4>1
      <4>4. s # {} => at(s \ {c}) = part(x)[s \ {c}]
        <5>1. x \notin s \ {c}  BY <4>1
        <5> HIDE DEF c
        <5> QED  BY <2>5, <3>2, <4>1, <5>1
      <4>5. part(x)[s] = IF s = {} THEN 0 ELSE Of(cnt, c) + part(x)[s \ {c}]
        <5>1. Adding(cnt, T \ {x}, part(x)) /\ s \in SUBSET (T \ {x})  BY <2>4, <4>1
        <5> QED  BY <5>1 DEF Adding
      <4> QED  BY <3>3, <4>2, <4>3, <4>4, <4>5
    <3> QED  BY <3>4, <3>5
  <2>7. g = [s \in SUBSET T |-> g[s]]  OBVIOUS
  <2> HIDE DEF g, at
  <2>8. Adding(cnt, T, g)  BY <2>6, <2>7 DEF Adding
  <2> QED  BY <2>8
<1> HIDE DEF Q
<1>3. Nat \subseteq Q  BY <1>1, <1>2, AllNaturals
<1>4. Cardinality(S) \in Nat  BY FS_CardinalityType
<1> QED  BY <1>3, <1>4 DEF Q

\* The sum without the element that is picked first.
LEMMA TotalPicked ==
    ASSUME NEW cnt, NEW S, IsFiniteSet(S)
    PROVE  Total(cnt, S) = IF S = {} THEN 0
                           ELSE Of(cnt, Picked(S)) + Total(cnt, S \ {Picked(S)})
<1> DEFINE T == S \ {Picked(S)}
           f == CHOOSE iter : Adding(cnt, S, iter)
           g == CHOOSE iter : Adding(cnt, T, iter)
<1>1. T \in SUBSET S /\ IsFiniteSet(T)  BY FS_Subset
<1> HIDE DEF T
<1>2. Adding(cnt, S, f)  BY AddingExists
<1>3. Adding(cnt, T, g)  BY <1>1, AddingExists
<1>4. Total(cnt, S) = f[S] /\ Total(cnt, T) = g[T]  BY DEF Total
<1> HIDE DEF f, g
<1>5. f[T] = g[T]  BY <1>1, <1>2, <1>3, AddingAgree
<1>6. f[S] = IF S = {} THEN 0 ELSE Of(cnt, Picked(S)) + f[S \ {Picked(S)}]
  BY <1>2 DEF Adding
<1> QED  BY <1>4, <1>5, <1>6 DEF T

\* The sum over no element.
LEMMA TotalEmpty == \A cnt : Total(cnt, {}) = 0
<1> SUFFICES ASSUME NEW cnt  PROVE Total(cnt, {}) = 0
  OBVIOUS
<1>1. IsFiniteSet({})  BY FS_EmptySet
<1> QED  BY <1>1, TotalPicked

\* The sum of integers.
LEMMA TotalType ==
    ASSUME NEW cnt, NEW S, IsFiniteSet(S), \A r \in S : Of(cnt, r) \in Int
    PROVE  \A T \in SUBSET S : Total(cnt, T) \in Int
<1> DEFINE Q == {n \in Nat : \A T \in SUBSET S : Cardinality(T) = n => Total(cnt, T) \in Int}
<1>1. 0 \in Q
  <2> SUFFICES ASSUME NEW T \in SUBSET S, Cardinality(T) = 0  PROVE Total(cnt, T) \in Int
    OBVIOUS
  <2>1. IsFiniteSet(T)  BY FS_Subset
  <2>2. T = {}  BY <2>1, FS_EmptySet
  <2> QED  BY <2>2, TotalEmpty
<1>2. ASSUME NEW n \in Nat, n \in Q  PROVE n + 1 \in Q
  <2> SUFFICES ASSUME NEW T \in SUBSET S, Cardinality(T) = n + 1
               PROVE  Total(cnt, T) \in Int
    OBVIOUS
  <2>1. IsFiniteSet(T)  BY FS_Subset
  <2>2. T # {}
    <3>1. Cardinality(T) # 0  OBVIOUS
    <3> QED  BY <2>1, <3>1, FS_EmptySet
  <2> DEFINE c == Picked(T)
  <2>3. c \in T  BY <2>2 DEF Picked
  <2>4. Total(cnt, T) = Of(cnt, c) + Total(cnt, T \ {c})  BY <2>1, <2>2, TotalPicked
  <2> HIDE DEF c
  <2>5. Cardinality(T \ {c}) = n
    <3>1. Cardinality(T \ {c}) = Cardinality(T) - 1  BY <2>1, <2>3, FS_RemoveElement
    <3> QED  BY <3>1
  <2>6. Total(cnt, T \ {c}) \in Int /\ Of(cnt, c) \in Int  BY <1>2, <2>3, <2>5
  <2> QED  BY <2>4, <2>6
<1> HIDE DEF Q
<1>3. Nat \subseteq Q  BY <1>1, <1>2, AllNaturals
<1> SUFFICES ASSUME NEW T \in SUBSET S  PROVE Total(cnt, T) \in Int
  OBVIOUS
<1>4. IsFiniteSet(T)  BY FS_Subset
<1>5. Cardinality(T) \in Nat  BY <1>4, FS_CardinalityType
<1> QED  BY <1>3, <1>5 DEF Q

\* The order in which the elements are picked does not matter.
LEMMA TotalRemove ==
    ASSUME NEW cnt, NEW S, IsFiniteSet(S), \A r \in S : Of(cnt, r) \in Int
    PROVE  \A x \in S : Total(cnt, S) = Of(cnt, x) + Total(cnt, S \ {x})
<1> DEFINE Good(T) == \A x \in T : Total(cnt, T) = Of(cnt, x) + Total(cnt, T \ {x})
           Q == {n \in Nat : \A T \in SUBSET S : Cardinality(T) = n => Good(T)}
<1>1. 0 \in Q
  <2> SUFFICES ASSUME NEW T \in SUBSET S, Cardinality(T) = 0  PROVE T = {}
    OBVIOUS
  <2>1. IsFiniteSet(T)  BY FS_Subset
  <2> QED  BY <2>1, FS_EmptySet
<1>2. ASSUME NEW n \in Nat, n \in Q  PROVE n + 1 \in Q
  <2> SUFFICES ASSUME NEW T \in SUBSET S, Cardinality(T) = n + 1  PROVE Good(T)
    OBVIOUS
  <2>1. IsFiniteSet(T)  BY FS_Subset
  <2>2. ASSUME NEW x \in T  PROVE Good(T \ {x})
    <3>1. Cardinality(T \ {x}) = Cardinality(T) - 1  BY <2>1, FS_RemoveElement
    <3>2. Cardinality(T \ {x}) = n  BY <3>1
    <3> QED  BY <1>2, <3>2
  <2>3. T # {}
    <3>1. Cardinality(T) # 0  OBVIOUS
    <3> QED  BY <2>1, <3>1, FS_EmptySet
  <2> DEFINE c == Picked(T)
  <2>4. c \in T  BY <2>3 DEF Picked
  <2>5. Total(cnt, T) = Of(cnt, c) + Total(cnt, T \ {c})  BY <2>1, <2>3, TotalPicked
  <2> HIDE DEF c
  <2>8. ASSUME NEW x \in T  PROVE Total(cnt, T) = Of(cnt, x) + Total(cnt, T \ {x})
    <3>1. CASE x = c  BY <2>5, <3>1
    <3>2. CASE x # c
      <4>1. x \in T \ {c} /\ c \in T \ {x} /\ (T \ {c}) \ {x} = (T \ {x}) \ {c}
        BY <2>4, <3>2
      <4> DEFINE rest == (T \ {c}) \ {x}
      <4>2. Total(cnt, T \ {c}) = Of(cnt, x) + Total(cnt, rest)  BY <2>2, <2>4, <4>1
      <4>3. Total(cnt, T \ {x}) = Of(cnt, c) + Total(cnt, rest)  BY <2>2, <4>1
      <4>4. Total(cnt, rest) \in Int  BY TotalType
      <4> HIDE DEF rest
      <4>5. Of(cnt, x) \in Int /\ Of(cnt, c) \in Int  BY <2>4
      <4> QED  BY <2>5, <4>2, <4>3, <4>4, <4>5
    <3> QED  BY <3>1, <3>2
  <2> QED  BY <2>8
<1> HIDE DEF Q, Good
<1>3. Nat \subseteq Q  BY <1>1, <1>2, AllNaturals
<1>4. Cardinality(S) \in Nat  BY FS_CardinalityType
<1>5. Good(S)  BY <1>3, <1>4 DEF Q
<1> QED  BY <1>5 DEF Good

\* Sums of the same counts are the same.
LEMMA TotalSame ==
    ASSUME NEW cnt, NEW cnt2, NEW S, IsFiniteSet(S), \A r \in S : Of(cnt, r) = Of(cnt2, r)
    PROVE  Total(cnt, S) = Total(cnt2, S)
<1>1. \A iter : Adding(cnt, S, iter) <=> Adding(cnt2, S, iter)
  <2> SUFFICES ASSUME NEW iter
               PROVE  [s \in SUBSET S |-> IF s = {} THEN 0
                         ELSE Of(cnt, Picked(s)) + iter[s \ {Picked(s)}]]
                    = [s \in SUBSET S |-> IF s = {} THEN 0
                         ELSE Of(cnt2, Picked(s)) + iter[s \ {Picked(s)}]]
    BY DEF Adding
  <2>1. \A s \in SUBSET S : s # {} => Picked(s) \in S  BY DEF Picked
  <2>2. \A s \in SUBSET S : s # {} => Of(cnt, Picked(s)) = Of(cnt2, Picked(s))  BY <2>1
  <2> QED  BY <2>2
<1> DEFINE f == CHOOSE iter : Adding(cnt, S, iter)
           g == CHOOSE iter : Adding(cnt2, S, iter)
<1>2. Adding(cnt, S, f) /\ Adding(cnt2, S, g)  BY AddingExists
<1>3. Total(cnt, S) = f[S] /\ Total(cnt2, S) = g[S]  BY DEF Total
<1> HIDE DEF f, g
<1>4. Adding(cnt, S, g)  BY <1>1, <1>2
<1> QED  BY <1>2, <1>3, <1>4, AddingAgree

\* One count more, one count changed, and no count at all.
LEMMA TotalChange ==
    ASSUME NEW cnt, NEW cnt2, NEW S, IsFiniteSet(S), NEW x \in S,
           \A r \in S : Of(cnt, r) \in Int, Of(cnt2, x) \in Int,
           \A r \in S \ {x} : Of(cnt2, r) = Of(cnt, r)
    PROVE  Total(cnt2, S) = Total(cnt, S) - Of(cnt, x) + Of(cnt2, x)
<1>1. IsFiniteSet(S \ {x})  BY FS_Subset
<1>2. \A r \in S : Of(cnt2, r) \in Int  OBVIOUS
<1>3. Total(cnt, S) = Of(cnt, x) + Total(cnt, S \ {x})  BY TotalRemove
<1>4. Total(cnt2, S) = Of(cnt2, x) + Total(cnt2, S \ {x})  BY <1>2, TotalRemove
<1>5. Total(cnt2, S \ {x}) = Total(cnt, S \ {x})  BY <1>1, TotalSame
<1>6. Total(cnt, S \ {x}) \in Int /\ Of(cnt, x) \in Int  BY TotalType
<1> QED  BY <1>3, <1>4, <1>5, <1>6

\* A sum with one element more.
LEMMA TotalAdd ==
    ASSUME NEW cnt, NEW S, IsFiniteSet(S), NEW x, x \notin S,
           \A r \in S \cup {x} : Of(cnt, r) \in Int
    PROVE  Total(cnt, S \cup {x}) = Of(cnt, x) + Total(cnt, S)
<1> DEFINE T == S \cup {x}
<1>1. IsFiniteSet(T) /\ x \in T /\ T \ {x} = S  BY FS_AddElement
<1>2. \A r \in T : Of(cnt, r) \in Int  OBVIOUS
<1> HIDE DEF T
<1>3. Total(cnt, T) = Of(cnt, x) + Total(cnt, S)  BY <1>1, <1>2, TotalRemove
<1> QED  BY <1>3 DEF T

\* An element for which the function is 0 adds nothing.
LEMMA TotalMore ==
    ASSUME NEW cnt, NEW S, IsFiniteSet(S), NEW x,
           \A r \in S \cup {x} : Of(cnt, r) \in Int, Of(cnt, x) = 0
    PROVE  Total(cnt, S \cup {x}) = Total(cnt, S)
<1>1. CASE x \in S
  <2>1. S \cup {x} = S  BY <1>1
  <2> QED  BY <2>1
<1>2. CASE x \notin S
  <2> DEFINE T == S \cup {x}
  <2>1. IsFiniteSet(T) /\ x \in T /\ T \ {x} = S  BY <1>2, FS_AddElement
  <2>2. \A r \in T : Of(cnt, r) \in Int  OBVIOUS
  <2> HIDE DEF T
  <2>3. Total(cnt, T) = Of(cnt, x) + Total(cnt, S)  BY <2>1, <2>2, TotalRemove
  <2>4. S \in SUBSET S /\ \A r \in S : Of(cnt, r) \in Int  OBVIOUS
  <2>5. Total(cnt, S) \in Int  BY <2>4, TotalType
  <2> QED  BY <2>3, <2>5 DEF T
<1> QED  BY <1>1, <1>2

\* A sum of zeros.
LEMMA TotalZero ==
    ASSUME NEW cnt, NEW S, IsFiniteSet(S), \A r \in S : Of(cnt, r) = 0
    PROVE  Total(cnt, S) = 0
<1> DEFINE Q == {n \in Nat : \A T \in SUBSET S : Cardinality(T) = n => Total(cnt, T) = 0}
<1>1. 0 \in Q
  <2> SUFFICES ASSUME NEW T \in SUBSET S, Cardinality(T) = 0  PROVE Total(cnt, T) = 0
    OBVIOUS
  <2>1. IsFiniteSet(T)  BY FS_Subset
  <2>2. T = {}  BY <2>1, FS_EmptySet
  <2> QED  BY <2>2, TotalEmpty
<1>2. ASSUME NEW n \in Nat, n \in Q  PROVE n + 1 \in Q
  <2> SUFFICES ASSUME NEW T \in SUBSET S, Cardinality(T) = n + 1
               PROVE  Total(cnt, T) = 0
    OBVIOUS
  <2>1. IsFiniteSet(T)  BY FS_Subset
  <2>2. PICK x \in T : TRUE
    <3>1. Cardinality(T) # 0  OBVIOUS
    <3> QED  BY <2>1, <3>1, FS_EmptySet
  <2>3. Cardinality(T \ {x}) = n
    <3>1. Cardinality(T \ {x}) = Cardinality(T) - 1  BY <2>1, <2>2, FS_RemoveElement
    <3> QED  BY <3>1
  <2>4. Total(cnt, T \ {x}) = 0 /\ Of(cnt, x) = 0  BY <1>2, <2>3
  <2>5. \A r \in T : Of(cnt, r) \in Int  OBVIOUS
  <2>6. Total(cnt, T) = Of(cnt, x) + Total(cnt, T \ {x})  BY <2>1, <2>5, TotalRemove
  <2> QED  BY <2>4, <2>6
<1> HIDE DEF Q
<1>3. Nat \subseteq Q  BY <1>1, <1>2, AllNaturals
<1>4. Cardinality(S) \in Nat  BY FS_CardinalityType
<1> QED  BY <1>3, <1>4 DEF Q

\* A sum of ones is the number of elements.
LEMMA TotalOnes ==
    ASSUME NEW cnt, NEW S, IsFiniteSet(S), \A r \in S : Of(cnt, r) = 1
    PROVE  Total(cnt, S) = Cardinality(S)
<1> DEFINE Q == {n \in Nat : \A T \in SUBSET S : Cardinality(T) = n => Total(cnt, T) = n}
<1>1. 0 \in Q
  <2> SUFFICES ASSUME NEW T \in SUBSET S, Cardinality(T) = 0  PROVE Total(cnt, T) = 0
    OBVIOUS
  <2>1. IsFiniteSet(T)  BY FS_Subset
  <2>2. T = {}  BY <2>1, FS_EmptySet
  <2> QED  BY <2>2, TotalEmpty
<1>2. ASSUME NEW n \in Nat, n \in Q  PROVE n + 1 \in Q
  <2> SUFFICES ASSUME NEW T \in SUBSET S, Cardinality(T) = n + 1
               PROVE  Total(cnt, T) = n + 1
    OBVIOUS
  <2>1. IsFiniteSet(T)  BY FS_Subset
  <2>2. PICK x \in T : TRUE
    <3>1. Cardinality(T) # 0  OBVIOUS
    <3> QED  BY <2>1, <3>1, FS_EmptySet
  <2>3. Cardinality(T \ {x}) = n
    <3>1. Cardinality(T \ {x}) = Cardinality(T) - 1  BY <2>1, <2>2, FS_RemoveElement
    <3> QED  BY <3>1
  <2>4. Total(cnt, T \ {x}) = n /\ Of(cnt, x) = 1  BY <1>2, <2>3
  <2>5. \A r \in T : Of(cnt, r) \in Int  OBVIOUS
  <2>6. Total(cnt, T) = Of(cnt, x) + Total(cnt, T \ {x})  BY <2>1, <2>5, TotalRemove
  <2> QED  BY <2>4, <2>6
<1> HIDE DEF Q
<1>3. Nat \subseteq Q  BY <1>1, <1>2, AllNaturals
<1>4. Cardinality(S) \in Nat  BY FS_CardinalityType
<1> QED  BY <1>3, <1>4 DEF Q

=============================================================================
