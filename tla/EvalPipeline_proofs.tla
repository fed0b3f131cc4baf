------------------------ MODULE EvalPipeline_proofs -------------------------
(***************************************************************************)
(* Proofs about the evaluation pipeline: the invariant IInv is inductive,  *)
(* and the properties that Eval.cfg checks follow from it.                 *)
(*                                                                         *)
(* IInv says what the program counters of the threads say about their      *)
(* data, that the sequences in which tasks travel have no task in common   *)
(* and hold exactly the tasks that wait for their callback (Located), that *)
(* there is a thread awake for each element or free place of the queue     *)
(* while another sleeps for it (WakeupsCounted), and that the tasks pushed *)
(* and not answered fit into the queue and the batches (TasksBounded).     *)
(***************************************************************************)
EXTENDS EvalPipeline, SequenceTheorems, FiniteSetTheorems, TLAPS

-----------------------------------------------------------------------------
(* Sequences without duplicates, families of them that have no element in  *)
(* common, and how many elements they have.                                *)

NoDuplicates(s) == \A i, j \in DOMAIN s : s[i] = s[j] => i = j

\* The elements of a sequence, in terms of its length.
LEMMA SeqElements ==
    ASSUME NEW T, NEW s \in Seq(T)
    PROVE  /\ Len(s) \in Nat /\ DOMAIN s = 1 .. Len(s)
           /\ \A u : u \in ToSet(s) <=> \E i \in 1 .. Len(s) : s[i] = u
           /\ ToSet(s) \subseteq T
           /\ ToSet(s) = {} <=> s = <<>>
BY DEF ToSet

\* The empty sequence has no elements.
LEMMA EmptyElements == ToSet(<<>>) = {} /\ NoDuplicates(<<>>)
BY DEF ToSet, NoDuplicates

\* The rest of a sequence without duplicates is what is left without the head.
LEMMA TailElements ==
    ASSUME NEW T, NEW s \in Seq(T), s # <<>>
    PROVE  /\ Head(s) \in ToSet(s) /\ Tail(s) \in Seq(T) /\ Len(Tail(s)) = Len(s) - 1
           /\ ToSet(Tail(s)) \subseteq ToSet(s)
           /\ NoDuplicates(s) => /\ NoDuplicates(Tail(s))
                                 /\ ToSet(Tail(s)) = ToSet(s) \ {Head(s)}
<1>1. /\ Len(s) \in Nat \ {0} /\ Len(Tail(s)) = Len(s) - 1 /\ Head(s) = s[1]
      /\ \A i \in 1 .. Len(s) - 1 : Tail(s)[i] = s[i + 1]
      /\ Tail(s) \in Seq(T)
  OBVIOUS
<1>2. /\ \A u : u \in ToSet(s) <=> \E i \in 1 .. Len(s) : s[i] = u
      /\ \A u : u \in ToSet(Tail(s)) <=> \E i \in 1 .. Len(s) - 1 : s[i + 1] = u
  <2>1. \A u : u \in ToSet(Tail(s)) <=> \E i \in 1 .. Len(s) - 1 : Tail(s)[i] = u
    BY <1>1, SeqElements
  <2>2. \A u : u \in ToSet(s) <=> \E i \in 1 .. Len(s) : s[i] = u  BY SeqElements
  <2> QED  BY <1>1, <2>1, <2>2
<1>3. ToSet(s) = ToSet(Tail(s)) \cup {Head(s)}
  <2>1. ASSUME NEW u \in ToSet(s) PROVE u \in ToSet(Tail(s)) \cup {Head(s)}
    <3>1. PICK i \in 1 .. Len(s) : s[i] = u  BY <1>2
    <3>2. CASE i # 1
      <4>1. i - 1 \in 1 .. Len(s) - 1 /\ s[(i - 1) + 1] = u  BY <1>1, <3>1, <3>2
      <4> QED  BY <4>1, <1>2
    <3> QED  BY <1>1, <3>1, <3>2
  <2>2. Head(s) \in ToSet(s)  BY <1>1, <1>2
  <2>3. ASSUME NEW u \in ToSet(Tail(s)) PROVE u \in ToSet(s)
    <3>1. PICK i \in 1 .. Len(s) - 1 : s[i + 1] = u  BY <1>2
    <3> QED  BY <3>1, <1>1, <1>2
  <2> QED  BY <2>1, <2>2, <2>3
<1>4. ASSUME NoDuplicates(s)
      PROVE  NoDuplicates(Tail(s)) /\ Head(s) \notin ToSet(Tail(s))
  <2>1. \A i, j \in 1 .. Len(s) : s[i] = s[j] => i = j  BY <1>1, <1>4 DEF NoDuplicates
  <2>2. DOMAIN Tail(s) = 1 .. Len(s) - 1  BY <1>1
  <2>3. ASSUME NEW i \in 1 .. Len(s) - 1, NEW j \in 1 .. Len(s) - 1, Tail(s)[i] = Tail(s)[j]
        PROVE  i = j
    <3>1. s[i + 1] = s[j + 1] /\ i + 1 \in 1 .. Len(s) /\ j + 1 \in 1 .. Len(s)
      BY <1>1, <2>3
    <3> QED  BY <3>1, <2>1
  <2>4. ASSUME NEW i \in 1 .. Len(s) - 1, s[i + 1] = s[1] PROVE FALSE
    BY <1>1, <2>1, <2>4
  <2> QED  BY <1>1, <1>2, <2>2, <2>3, <2>4 DEF NoDuplicates
<1> QED  BY <1>1, <1>3, <1>4

\* Append() adds one element, which must be new if there are to be no duplicates.
LEMMA AppendElements ==
    ASSUME NEW T, NEW s \in Seq(T), NEW u \in T
    PROVE  /\ Append(s, u) \in Seq(T) /\ Append(s, u) # <<>> /\ Len(Append(s, u)) = Len(s) + 1
           /\ ToSet(Append(s, u)) = ToSet(s) \cup {u}
           /\ NoDuplicates(s) /\ u \notin ToSet(s) => NoDuplicates(Append(s, u))
<1>1. /\ Len(s) \in Nat /\ Len(Append(s, u)) = Len(s) + 1 /\ Append(s, u) \in Seq(T)
      /\ \A i \in 1 .. Len(s) : Append(s, u)[i] = s[i]
      /\ Append(s, u)[Len(s) + 1] = u
  OBVIOUS
<1>2. \A i \in 1 .. Len(s) + 1 : i \in 1 .. Len(s) \/ i = Len(s) + 1  BY <1>1
<1>3. /\ \A v : v \in ToSet(s) <=> \E i \in 1 .. Len(s) : s[i] = v
      /\ \A v : v \in ToSet(Append(s, u)) <=> \E i \in 1 .. Len(s) + 1 : Append(s, u)[i] = v
  BY <1>1, SeqElements
<1>4. ToSet(Append(s, u)) = ToSet(s) \cup {u}
  <2>1. \A i \in 1 .. Len(s) : i \in 1 .. Len(s) + 1  BY <1>1
  <2> QED  BY <1>1, <1>2, <1>3, <2>1
<1>5. ASSUME NoDuplicates(s), u \notin ToSet(s) PROVE NoDuplicates(Append(s, u))
  BY <1>1, <1>2, <1>3, <1>5 DEF NoDuplicates
<1> QED  BY <1>1, <1>4, <1>5

\* So does putting an element in front.
LEMMA PrependElements ==
    ASSUME NEW T, NEW s \in Seq(T), NEW u \in T
    PROVE  /\ <<u>> \o s \in Seq(T) /\ Len(<<u>> \o s) = Len(s) + 1
           /\ ToSet(<<u>> \o s) = ToSet(s) \cup {u}
           /\ NoDuplicates(s) /\ u \notin ToSet(s) => NoDuplicates(<<u>> \o s)
<1> DEFINE r == <<u>> \o s
<1>1. /\ Len(s) \in Nat /\ Len(r) = Len(s) + 1 /\ r \in Seq(T) /\ r # <<>>
      /\ r[1] = u
      /\ \A i \in 1 .. Len(s) : r[i + 1] = s[i]
  OBVIOUS
<1> HIDE DEF r
<1>3. /\ \A v : v \in ToSet(s) <=> \E i \in 1 .. Len(s) : s[i] = v
      /\ \A v : v \in ToSet(r) <=> \E i \in 1 .. Len(s) + 1 : r[i] = v
  BY <1>1, SeqElements
<1>4. \A i \in 1 .. Len(s) + 1 : i = 1 \/ (i - 1 \in 1 .. Len(s) /\ r[i] = s[i - 1])
  <2> SUFFICES ASSUME NEW i \in 1 .. Len(s) + 1, i # 1
               PROVE  i - 1 \in 1 .. Len(s) /\ r[i] = s[i - 1]
    OBVIOUS
  <2>1. i - 1 \in 1 .. Len(s) /\ (i - 1) + 1 = i  BY <1>1
  <2> QED  BY <2>1, <1>1
<1>5. ToSet(r) = ToSet(s) \cup {u}
  <2>1. \A i \in 1 .. Len(s) : i + 1 \in 1 .. Len(s) + 1  BY <1>1
  <2>2. 1 \in 1 .. Len(s) + 1  BY <1>1
  <2> QED  BY <1>1, <1>3, <1>4, <2>1, <2>2
<1>6. ASSUME NoDuplicates(s), u \notin ToSet(s) PROVE NoDuplicates(r)
  <2>1. DOMAIN s = 1 .. Len(s) /\ DOMAIN r = 1 .. Len(s) + 1  BY <1>1
  <2> SUFFICES ASSUME NEW i \in 1 .. Len(s) + 1, NEW j \in 1 .. Len(s) + 1, r[i] = r[j]
               PROVE  i = j
    BY <2>1 DEF NoDuplicates
  <2>2. CASE i = 1 \/ j = 1  BY <2>2, <1>1, <1>3, <1>4, <1>6
  <2>3. CASE i # 1 /\ j # 1
    <3>1. s[i - 1] = s[j - 1] /\ i - 1 \in 1 .. Len(s) /\ j - 1 \in 1 .. Len(s)
      BY <2>3, <1>4
    <3>2. i - 1 = j - 1  BY <3>1, <2>1, <1>6 DEF NoDuplicates
    <3> QED  BY <3>2
  <2> QED  BY <2>2, <2>3
<1> QED  BY <1>1, <1>5, <1>6 DEF r

-----------------------------------------------------------------------------
\* No element is twice in a sequence of f, or in two of them.
Separate(X, f) ==
    /\ \A z \in X : NoDuplicates(f[z])
    /\ \A u, v \in X : \A a : a \in ToSet(f[u]) /\ a \in ToSet(f[v]) => u = v

Elements(X, f) == UNION {ToSet(f[z]) : z \in X}

\* One element h moves from one sequence to another.
LEMMA MoveOne ==
    ASSUME NEW X, NEW T, NEW f \in [X -> Seq(T)], NEW g \in [X -> Seq(T)],
           NEW x \in X, NEW y \in X, x # y, NEW h, h \in ToSet(f[x]),
           NoDuplicates(g[x]), NoDuplicates(g[y]),
           ToSet(g[x]) = ToSet(f[x]) \ {h}, ToSet(g[y]) = ToSet(f[y]) \cup {h},
           \A z \in X \ {x, y} : g[z] = f[z],
           Separate(X, f)
    PROVE  Separate(X, g) /\ Elements(X, g) = Elements(X, f)
<1>1. /\ \A z \in X : NoDuplicates(f[z])
      /\ \A u, v \in X : \A a : a \in ToSet(f[u]) /\ a \in ToSet(f[v]) => u = v
  BY DEF Separate
<1>2. ASSUME NEW z \in X, NEW a
      PROVE  a \in ToSet(g[z]) <=> IF a = h THEN z = y ELSE a \in ToSet(f[z])
  <2>1. CASE z = x  BY <2>1, <1>1
  <2>2. CASE z = y  BY <2>2, <1>1
  <2>3. CASE z \notin {x, y}  BY <2>3, <1>1
  <2> QED  BY <2>1, <2>2, <2>3
<1>3. \A z \in X : NoDuplicates(g[z])  BY <1>1
<1>4. \A u, v \in X : \A a : a \in ToSet(g[u]) /\ a \in ToSet(g[v]) => u = v
  BY <1>1, <1>2
<1>5. \A a : a \in Elements(X, f) <=> \E z \in X : a \in ToSet(f[z])  BY DEF Elements
<1>6. \A a : a \in Elements(X, g) <=> \E z \in X : a \in ToSet(g[z])  BY DEF Elements
<1>7. \A a : a \in Elements(X, g) <=> a \in Elements(X, f)  BY <1>2, <1>5, <1>6
<1>8. Elements(X, g) = Elements(X, f)  BY <1>7
<1> QED  BY <1>3, <1>4, <1>8 DEF Separate

MovesToEnd(X, T, f, g, x, y) ==
    /\ f \in [X -> Seq(T)] /\ g \in [X -> Seq(T)] /\ Separate(X, f)
    /\ x \in X /\ y \in X /\ x # y /\ \A z \in X \ {x, y} : g[z] = f[z]
    /\ f[x] # <<>> /\ g[x] = Tail(f[x]) /\ g[y] = Append(f[y], Head(f[x]))

\* The head of one sequence goes to the end of another: Push and Pop.
LEMMA MoveToEnd ==
    ASSUME NEW X, NEW T, NEW f, NEW g, NEW x, NEW y,
           MovesToEnd(X, T, f, g, x, y)
    PROVE  Separate(X, g) /\ Elements(X, g) = Elements(X, f)
<1> USE DEF MovesToEnd
<1>1. f[x] \in Seq(T) /\ f[y] \in Seq(T) /\ DOMAIN f = X /\ DOMAIN g = X  OBVIOUS
<1>2. NoDuplicates(f[x]) /\ NoDuplicates(f[y]) /\ ToSet(f[x]) \cap ToSet(f[y]) = {}
  BY <1>1 DEF Separate
<1>3. /\ Head(f[x]) \in ToSet(f[x]) /\ NoDuplicates(g[x])
      /\ ToSet(g[x]) = ToSet(f[x]) \ {Head(f[x])}
  BY <1>1, <1>2, TailElements
<1>4. Head(f[x]) \in T /\ Head(f[x]) \notin ToSet(f[y])  BY <1>1, <1>2, <1>3, SeqElements
<1>5. NoDuplicates(g[y]) /\ ToSet(g[y]) = ToSet(f[y]) \cup {Head(f[x])}
  BY <1>1, <1>2, <1>4, AppendElements
<1> QED  BY <1>3, <1>5, MoveOne

MovesToFront(X, T, f, g, x, y) ==
    /\ f \in [X -> Seq(T)] /\ g \in [X -> Seq(T)] /\ Separate(X, f)
    /\ x \in X /\ y \in X /\ x # y /\ \A z \in X \ {x, y} : g[z] = f[z]
    /\ f[x] # <<>> /\ g[x] = Tail(f[x]) /\ g[y] = <<Head(f[x])>> \o f[y]

\* The head of one sequence goes to the front of another: PushFront.
LEMMA MoveToFront ==
    ASSUME NEW X, NEW T, NEW f, NEW g, NEW x, NEW y,
           MovesToFront(X, T, f, g, x, y)
    PROVE  Separate(X, g) /\ Elements(X, g) = Elements(X, f)
<1> USE DEF MovesToFront
<1>1. f[x] \in Seq(T) /\ f[y] \in Seq(T) /\ DOMAIN f = X /\ DOMAIN g = X  OBVIOUS
<1>2. NoDuplicates(f[x]) /\ NoDuplicates(f[y]) /\ ToSet(f[x]) \cap ToSet(f[y]) = {}
  BY <1>1 DEF Separate
<1>3. /\ Head(f[x]) \in ToSet(f[x]) /\ NoDuplicates(g[x])
      /\ ToSet(g[x]) = ToSet(f[x]) \ {Head(f[x])}
  BY <1>1, <1>2, TailElements
<1>4. Head(f[x]) \in T /\ Head(f[x]) \notin ToSet(f[y])  BY <1>1, <1>2, <1>3, SeqElements
<1>5. NoDuplicates(g[y]) /\ ToSet(g[y]) = ToSet(f[y]) \cup {Head(f[x])}
  BY <1>1, <1>2, <1>4, PrependElements
<1> QED  BY <1>3, <1>5, MoveOne

MovesAll(X, T, f, g, x, y) ==
    /\ f \in [X -> Seq(T)] /\ g \in [X -> Seq(T)] /\ Separate(X, f)
    /\ x \in X /\ y \in X /\ x # y /\ \A z \in X \ {x, y} : g[z] = f[z]
    /\ f[y] = <<>> /\ g[x] = <<>> /\ g[y] = f[x]

\* A whole sequence takes the place of an empty one: a batch is handed over.
LEMMA MoveAll ==
    ASSUME NEW X, NEW T, NEW f, NEW g, NEW x, NEW y,
           MovesAll(X, T, f, g, x, y)
    PROVE  Separate(X, g) /\ Elements(X, g) = Elements(X, f)
<1> USE DEF MovesAll
<1>1. ToSet(f[y]) = {} /\ ToSet(g[x]) = {} /\ NoDuplicates(g[x])
  BY EmptyElements
<1>2. DOMAIN f = X /\ DOMAIN g = X  OBVIOUS
<1> QED  BY <1>1, <1>2 DEF Separate, Elements

DropsFirst(X, T, f, g, x) ==
    /\ f \in [X -> Seq(T)] /\ g \in [X -> Seq(T)] /\ Separate(X, f)
    /\ x \in X /\ \A z \in X \ {x} : g[z] = f[z]
    /\ f[x] # <<>> /\ g[x] = Tail(f[x])

\* The head of a sequence goes away: a task is answered.
LEMMA DropFirst ==
    ASSUME NEW X, NEW T, NEW f, NEW g, NEW x,
           DropsFirst(X, T, f, g, x)
    PROVE  /\ Separate(X, g) /\ Elements(X, g) = Elements(X, f) \ {Head(f[x])}
           /\ Head(f[x]) \in Elements(X, f)
<1> USE DEF DropsFirst
<1> DEFINE h == Head(f[x])
<1>1. /\ \A z \in X : NoDuplicates(f[z])
      /\ \A u, v \in X : \A a : a \in ToSet(f[u]) /\ a \in ToSet(f[v]) => u = v
  BY DEF Separate
<1>2. /\ h \in ToSet(f[x]) /\ NoDuplicates(g[x])
      /\ ToSet(g[x]) = ToSet(f[x]) \ {h}
  <2>1. f[x] \in Seq(T)  OBVIOUS
  <2> QED  BY <2>1, <1>1, TailElements
<1> HIDE DEF h
<1>3. ASSUME NEW z \in X, NEW a
      PROVE  a \in ToSet(g[z]) <=> a # h /\ a \in ToSet(f[z])
  <2>1. CASE z = x  BY <2>1, <1>2
  <2>2. CASE z # x  BY <2>2, <1>1, <1>2
  <2> QED  BY <2>1, <2>2
<1>4. \A z \in X : NoDuplicates(g[z])  BY <1>1, <1>2
<1>5. \A u, v \in X : \A a : a \in ToSet(g[u]) /\ a \in ToSet(g[v]) => u = v
  BY <1>1, <1>3
<1>6. \A a : a \in Elements(X, f) <=> \E z \in X : a \in ToSet(f[z])  BY DEF Elements
<1>7. \A a : a \in Elements(X, g) <=> \E z \in X : a \in ToSet(g[z])  BY DEF Elements
<1>8. h \in Elements(X, f) /\ \A a : a \in Elements(X, g) <=> a # h /\ a \in Elements(X, f)
  BY <1>2, <1>3, <1>6, <1>7
<1>9. Separate(X, g)  BY <1>4, <1>5 DEF Separate
<1> QED  BY <1>8, <1>9 DEF h

PutsNew(X, T, f, g, x, t) ==
    /\ f \in [X -> Seq(T)] /\ g \in [X -> Seq(T)] /\ Separate(X, f)
    /\ x \in X /\ \A z \in X \ {x} : g[z] = f[z]
    /\ f[x] = <<>> /\ g[x] = <<t>> /\ t \notin Elements(X, f)

\* A sequence of one new element takes the place of an empty one: a task is made.
LEMMA PutNew ==
    ASSUME NEW X, NEW T, NEW f, NEW g, NEW x, NEW t,
           PutsNew(X, T, f, g, x, t)
    PROVE  Separate(X, g) /\ Elements(X, g) = Elements(X, f) \cup {t}
<1> USE DEF PutsNew
<1>1. /\ \A z \in X : NoDuplicates(f[z])
      /\ \A u, v \in X : \A a : a \in ToSet(f[u]) /\ a \in ToSet(f[v]) => u = v
  BY DEF Separate
<1>2. ToSet(f[x]) = {} /\ ToSet(<<t>>) = {t} /\ NoDuplicates(<<t>>)
  BY EmptyElements DEF ToSet, NoDuplicates
<1>3. \A z \in X : \A a : a \in ToSet(g[z]) <=> (IF z = x THEN a = t ELSE a \in ToSet(f[z]))
  BY <1>2
<1>4. \A a : a \in Elements(X, f) <=> \E z \in X : a \in ToSet(f[z])  BY DEF Elements
<1>5. \A a : a \in Elements(X, g) <=> \E z \in X : a \in ToSet(g[z])  BY DEF Elements
<1>6. \A u, v \in X : \A a : a \in ToSet(g[u]) /\ a \in ToSet(g[v]) => u = v
  <2>1. \A z \in X : t \notin ToSet(f[z])  BY <1>4
  <2> QED  BY <2>1, <1>1, <1>3
<1>7. \A z \in X : NoDuplicates(g[z])  BY <1>1, <1>2
<1>8. Separate(X, g)  BY <1>6, <1>7 DEF Separate
<1>9. \A a : a \in Elements(X, g) <=> a = t \/ a \in Elements(X, f)
  BY <1>2, <1>3, <1>4, <1>5
<1> QED  BY <1>8, <1>9

-----------------------------------------------------------------------------
(* How many elements there are.                                            *)

\* A sequence without duplicates has as many elements as its length, another no more.
LEMMA SeqCardinality ==
    ASSUME NEW T, NEW s \in Seq(T)
    PROVE  /\ IsFiniteSet(ToSet(s)) /\ Cardinality(ToSet(s)) \in Nat
           /\ Cardinality(ToSet(s)) <= Len(s)
           /\ NoDuplicates(s) => Cardinality(ToSet(s)) = Len(s)
<1>1. Len(s) \in Nat /\ DOMAIN s = 1 .. Len(s) /\ s \in [1 .. Len(s) -> ToSet(s)]
  BY DEF ToSet
<1>2. s \in Surjection(1 .. Len(s), ToSet(s))
  BY <1>1 DEF ToSet, Surjection
<1>3. ExistsSurjection(1 .. Len(s), ToSet(s))  BY <1>2 DEF ExistsSurjection
<1>4. IsFiniteSet(ToSet(s)) /\ Cardinality(ToSet(s)) <= Len(s)
  BY <1>1, <1>3, FS_NatSurjection, FS_SurjCardinalityBound
<1>5. ASSUME NoDuplicates(s) PROVE Cardinality(ToSet(s)) = Len(s)
  <2>1. s \in Injection(1 .. Len(s), ToSet(s))
    BY <1>1, <1>5 DEF NoDuplicates, Injection, IsInjective
  <2>2. s \in Bijection(1 .. Len(s), ToSet(s))  BY <1>2, <2>1 DEF Bijection
  <2>3. ExistsBijection(1 .. Len(s), ToSet(s))  BY <2>2 DEF ExistsBijection
  <2> QED  BY <1>1, <2>3, FS_CountingElements
<1> QED  BY <1>4, <1>5, FS_CardinalityType

\* The union of n sets of at most m elements has at most n times m.
LEMMA UnionBound ==
    ASSUME NEW I, IsFiniteSet(I), NEW f, NEW m \in Nat,
           \A i \in I : IsFiniteSet(f[i]) /\ Cardinality(f[i]) <= m
    PROVE  /\ IsFiniteSet(UNION {f[i] : i \in I})
           /\ Cardinality(UNION {f[i] : i \in I}) <= Cardinality(I) * m
<1> DEFINE U == UNION {f[i] : i \in I}
<1>1. Cardinality(I) \in Nat  BY FS_CardinalityType
<1>2. CASE U = {}
  <2>1. Cardinality(I) * m >= 0  BY <1>1
  <2> QED  BY <1>2, <2>1, FS_EmptySet
<1>3. CASE U # {}
  <2>1. PICK w : w \in U  BY <1>3
  <2> DEFINE b == [i \in I |-> CHOOSE h : h \in Bijection(1 .. Cardinality(f[i]), f[i])]
             D == I \X (1 .. m)
             g == [d \in D |-> IF d[2] <= Cardinality(f[d[1]]) THEN b[d[1]][d[2]] ELSE w]
  <2>2. ASSUME NEW i \in I
        PROVE  /\ Cardinality(f[i]) \in Nat
               /\ b[i] \in Bijection(1 .. Cardinality(f[i]), f[i])
    <3>1. \E h : h \in Bijection(1 .. Cardinality(f[i]), f[i])
      BY FS_CardinalityType DEF ExistsBijection
    <3> QED  BY <3>1, FS_CardinalityType
  <2>3. ASSUME NEW i \in I
        PROVE  /\ \A n \in 1 .. Cardinality(f[i]) : b[i][n] \in f[i]
               /\ \A u \in f[i] : \E n \in 1 .. Cardinality(f[i]) : b[i][n] = u
    BY <2>2 DEF Bijection, Surjection
  <2> HIDE DEF b
  <2>4. g \in Surjection(D, U)
    <3>1. ASSUME NEW d \in D PROVE g[d] \in U
      <4>1. d[1] \in I /\ d[2] \in 1 .. m  OBVIOUS
      <4>2. CASE d[2] <= Cardinality(f[d[1]])
        <5>1. d[2] \in 1 .. Cardinality(f[d[1]])  BY <4>1, <4>2, <2>2
        <5>2. b[d[1]][d[2]] \in f[d[1]]  BY <4>1, <5>1, <2>3
        <5> QED  BY <4>1, <4>2, <5>2
      <4> QED  BY <2>1, <4>2
    <3>2. ASSUME NEW u \in U PROVE \E d \in D : g[d] = u
      <4>1. PICK i \in I : u \in f[i]  OBVIOUS
      <4>2. PICK n \in 1 .. Cardinality(f[i]) : b[i][n] = u  BY <4>1, <2>3
      <4>3. <<i, n>> \in D /\ n <= Cardinality(f[i])  BY <4>2, <2>2
      <4>4. g[<<i, n>>] = u  BY <4>2, <4>3
      <4> QED  BY <4>3, <4>4
    <3> HIDE DEF D, U
    <3>3. g \in [D -> U]  BY <3>1
    <3> HIDE DEF g
    <3> QED  BY <3>2, <3>3 DEF Surjection
  <2>5. IsFiniteSet(1 .. m) /\ Cardinality(1 .. m) = m
    <3>1. IsFiniteSet(1 .. m) /\ Cardinality(1 .. m) = IF 1 > m THEN 0 ELSE m - 1 + 1
      BY FS_Interval
    <3> QED  BY <3>1
  <2>6. IsFiniteSet(D) /\ Cardinality(D) = Cardinality(I) * m
    BY <2>5, FS_Product
  <2> HIDE DEF D, U, g
  <2> QED  BY <2>4, <2>6, FS_Surjection DEF U
<1> QED  BY <1>2, <1>3

\* A smaller factor gives a smaller product.
LEMMA TimesMonotone ==
    ASSUME NEW k \in Nat, NEW n \in Nat, NEW m \in Nat, k <= n
    PROVE  k * m \in Nat /\ k * m <= n * m
OBVIOUS

\* The union of two finite sets has no more elements than both together.
LEMMA TwoBound ==
    ASSUME NEW A, IsFiniteSet(A), NEW B, IsFiniteSet(B)
    PROVE  /\ IsFiniteSet(A \cup B) /\ Cardinality(A \cup B) \in Nat
           /\ Cardinality(A) \in Nat /\ Cardinality(B) \in Nat
           /\ Cardinality(A \cup B) <= Cardinality(A) + Cardinality(B)
<1>1. A \cap B \in SUBSET A  OBVIOUS
<1>2. IsFiniteSet(A \cap B)  BY <1>1, FS_Subset
<1>3. Cardinality(A \cap B) \in Nat /\ Cardinality(A) \in Nat /\ Cardinality(B) \in Nat
  BY <1>2, FS_CardinalityType
<1>4. /\ IsFiniteSet(A \cup B)
      /\ Cardinality(A \cup B) = Cardinality(A) + Cardinality(B) - Cardinality(A \cap B)
  BY FS_Union
<1>5. Cardinality(A \cup B) \in Nat  BY <1>4, FS_CardinalityType
<1> QED  BY <1>3, <1>4, <1>5

-----------------------------------------------------------------------------
(* The parts of the inductive invariant.                                   *)

EvalLabels == {"wait", "pop", "notify", "timed_out", "forward",
               "callback", "destroy", "join", "stubs", "exited"}
CompleteLabels == {"test", "next", "callback", "requeued", "exited"}
\* The results of a batch are being handed back.
Answering == {"callback", "requeued"}
\* A batch is being collected.
Filling == {"pop", "notify", "timed_out", "forward"}

\* A task that has got its result is in flight.
TasksOK ==
    /\ position \in [Tasks -> Positions \cup {none}]
    /\ promise \in [Tasks -> (Results \ {"timeout"}) \cup {none}]
    /\ \A t \in Tasks : promise[t] # none => position[t] # none

\* What the program counter of a search thread says about its task, and where it sleeps.
SearchOK ==
    /\ spc \in [SearchThreads -> {"idle", "push", "notify", "await", "gone"}]
    /\ task \in [SearchThreads -> Tasks \cup {none}]
    /\ push_cond \subseteq SearchThreads
    /\ \A p \in SearchThreads :
          /\ spc[p] \in {"push", "notify", "await"} => task[p] \in Tasks
          /\ p \in push_cond => spc[p] = "push"

EvalTypes ==
    /\ pop_cond \subseteq EvalThreads
    /\ epc \in [EvalThreads -> EvalLabels]
    /\ cpc \in [EvalThreads -> CompleteLabels]
    /\ ret \in [EvalThreads -> Results \cup {none}]
    /\ batch \in [EvalThreads -> Seq(Tasks)] /\ todo \in [EvalThreads -> Seq(Tasks)]
    /\ calls \in [EvalThreads -> SUBSET Seq(Tasks)]
    /\ avail \in [EvalThreads -> Nat] /\ disabled \in [EvalThreads -> Nat]

\* An evaluation thread and its model: when there is a batch, when there are tasks
\* to be answered, and whose the stubs are.  A batch that is collected in
\* asynchronous mode keeps a stub free for itself.
EvalOK(e) ==
    /\ epc[e] \in {"wait", "callback"} => batch[e] = <<>>
    /\ epc[e] \in {"notify", "timed_out", "forward"} => batch[e] # <<>>
    /\ cpc[e] \notin Answering => todo[e] = <<>>
    /\ cpc[e] \in Answering => ret[e] # none
    /\ ~enable_async =>
          /\ calls[e] = {}
          /\ cpc[e] \in Answering => epc[e] = "callback"
    /\ e \notin config.eval =>
          /\ epc[e] = "exited" /\ cpc[e] = "exited"
          /\ batch[e] = <<>> /\ todo[e] = <<>> /\ calls[e] = {}
    /\ enable_async /\ (epc[e] \in Filling \/ batch[e] # <<>>) => avail[e] > 0
    /\ IsFiniteSet(calls[e])
    /\ avail[e] + disabled[e] + Cardinality(calls[e]) = NumStubs

\* No batch is larger than configured.
SizesOK(e) ==
    /\ Len(batch[e]) <= eval_batch_size /\ Len(todo[e]) <= eval_batch_size
    /\ epc[e] = "pop" => Len(batch[e]) < eval_batch_size
    /\ \A b \in calls[e] : Len(b) <= eval_batch_size

ModelsOK ==
    /\ config \in Configs
    /\ EvalTypes
    /\ \A e \in EvalThreads : EvalOK(e) /\ SizesOK(e) /\ (e \in pop_cond => epc[e] = "pop")

QueueOK == m_queue \in Seq(Tasks) /\ m_is_close \in BOOLEAN

\* Nothing is twice in the order of insertion.
CacheOrdered ==
    /\ m_prob_value_map \subseteq Positions /\ m_order \in Seq(Positions)
    /\ CacheConsistent /\ NoDuplicates(m_order)

\* The threads that are about to notify, or to look at the queue again.
Notifying == {p \in SearchThreads : spc[p] = "notify"}
Requeueing == {e \in EvalThreads : cpc[e] = "requeued"}
Popping == {e \in EvalThreads : epc[e] = "pop" /\ e \notin pop_cond}
PopNotifying == {e \in EvalThreads : epc[e] = "notify"}
Pushing == {p \in SearchThreads : spc[p] = "push" /\ p \notin push_cond}

\* While a thread sleeps in Pop there is somebody for each element of the queue;
\* while one sleeps in Push, for each free place.
WakeupsCounted ==
    /\ pop_cond # {} =>
          Len(m_queue) <= Cardinality(Notifying) + Cardinality(Requeueing)
                            + Cardinality(Popping)
    /\ push_cond # {} =>
          /\ capacity > 0
          /\ capacity <= Len(m_queue) + Cardinality(PopNotifying) + Cardinality(Pushing)

\* All the places where tasks may be, and the sequences found there.
Spots ==
    {"queue"} \X {none} \X {<<>>}
      \cup {"push"} \X SearchThreads \X {<<>>}
      \cup {"batch", "todo"} \X EvalThreads \X {<<>>}
      \cup {"call"} \X EvalThreads \X Seq(Tasks)

PieceOf(x, q, sp, tk, ba, td, ca) ==
    CASE x[1] = "queue" -> q
      [] x[1] = "push"  -> IF sp[x[2]] = "push" THEN <<tk[x[2]]>> ELSE <<>>
      [] x[1] = "batch" -> ba[x[2]]
      [] x[1] = "todo"  -> td[x[2]]
      [] x[1] = "call"  -> IF x[3] \in ca[x[2]] THEN x[3] ELSE <<>>

ContentOf(q, sp, tk, ba, td, ca) ==
    [x \in Spots |-> PieceOf(x, q, sp, tk, ba, td, ca)]

Content == ContentOf(m_queue, spc, task, batch, todo, calls)

\* The tasks whose callback is still to come are each in one place, and there
\* are no others.
Located ==
    /\ Separate(Spots, Content)
    /\ Elements(Spots, Content) = outstanding

-----------------------------------------------------------------------------
(* The evaluation threads and their models.                                *)

\* What a configuration promises.
LEMMA ConfigFacts ==
    ASSUME ModelsOK
    PROVE  /\ enable_async \in BOOLEAN
           /\ eval_batch_size \in Nat \ {0} /\ NumStubs \in Nat \ {0}
           /\ config.eval \subseteq EvalThreads /\ config.search \subseteq SearchThreads
           /\ config.tasks \subseteq Tasks /\ config.positions \subseteq Positions
           /\ config.results \subseteq Results
BY PipelineAssumption DEF ModelsOK, enable_async, eval_batch_size, NumStubs

EvalVars(u) == <<epc[u], batch[u], cpc[u], ret[u], todo[u], calls[u], avail[u], disabled[u]>>

\* A step of one evaluation thread or of its model leaves the others as they are.
LEMMA ModelsFrame ==
    ASSUME ModelsOK, NEW e \in EvalThreads, config' = config, EvalTypes',
           EvalOK(e)', SizesOK(e)', e \in pop_cond' => epc'[e] = "pop",
           \A u \in EvalThreads \ {e} : EvalVars(u)' = EvalVars(u) /\ (u \in pop_cond' => u \in pop_cond)
    PROVE  ModelsOK'
<1>1. ASSUME NEW u \in EvalThreads
      PROVE  EvalOK(u)' /\ SizesOK(u)' /\ (u \in pop_cond' => epc'[u] = "pop")
  <2>1. CASE u = e  BY <2>1
  <2>2. CASE u # e
    BY <2>2 DEF ModelsOK, EvalVars, EvalOK, SizesOK, enable_async, eval_batch_size, NumStubs
  <2> QED  BY <2>1, <2>2
<1> QED  BY <1>1 DEF ModelsOK

\* The steps of EvalRoutine_out() keep the evaluation threads and models in order.
LEMMA EvalRoutineModels ==
    ASSUME ModelsOK, QueueOK, NEW e \in EvalThreads, EvalRoutine(e),
           enable_async => batch[e] \notin calls[e] \/ batch[e] = <<>>
    PROVE  ModelsOK'
<1>0. /\ enable_async' = enable_async /\ eval_batch_size' = eval_batch_size
      /\ NumStubs' = NumStubs /\ config' = config
  BY DEF EvalRoutine, ModelWait, BatchPop, BatchPopped, BatchWait, BatchTimeout, BatchEnd,
         BatchClosed, Forward, ForwardReturns, AsyncForward, DestroyModel, JoinComplete,
         StubsReleased, searchVars, enable_async, eval_batch_size, NumStubs
<1>c. /\ enable_async \in BOOLEAN
      /\ eval_batch_size \in Nat \ {0} /\ NumStubs \in Nat \ {0}
      /\ config.eval \subseteq EvalThreads /\ config.results \subseteq Results
  BY ConfigFacts
<1> USE <1>c DEF EvalGoto, evalVars, callbackVars, clientVars, taskQueue, EvalVars,
        EvalTypes, EvalLabels, CompleteLabels
<1>1. CASE ModelWait(e)
  <2>1. EvalTypes'  BY <1>1 DEF ModelsOK, ModelWait
  <2>2. EvalOK(e)'  BY <1>0, <1>1 DEF ModelsOK, ModelWait, EvalOK, Filling, Answering
  <2>3. SizesOK(e)'  BY <1>0, <1>1 DEF ModelsOK, ModelWait, SizesOK
  <2>4. /\ e \in pop_cond' => epc'[e] = "pop"
        /\ \A u \in EvalThreads \ {e} :
              EvalVars(u)' = EvalVars(u) /\ (u \in pop_cond' => u \in pop_cond)
    BY <1>1 DEF ModelsOK, ModelWait
  <2> QED  BY <1>0, <2>1, <2>2, <2>3, <2>4, ModelsFrame
<1>2. CASE BatchPop(e)
  <2>0. /\ Append(batch[e], Head(m_queue)) \in Seq(Tasks)
        /\ Append(batch[e], Head(m_queue)) # <<>>
        /\ Len(Append(batch[e], Head(m_queue))) = Len(batch[e]) + 1
        /\ Len(batch[e]) \in Nat
    <3>1. batch[e] \in Seq(Tasks) /\ Head(m_queue) \in Tasks
      BY <1>2 DEF ModelsOK, BatchPop, PopTake, QueueOK
    <3> QED  BY <3>1, AppendElements
  <2>1. EvalTypes'  BY <1>2, <2>0 DEF ModelsOK, BatchPop, PopTake
  <2>2. EvalOK(e)'  BY <1>0, <1>2, <2>0 DEF ModelsOK, BatchPop, PopTake, EvalOK, Filling, Answering
  <2>3. SizesOK(e)'  BY <1>0, <1>2, <2>0 DEF ModelsOK, BatchPop, PopTake, SizesOK
  <2>4. /\ e \in pop_cond' => epc'[e] = "pop"
        /\ \A u \in EvalThreads \ {e} :
              EvalVars(u)' = EvalVars(u) /\ (u \in pop_cond' => u \in pop_cond)
    BY <1>2 DEF ModelsOK, BatchPop, PopTake
  <2> QED  BY <1>0, <2>1, <2>2, <2>3, <2>4, ModelsFrame
<1>3. CASE BatchPopped(e)
  <2>1. EvalTypes'  BY <1>3 DEF ModelsOK, BatchPopped, PopNotify
  <2>2. EvalOK(e)'  BY <1>0, <1>3 DEF ModelsOK, BatchPopped, PopNotify, EvalOK, Filling, Answering
  <2>3. SizesOK(e)'  BY <1>0, <1>3 DEF ModelsOK, BatchPopped, PopNotify, SizesOK
  <2>4. /\ e \in pop_cond' => epc'[e] = "pop"
        /\ \A u \in EvalThreads \ {e} :
              EvalVars(u)' = EvalVars(u) /\ (u \in pop_cond' => u \in pop_cond)
    BY <1>3 DEF ModelsOK, BatchPopped, PopNotify
  <2> QED  BY <1>0, <2>1, <2>2, <2>3, <2>4, ModelsFrame
<1>4. CASE BatchWait(e)
  <2>1. EvalTypes'  BY <1>4 DEF ModelsOK, BatchWait, PopSleep
  <2>2. EvalOK(e)'  BY <1>0, <1>4 DEF ModelsOK, BatchWait, PopSleep, EvalOK, Filling, Answering
  <2>3. SizesOK(e)'  BY <1>0, <1>4 DEF ModelsOK, BatchWait, PopSleep, SizesOK
  <2>4. /\ e \in pop_cond' => epc'[e] = "pop"
        /\ \A u \in EvalThreads \ {e} :
              EvalVars(u)' = EvalVars(u) /\ (u \in pop_cond' => u \in pop_cond)
    BY <1>4 DEF ModelsOK, BatchWait, PopSleep
  <2> QED  BY <1>0, <2>1, <2>2, <2>3, <2>4, ModelsFrame
<1>5. CASE BatchTimeout(e)
  <2>1. EvalTypes'  BY <1>5 DEF ModelsOK, BatchTimeout, PopTimeout
  <2>2. EvalOK(e)'  BY <1>0, <1>5 DEF ModelsOK, BatchTimeout, PopTimeout, EvalOK, Filling, Answering
  <2>3. SizesOK(e)'  BY <1>0, <1>5 DEF ModelsOK, BatchTimeout, PopTimeout, SizesOK
  <2>4. /\ e \in pop_cond' => epc'[e] = "pop"
        /\ \A u \in EvalThreads \ {e} :
              EvalVars(u)' = EvalVars(u) /\ (u \in pop_cond' => u \in pop_cond)
    BY <1>5 DEF ModelsOK, BatchTimeout, PopTimeout
  <2> QED  BY <1>0, <2>1, <2>2, <2>3, <2>4, ModelsFrame
<1>6. CASE BatchEnd(e)
  <2>1. EvalTypes'  BY <1>6 DEF ModelsOK, BatchEnd
  <2>2. EvalOK(e)'  BY <1>0, <1>6 DEF ModelsOK, BatchEnd, EvalOK, Filling, Answering
  <2>3. SizesOK(e)'  BY <1>0, <1>6 DEF ModelsOK, BatchEnd, SizesOK
  <2>4. /\ e \in pop_cond' => epc'[e] = "pop"
        /\ \A u \in EvalThreads \ {e} :
              EvalVars(u)' = EvalVars(u) /\ (u \in pop_cond' => u \in pop_cond)
    BY <1>6 DEF ModelsOK, BatchEnd
  <2> QED  BY <1>0, <2>1, <2>2, <2>3, <2>4, ModelsFrame
<1>7. CASE BatchClosed(e)
  <2>1. EvalTypes'  BY <1>7 DEF ModelsOK, BatchClosed, PopClosed
  <2>2. EvalOK(e)'  BY <1>0, <1>7 DEF ModelsOK, BatchClosed, PopClosed, EvalOK, Filling, Answering
  <2>3. SizesOK(e)'  BY <1>0, <1>7 DEF ModelsOK, BatchClosed, PopClosed, SizesOK
  <2>4. /\ e \in pop_cond' => epc'[e] = "pop"
        /\ \A u \in EvalThreads \ {e} :
              EvalVars(u)' = EvalVars(u) /\ (u \in pop_cond' => u \in pop_cond)
    BY <1>7 DEF ModelsOK, BatchClosed, PopClosed
  <2> QED  BY <1>0, <2>1, <2>2, <2>3, <2>4, ModelsFrame
<1>8. CASE Forward(e)
  <2>0. PICK r \in config.results : ret' = [ret EXCEPT ![e] = r]  BY <1>8 DEF Forward
  <2>1. EvalTypes'
    <3>0. <<>> \in Seq(Tasks) /\ batch[e] \in Seq(Tasks)  BY DEF ModelsOK
    <3>2. /\ epc' \in [EvalThreads -> EvalLabels] /\ cpc' \in [EvalThreads -> CompleteLabels]
          /\ ret' \in [EvalThreads -> Results \cup {none}]
      BY <1>8, <2>0 DEF ModelsOK, Forward
    <3>3. batch' \in [EvalThreads -> Seq(Tasks)] /\ todo' \in [EvalThreads -> Seq(Tasks)]
      BY <1>8, <3>0 DEF ModelsOK, Forward
    <3>4. UNCHANGED <<pop_cond, calls, avail, disabled>>  BY <1>8 DEF Forward
    <3> QED  BY <3>2, <3>3, <3>4 DEF ModelsOK
  <2>2. EvalOK(e)'
    <3>1. ret'[e] # none
      BY <1>8, <2>0, PipelineAssumption DEF ModelsOK, Forward
    <3>2. /\ epc[e] = "forward" /\ epc'[e] = "callback" /\ batch'[e] = <<>>
          /\ cpc'[e] = "callback"
          /\ ~enable_async
          /\ UNCHANGED <<calls, avail, disabled>>
      BY <1>8 DEF ModelsOK, Forward
    <3> QED  BY <1>0, <3>1, <3>2 DEF ModelsOK, EvalOK, Filling, Answering
  <2>3. SizesOK(e)'  BY <1>0, <1>8 DEF ModelsOK, Forward, SizesOK
  <2>4. /\ e \in pop_cond' => epc'[e] = "pop"
        /\ \A u \in EvalThreads \ {e} :
              EvalVars(u)' = EvalVars(u) /\ (u \in pop_cond' => u \in pop_cond)
    BY <1>8 DEF ModelsOK, Forward
  <2> QED  BY <1>0, <2>1, <2>2, <2>3, <2>4, ModelsFrame
<1>9. CASE ForwardReturns(e)
  <2>1. EvalTypes'  BY <1>9 DEF ModelsOK, ForwardReturns
  <2>2. EvalOK(e)'  BY <1>0, <1>9 DEF ModelsOK, ForwardReturns, EvalOK, Filling, Answering
  <2>3. SizesOK(e)'  BY <1>0, <1>9 DEF ModelsOK, ForwardReturns, SizesOK
  <2>4. /\ e \in pop_cond' => epc'[e] = "pop"
        /\ \A u \in EvalThreads \ {e} :
              EvalVars(u)' = EvalVars(u) /\ (u \in pop_cond' => u \in pop_cond)
    BY <1>9 DEF ModelsOK, ForwardReturns
  <2> QED  BY <1>0, <2>1, <2>2, <2>3, <2>4, ModelsFrame
<1>10. CASE AsyncForward(e)
  <2>0. /\ IsFiniteSet(calls[e] \cup {batch[e]})
        /\ Cardinality(calls[e] \cup {batch[e]}) = Cardinality(calls[e]) + 1
        /\ Cardinality(calls[e]) \in Nat
    <3>1. IsFiniteSet(calls[e]) /\ batch[e] \notin calls[e]
      BY <1>10 DEF ModelsOK, EvalOK, AsyncForward
    <3> QED  BY <3>1, FS_AddElement, FS_CardinalityType
  <2>1. EvalTypes'
    <3>1. <<>> \in Seq(Tasks) /\ batch[e] \in Seq(Tasks)  BY DEF ModelsOK
    <3>2. epc' \in [EvalThreads -> EvalLabels] /\ avail' \in [EvalThreads -> Nat]
      BY <1>10 DEF ModelsOK, AsyncForward
    <3>3. batch' \in [EvalThreads -> Seq(Tasks)]
      BY <1>10, <3>1 DEF ModelsOK, AsyncForward
    <3>4. calls' \in [EvalThreads -> SUBSET Seq(Tasks)]
      BY <1>10, <3>1 DEF ModelsOK, AsyncForward
    <3> QED  BY <1>10, <3>2, <3>3, <3>4 DEF ModelsOK, AsyncForward
  <2>2. EvalOK(e)'  BY <1>0, <1>10, <2>0 DEF ModelsOK, AsyncForward, EvalOK, Filling, Answering
  <2>3. SizesOK(e)'  BY <1>0, <1>10, <2>0 DEF ModelsOK, AsyncForward, SizesOK
  <2>4. /\ e \in pop_cond' => epc'[e] = "pop"
        /\ \A u \in EvalThreads \ {e} :
              EvalVars(u)' = EvalVars(u) /\ (u \in pop_cond' => u \in pop_cond)
    BY <1>10 DEF ModelsOK, AsyncForward
  <2> QED  BY <1>0, <2>1, <2>2, <2>3, <2>4, ModelsFrame
<1>11. CASE DestroyModel(e)
  <2>1. EvalTypes'  BY <1>11 DEF ModelsOK, DestroyModel
  <2>2. EvalOK(e)'  BY <1>0, <1>11 DEF ModelsOK, DestroyModel, EvalOK, Filling, Answering
  <2>3. SizesOK(e)'  BY <1>0, <1>11 DEF ModelsOK, DestroyModel, SizesOK
  <2>4. /\ e \in pop_cond' => epc'[e] = "pop"
        /\ \A u \in EvalThreads \ {e} :
              EvalVars(u)' = EvalVars(u) /\ (u \in pop_cond' => u \in pop_cond)
    BY <1>11 DEF ModelsOK, DestroyModel
  <2> QED  BY <1>0, <2>1, <2>2, <2>3, <2>4, ModelsFrame
<1>12. CASE JoinComplete(e)
  <2>1. EvalTypes'  BY <1>12 DEF ModelsOK, JoinComplete
  <2>2. EvalOK(e)'  BY <1>0, <1>12 DEF ModelsOK, JoinComplete, EvalOK, Filling, Answering
  <2>3. SizesOK(e)'  BY <1>0, <1>12 DEF ModelsOK, JoinComplete, SizesOK
  <2>4. /\ e \in pop_cond' => epc'[e] = "pop"
        /\ \A u \in EvalThreads \ {e} :
              EvalVars(u)' = EvalVars(u) /\ (u \in pop_cond' => u \in pop_cond)
    BY <1>12 DEF ModelsOK, JoinComplete
  <2> QED  BY <1>0, <2>1, <2>2, <2>3, <2>4, ModelsFrame
<1>13. CASE StubsReleased(e)
  <2>1. EvalTypes'  BY <1>13 DEF ModelsOK, StubsReleased
  <2>2. EvalOK(e)'  BY <1>0, <1>13 DEF ModelsOK, StubsReleased, EvalOK, Filling, Answering
  <2>3. SizesOK(e)'  BY <1>0, <1>13 DEF ModelsOK, StubsReleased, SizesOK
  <2>4. /\ e \in pop_cond' => epc'[e] = "pop"
        /\ \A u \in EvalThreads \ {e} :
              EvalVars(u)' = EvalVars(u) /\ (u \in pop_cond' => u \in pop_cond)
    BY <1>13 DEF ModelsOK, StubsReleased
  <2> QED  BY <1>0, <2>1, <2>2, <2>3, <2>4, ModelsFrame
<1> QED
  BY <1>1, <1>2, <1>3, <1>4, <1>5, <1>6, <1>7, <1>8, <1>9, <1>10, <1>11, <1>12, <1>13
  DEF EvalRoutine

\* A notification adds no sleeper.
LEMMA NotifyOneLess ==
    ASSUME NEW cond, NEW less \in NotifyOne(cond)
    PROVE  less \subseteq cond
BY DEF NotifyOne

\* A step of no model: only threads asleep in Pop may be woken.
LEMMA ModelsIdle ==
    ASSUME ModelsOK, UNCHANGED <<config, epc, batch, callbackVars, clientVars>>,
           pop_cond' \subseteq pop_cond
    PROVE  ModelsOK'
<1>1. EvalTypes'  BY DEF ModelsOK, EvalTypes, callbackVars, clientVars
<1>2. \A u \in EvalThreads : EvalOK(u)' /\ SizesOK(u)'
  BY DEF ModelsOK, callbackVars, clientVars, EvalOK, SizesOK, enable_async,
         eval_batch_size, NumStubs
<1> QED  BY <1>1, <1>2 DEF ModelsOK

\* So do the completion of a call, the return of a stub and the callbacks.
LEMMA CompletionModels ==
    ASSUME ModelsOK, NEW e \in EvalThreads, Complete(e) \/ Reenable(e) \/ Callback(e)
    PROVE  ModelsOK'
<1>0. /\ enable_async' = enable_async /\ eval_batch_size' = eval_batch_size
      /\ NumStubs' = NumStubs /\ config' = config
  BY DEF Complete, CompleteTest, CompleteDrained, CompleteNext, Reenable, Callback, Requeue,
         RequeueNotify, Answer, CallbackEnd, searchVars, enable_async, eval_batch_size,
         NumStubs
<1>c. /\ enable_async \in BOOLEAN
      /\ eval_batch_size \in Nat \ {0} /\ NumStubs \in Nat \ {0}
      /\ config.eval \subseteq EvalThreads /\ config.results \subseteq Results
  BY ConfigFacts
<1> USE <1>c DEF CompleteGoto, evalVars, callbackVars, clientVars, searchVars, taskQueue,
        EvalVars, EvalTypes, EvalLabels, CompleteLabels
<1>1. CASE CompleteTest(e)
  <2>1. EvalTypes'  BY <1>1 DEF ModelsOK, CompleteTest
  <2>2. EvalOK(e)'  BY <1>0, <1>1 DEF ModelsOK, CompleteTest, EvalOK, Filling, Answering
  <2>3. SizesOK(e)'  BY <1>0, <1>1 DEF ModelsOK, CompleteTest, SizesOK
  <2>4. /\ e \in pop_cond' => epc'[e] = "pop"
        /\ \A u \in EvalThreads \ {e} :
              EvalVars(u)' = EvalVars(u) /\ (u \in pop_cond' => u \in pop_cond)
    BY <1>1 DEF ModelsOK, CompleteTest
  <2> QED  BY <1>0, <2>1, <2>2, <2>3, <2>4, ModelsFrame
<1>2. CASE CompleteDrained(e)
  <2>1. EvalTypes'  BY <1>2 DEF ModelsOK, CompleteDrained
  <2>2. EvalOK(e)'  BY <1>0, <1>2 DEF ModelsOK, CompleteDrained, EvalOK, Filling, Answering
  <2>3. SizesOK(e)'  BY <1>0, <1>2 DEF ModelsOK, CompleteDrained, SizesOK
  <2>4. /\ e \in pop_cond' => epc'[e] = "pop"
        /\ \A u \in EvalThreads \ {e} :
              EvalVars(u)' = EvalVars(u) /\ (u \in pop_cond' => u \in pop_cond)
    BY <1>2 DEF ModelsOK, CompleteDrained
  <2> QED  BY <1>0, <2>1, <2>2, <2>3, <2>4, ModelsFrame
<1>3. CASE CompleteNext(e)
  <2>0. PICK b \in calls[e], r \in config.results :
          /\ calls' = [calls EXCEPT ![e] = @ \ {b}]
          /\ todo' = [todo EXCEPT ![e] = b]
          /\ ret' = [ret EXCEPT ![e] = r]
          /\ \/ avail' = [avail EXCEPT ![e] = @ + 1] /\ UNCHANGED disabled
             \/ /\ disabled' = [disabled EXCEPT ![e] = @ + 1]
                /\ UNCHANGED avail
    BY <1>3 DEF CompleteNext
  <2>1. EvalTypes'
    <3>1. b \in Seq(Tasks) /\ r \in Results  BY <2>0 DEF ModelsOK
    <3>2. /\ cpc' \in [EvalThreads -> CompleteLabels]
          /\ ret' \in [EvalThreads -> Results \cup {none}]
          /\ todo' \in [EvalThreads -> Seq(Tasks)]
      BY <1>3, <2>0, <3>1 DEF ModelsOK, CompleteNext
    <3>3. calls' \in [EvalThreads -> SUBSET Seq(Tasks)]  BY <2>0 DEF ModelsOK
    <3>4. avail' \in [EvalThreads -> Nat] /\ disabled' \in [EvalThreads -> Nat]
      <4>1. avail \in [EvalThreads -> Nat] /\ disabled \in [EvalThreads -> Nat]
        BY DEF ModelsOK
      <4> HIDE DEF EvalTypes
      <4>2. CASE avail' = [avail EXCEPT ![e] = @ + 1] /\ UNCHANGED disabled
        BY <4>1, <4>2
      <4>3. CASE disabled' = [disabled EXCEPT ![e] = @ + 1] /\ UNCHANGED avail
        BY <4>1, <4>3
      <4> QED  BY <2>0, <4>2, <4>3
    <3>5. UNCHANGED <<pop_cond, epc, batch>>  BY <1>3 DEF CompleteNext
    <3> QED  BY <3>2, <3>3, <3>4, <3>5 DEF ModelsOK
  <2>2. /\ b \in Seq(Tasks) /\ todo'[e] = b /\ ret'[e] = r /\ calls'[e] = calls[e] \ {b}
        /\ cpc[e] = "next" /\ cpc'[e] = "callback"
        /\ epc'[e] = epc[e] /\ batch'[e] = batch[e]
        /\ avail'[e] \in Nat /\ avail'[e] >= avail[e]
        /\ avail'[e] + disabled'[e] = avail[e] + disabled[e] + 1
    BY <1>3, <2>0, <2>1 DEF ModelsOK, CompleteNext
  <2>3. EvalOK(e)'
    <3>1. IsFiniteSet(calls[e])  BY DEF ModelsOK, EvalOK
    <3>2. /\ IsFiniteSet(calls'[e]) /\ Cardinality(calls[e]) \in Nat
          /\ Cardinality(calls'[e]) = Cardinality(calls[e]) - 1
      BY <3>1, <2>2, FS_RemoveElement, FS_CardinalityType
    <3>3. enable_async  BY DEF ModelsOK, EvalOK
    <3>4. r # none  BY PipelineAssumption
    <3>5. avail'[e] + disabled'[e] + Cardinality(calls'[e]) = NumStubs
      BY <2>1, <2>2, <3>2 DEF ModelsOK, EvalOK
    <3> QED
      BY <1>0, <2>2, <3>2, <3>3, <3>4, <3>5 DEF ModelsOK, EvalOK, Filling, Answering
  <2>4. SizesOK(e)'  BY <1>0, <2>2 DEF ModelsOK, SizesOK
  <2>5. /\ e \in pop_cond' => epc'[e] = "pop"
        /\ \A u \in EvalThreads \ {e} :
              EvalVars(u)' = EvalVars(u) /\ (u \in pop_cond' => u \in pop_cond)
    BY <1>3, <2>0 DEF ModelsOK, CompleteNext
  <2> QED  BY <1>0, <2>1, <2>3, <2>4, <2>5, ModelsFrame
<1>4. CASE Reenable(e)
  <2>1. EvalTypes'  BY <1>4 DEF ModelsOK, Reenable
  <2>2. EvalOK(e)'  BY <1>0, <1>4 DEF ModelsOK, Reenable, EvalOK, Filling, Answering
  <2>3. SizesOK(e)'  BY <1>0, <1>4 DEF ModelsOK, Reenable, SizesOK
  <2>4. /\ e \in pop_cond' => epc'[e] = "pop"
        /\ \A u \in EvalThreads \ {e} :
              EvalVars(u)' = EvalVars(u) /\ (u \in pop_cond' => u \in pop_cond)
    BY <1>4 DEF ModelsOK, Reenable
  <2> QED  BY <1>0, <2>1, <2>2, <2>3, <2>4, ModelsFrame
<1>5. CASE Requeue(e)
  <2>0. /\ todo[e] \in Seq(Tasks) /\ Tail(todo[e]) \in Seq(Tasks)
        /\ Len(todo[e]) \in Nat /\ Len(Tail(todo[e])) = Len(todo[e]) - 1
    BY <1>5 DEF ModelsOK, Requeue
  <2>1. EvalTypes'  BY <1>5, <2>0 DEF ModelsOK, Requeue, PushFront
  <2>2. EvalOK(e)'  BY <1>0, <1>5, <2>0 DEF ModelsOK, Requeue, PushFront, EvalOK, Filling, Answering
  <2>3. SizesOK(e)'  BY <1>0, <1>5, <2>0 DEF ModelsOK, Requeue, PushFront, SizesOK
  <2>4. /\ e \in pop_cond' => epc'[e] = "pop"
        /\ \A u \in EvalThreads \ {e} :
              EvalVars(u)' = EvalVars(u) /\ (u \in pop_cond' => u \in pop_cond)
    BY <1>5 DEF ModelsOK, Requeue, PushFront
  <2> QED  BY <1>0, <2>1, <2>2, <2>3, <2>4, ModelsFrame
<1>6. CASE RequeueNotify(e)
  <2>1. EvalTypes'  BY <1>6, NotifyOneLess DEF ModelsOK, RequeueNotify, PushNotify
  <2>2. EvalOK(e)'  BY <1>0, <1>6, NotifyOneLess DEF ModelsOK, RequeueNotify, PushNotify, EvalOK, Filling, Answering
  <2>3. SizesOK(e)'  BY <1>0, <1>6, NotifyOneLess DEF ModelsOK, RequeueNotify, PushNotify, SizesOK
  <2>4. /\ e \in pop_cond' => epc'[e] = "pop"
        /\ \A u \in EvalThreads \ {e} :
              EvalVars(u)' = EvalVars(u) /\ (u \in pop_cond' => u \in pop_cond)
    BY <1>6, NotifyOneLess DEF ModelsOK, RequeueNotify, PushNotify
  <2> QED  BY <1>0, <2>1, <2>2, <2>3, <2>4, ModelsFrame
<1>7. CASE Answer(e)
  <2>0. /\ todo[e] \in Seq(Tasks) /\ Tail(todo[e]) \in Seq(Tasks)
        /\ Len(todo[e]) \in Nat /\ Len(Tail(todo[e])) = Len(todo[e]) - 1
    BY <1>7 DEF ModelsOK, Answer
  <2>1. EvalTypes'  BY <1>7, <2>0 DEF ModelsOK, Answer
  <2>2. EvalOK(e)'  BY <1>0, <1>7, <2>0 DEF ModelsOK, Answer, EvalOK, Filling, Answering
  <2>3. SizesOK(e)'  BY <1>0, <1>7, <2>0 DEF ModelsOK, Answer, SizesOK
  <2>4. /\ e \in pop_cond' => epc'[e] = "pop"
        /\ \A u \in EvalThreads \ {e} :
              EvalVars(u)' = EvalVars(u) /\ (u \in pop_cond' => u \in pop_cond)
    BY <1>7 DEF ModelsOK, Answer
  <2> QED  BY <1>0, <2>1, <2>2, <2>3, <2>4, ModelsFrame
<1>8. CASE CallbackEnd(e)
  <2>1. EvalTypes'  BY <1>8 DEF ModelsOK, CallbackEnd
  <2>2. EvalOK(e)'  BY <1>0, <1>8 DEF ModelsOK, CallbackEnd, EvalOK, Filling, Answering
  <2>3. SizesOK(e)'  BY <1>0, <1>8 DEF ModelsOK, CallbackEnd, SizesOK
  <2>4. /\ e \in pop_cond' => epc'[e] = "pop"
        /\ \A u \in EvalThreads \ {e} :
              EvalVars(u)' = EvalVars(u) /\ (u \in pop_cond' => u \in pop_cond)
    BY <1>8 DEF ModelsOK, CallbackEnd
  <2> QED  BY <1>0, <2>1, <2>2, <2>3, <2>4, ModelsFrame
<1> QED
  BY <1>1, <1>2, <1>3, <1>4, <1>5, <1>6, <1>7, <1>8 DEF Complete, Callback

-----------------------------------------------------------------------------
(* The cache, the places and the search threads.                           *)

\* The cache: the oldest entry goes when the cache is full, and a position that
\* is there already is not inserted again.
LEMMA CacheInsert ==
    ASSUME CacheOrdered, NEW key \in Positions, Insert(key)
    PROVE  CacheOrdered'
<1>1. CASE Probe(key)
  BY <1>1 DEF CacheOrdered, CacheConsistent, Insert, evalCache
<1>2. CASE ~Probe(key)
  <2> USE DEF CacheOrdered, CacheConsistent
  <2>1. /\ m_order \in Seq(Positions) /\ NoDuplicates(m_order)
        /\ key \notin ToSet(m_order) /\ ToSet(m_order) = m_prob_value_map
        /\ Len(m_order) \in Nat /\ Len(m_order) <= m_max_eval_cache_size
    BY <1>2, SeqElements DEF Probe
  <2> DEFINE order == Append(m_order, key)
  <2>2. /\ order \in Seq(Positions) /\ order # <<>> /\ NoDuplicates(order)
        /\ ToSet(order) = m_prob_value_map \cup {key} /\ Len(order) = Len(m_order) + 1
    BY <2>1, AppendElements
  <2> HIDE DEF order
  <2>3. CASE Len(m_order) = m_max_eval_cache_size
    <3>1. m_prob_value_map' = ToSet(order) \ {Head(order)} /\ m_order' = Tail(order)
      BY <1>2, <2>2, <2>3 DEF Insert, AddCache, order
    <3>2. /\ m_order' \in Seq(Positions) /\ NoDuplicates(m_order')
          /\ Len(m_order') = Len(m_order) /\ ToSet(m_order') = m_prob_value_map'
      BY <2>1, <2>2, <3>1, TailElements
    <3>3. Len(m_order') = Cardinality(m_prob_value_map') /\ m_prob_value_map' \subseteq Positions
      BY <3>2, SeqCardinality, SeqElements
    <3> QED  BY <2>1, <3>2, <3>3
  <2>4. CASE Len(m_order) # m_max_eval_cache_size
    <3>1. m_prob_value_map' = ToSet(order) /\ m_order' = order
      BY <1>2, <2>2, <2>4 DEF Insert, AddCache, order
    <3>2. Len(m_order') = Cardinality(m_prob_value_map') /\ m_prob_value_map' \subseteq Positions
      BY <2>2, <3>1, SeqCardinality
    <3> QED  BY <2>1, <2>2, <2>4, <3>1, <3>2, CacheAssumption
  <2> QED  BY <2>3, <2>4
<1> QED  BY <1>1, <1>2

QueueSpot == <<"queue", none, <<>>>>
PushSpot(p) == <<"push", p, <<>>>>
BatchSpot(e) == <<"batch", e, <<>>>>
TodoSpot(e) == <<"todo", e, <<>>>>
CallSpot(e, b) == <<"call", e, b>>

\* The places are the queue, one for each search thread, two for each evaluation
\* thread, and one for each batch it may have sent.
LEMMA SpotShapes ==
    /\ QueueSpot \in Spots
    /\ \A p \in SearchThreads : PushSpot(p) \in Spots
    /\ \A e \in EvalThreads : BatchSpot(e) \in Spots /\ TodoSpot(e) \in Spots
    /\ \A e \in EvalThreads : \A b \in Seq(Tasks) : CallSpot(e, b) \in Spots
    /\ \A z \in Spots :
          \/ z = QueueSpot
          \/ \E p \in SearchThreads : z = PushSpot(p)
          \/ \E e \in EvalThreads : z = BatchSpot(e)
          \/ \E e \in EvalThreads : z = TodoSpot(e)
          \/ \E e \in EvalThreads, b \in Seq(Tasks) : z = CallSpot(e, b)
BY DEF Spots, QueueSpot, PushSpot, BatchSpot, TodoSpot, CallSpot

ContentIs(f, q, sp, tk, ba, td, ca) ==
    /\ f \in [Spots -> Seq(Tasks)]
    /\ f[QueueSpot] = q
    /\ \A p \in SearchThreads :
          f[PushSpot(p)] = IF sp[p] = "push" THEN <<tk[p]>> ELSE <<>>
    /\ \A e \in EvalThreads : f[BatchSpot(e)] = ba[e] /\ f[TodoSpot(e)] = td[e]
    /\ \A e \in EvalThreads : \A b \in Seq(Tasks) :
          f[CallSpot(e, b)] = IF b \in ca[e] THEN b ELSE <<>>

\* The definition of ContentOf() spelt out for each kind of place.
LEMMA ContentValues ==
    ASSUME NEW q \in Seq(Tasks), NEW sp, NEW tk,
           \A p \in SearchThreads : sp[p] = "push" => tk[p] \in Tasks,
           NEW ba \in [EvalThreads -> Seq(Tasks)], NEW td \in [EvalThreads -> Seq(Tasks)],
           NEW ca \in [EvalThreads -> SUBSET Seq(Tasks)]
    PROVE  ContentIs(ContentOf(q, sp, tk, ba, td, ca), q, sp, tk, ba, td, ca)
<1> DEFINE f == ContentOf(q, sp, tk, ba, td, ca)
<1>1. f[QueueSpot] = q
  BY SpotShapes DEF ContentOf, PieceOf, QueueSpot
<1>2. ASSUME NEW p \in SearchThreads
      PROVE  f[PushSpot(p)] = IF sp[p] = "push" THEN <<tk[p]>> ELSE <<>>
  BY SpotShapes DEF ContentOf, PieceOf, PushSpot
<1>3. ASSUME NEW e \in EvalThreads
      PROVE  f[BatchSpot(e)] = ba[e] /\ f[TodoSpot(e)] = td[e]
  BY SpotShapes DEF ContentOf, PieceOf, BatchSpot, TodoSpot
<1>4. ASSUME NEW e \in EvalThreads, NEW b \in Seq(Tasks)
      PROVE  f[CallSpot(e, b)] = IF b \in ca[e] THEN b ELSE <<>>
  BY SpotShapes DEF ContentOf, PieceOf, CallSpot
<1>0. f = [x \in Spots |-> f[x]]
  BY DEF ContentOf
<1> HIDE DEF f
<1>5. ASSUME NEW z \in Spots PROVE f[z] \in Seq(Tasks)
  <2>0. <<>> \in Seq(Tasks)  OBVIOUS
  <2>1. CASE z = QueueSpot  BY <2>1, <1>1
  <2>2. ASSUME NEW p \in SearchThreads, z = PushSpot(p) PROVE f[z] \in Seq(Tasks)
    <3>1. CASE sp[p] = "push"
      <4>1. <<tk[p]>> \in Seq(Tasks)  BY <3>1
      <4> QED  BY <2>2, <1>2, <3>1, <4>1
    <3>2. CASE sp[p] # "push"  BY <2>0, <2>2, <1>2, <3>2
    <3> QED  BY <3>1, <3>2
  <2>3. ASSUME NEW e \in EvalThreads, z = BatchSpot(e) \/ z = TodoSpot(e)
        PROVE  f[z] \in Seq(Tasks)
    BY <2>3, <1>3
  <2>4. ASSUME NEW e \in EvalThreads, NEW b \in Seq(Tasks), z = CallSpot(e, b)
        PROVE  f[z] \in Seq(Tasks)
    <3>1. f[z] = IF b \in ca[e] THEN b ELSE <<>>  BY <2>4, <1>4
    <3> QED  BY <2>0, <3>1
  <2> QED  BY <2>1, <2>2, <2>3, <2>4, SpotShapes
<1>6. f \in [Spots -> Seq(Tasks)]
  BY <1>0, <1>5
<1> QED  BY <1>1, <1>2, <1>3, <1>4, <1>6 DEF f, ContentIs

\* What is in each place, in a state of the program.
LEMMA ContentNow ==
    ASSUME QueueOK, SearchOK, ModelsOK
    PROVE  ContentIs(Content, m_queue, spc, task, batch, todo, calls)
<1>1. /\ m_queue \in Seq(Tasks) /\ \A p \in SearchThreads : spc[p] = "push" => task[p] \in Tasks
      /\ batch \in [EvalThreads -> Seq(Tasks)] /\ todo \in [EvalThreads -> Seq(Tasks)]
      /\ calls \in [EvalThreads -> SUBSET Seq(Tasks)]
  BY DEF QueueOK, SearchOK, ModelsOK, EvalTypes
<1>2. ContentIs(ContentOf(m_queue, spc, task, batch, todo, calls),
                m_queue, spc, task, batch, todo, calls)
  BY <1>1, ContentValues
<1> QED  BY <1>2 DEF Content

\* A task that is about to be answered is in flight.
LEMMA HeadOutstanding ==
    ASSUME QueueOK, SearchOK, Located, TasksOK, ModelsOK, NEW e \in EvalThreads, todo[e] # <<>>
    PROVE  /\ Head(todo[e]) \in Tasks
           /\ position[Head(todo[e])] \in Positions /\ promise[Head(todo[e])] = none
<1> DEFINE t == Head(todo[e])
<1>1. TodoSpot(e) \in Spots /\ Content[TodoSpot(e)] = todo[e]
  BY SpotShapes, ContentNow DEF ContentIs
<1>2. todo[e] \in Seq(Tasks)  BY DEF ModelsOK, EvalTypes
<1>3. t \in ToSet(todo[e]) /\ t \in Tasks  BY <1>2, TailElements, SeqElements
<1>4. t \in Elements(Spots, Content)  BY <1>1, <1>3 DEF Elements
<1> QED  BY <1>3, <1>4 DEF Located, outstanding, TasksOK

\* The steps of a search thread keep all parts of the invariant that are about types,
\* program counters and the cache.
LEMMA SearchThreadParts ==
    ASSUME QueueOK, TasksOK, SearchOK, ModelsOK, CacheOrdered,
           NEW p \in SearchThreads, Search(p) \/ Eval(p)
    PROVE  QueueOK' /\ TasksOK' /\ SearchOK' /\ ModelsOK' /\ CacheOrdered'
<1>c. config.tasks \subseteq Tasks /\ config.positions \subseteq Positions  BY ConfigFacts
<1> USE DEF SearchGoto, evalVars, taskQueue, evalCache
<1>1. CASE EvalBegin(p)
  <2>0. PICK k \in config.positions, t \in config.tasks :
          /\ position[t] = none
          /\ position' = [position EXCEPT ![t] = k]
          /\ task' = [task EXCEPT ![p] = t]
    BY <1>1 DEF EvalBegin
  <2>1. k \in Positions /\ t \in Tasks /\ k # none  BY <1>c, PipelineAssumption
  <2>2. TasksOK'  BY <1>1, <2>0, <2>1 DEF EvalBegin, TasksOK
  <2>3. SearchOK'  BY <1>1, <2>0, <2>1 DEF EvalBegin, SearchOK
  <2>4. QueueOK' /\ CacheOrdered'  BY <1>1 DEF EvalBegin, QueueOK, CacheOrdered, CacheConsistent
  <2>5. ModelsOK'  BY <1>1, ModelsIdle DEF EvalBegin
  <2> QED  BY <2>2, <2>3, <2>4, <2>5
<1>2. CASE EvalPush(p)
  <2>1. TasksOK' /\ CacheOrdered'  BY <1>2 DEF EvalPush, TasksOK, CacheOrdered, CacheConsistent
  <2>2. QueueOK' /\ SearchOK'
    <3>1. CASE SearchGoto(p, "push", "notify") /\ PushIn(p, task[p])
      <4>1. task[p] \in Tasks /\ Append(m_queue, task[p]) \in Seq(Tasks)
        BY <3>1 DEF SearchOK, QueueOK
      <4> QED  BY <1>2, <3>1, <4>1 DEF EvalPush, PushIn, QueueOK, SearchOK
    <3>2. CASE SearchGoto(p, "push", "push") /\ PushSleep(p)
      BY <1>2, <3>2 DEF EvalPush, PushSleep, QueueOK, SearchOK
    <3> QED  BY <1>2, <3>1, <3>2 DEF EvalPush
  <2>3. ModelsOK'  BY <1>2, ModelsIdle DEF EvalPush, PushIn, PushSleep
  <2> QED  BY <2>1, <2>2, <2>3
<1>3. CASE EvalPushed(p)
  <2>1. QueueOK' /\ TasksOK' /\ CacheOrdered'
    BY <1>3 DEF EvalPushed, PushNotify, QueueOK, TasksOK, CacheOrdered, CacheConsistent
  <2>2. SearchOK'
    <3>1. spc' = [spc EXCEPT ![p] = IF enable_async THEN "idle" ELSE "await"] /\ spc[p] = "notify"
      BY <1>3 DEF EvalPushed
    <3>2. task' = [task EXCEPT ![p] = IF enable_async THEN none ELSE @] /\ push_cond' = push_cond
      BY <1>3 DEF EvalPushed, PushNotify
    <3> QED  BY <3>1, <3>2 DEF SearchOK
  <2>3. ModelsOK'  BY <1>3, ModelsIdle, NotifyOneLess DEF EvalPushed, PushNotify
  <2> QED  BY <2>1, <2>2, <2>3
<1>4. CASE EvalReturn(p)
  <2> DEFINE t == task[p]
  <2>1. /\ t \in Tasks /\ promise[t] # none /\ spc[p] = "await"
        /\ IF promise[t] = "ok" THEN Insert(position[t]) ELSE UNCHANGED evalCache
        /\ position' = [position EXCEPT ![t] = none]
        /\ promise' = [promise EXCEPT ![t] = none]
    BY <1>4 DEF EvalReturn, Evaluated, SearchOK
  <2>2. position[t] \in Positions  BY <2>1 DEF TasksOK
  <2> HIDE DEF t
  <2>3. TasksOK'  BY <2>1 DEF TasksOK
  <2>4. CacheOrdered'
    <3>1. CASE promise[t] = "ok"  BY <2>1, <2>2, <3>1, CacheInsert
    <3>2. CASE promise[t] # "ok"  BY <2>1, <3>2 DEF CacheOrdered, CacheConsistent
    <3> QED  BY <3>1, <3>2
  <2>5. QueueOK' /\ SearchOK'  BY <1>4 DEF EvalReturn, QueueOK, SearchOK
  <2>6. ModelsOK'  BY <1>4, ModelsIdle DEF EvalReturn
  <2> QED  BY <2>3, <2>4, <2>5, <2>6
<1>5. CASE SearchEnd(p)
  <2>1. QueueOK' /\ TasksOK' /\ SearchOK' /\ CacheOrdered'
    BY <1>5 DEF SearchEnd, QueueOK, TasksOK, SearchOK, CacheOrdered, CacheConsistent
  <2>2. ModelsOK'  BY <1>5, ModelsIdle DEF SearchEnd
  <2> QED  BY <2>1, <2>2
<1> QED  BY <1>1, <1>2, <1>3, <1>4, <1>5 DEF Search, Eval

-----------------------------------------------------------------------------
(* The evaluation threads: everything but themselves.                      *)

\* The steps of an evaluation thread and of the callbacks: the queue, the tasks,
\* the search threads and the cache.
LEMMA EvalThreadParts ==
    ASSUME QueueOK, TasksOK, SearchOK, ModelsOK, CacheOrdered, Located,
           NEW e \in EvalThreads,
           EvalRoutine(e) \/ Complete(e) \/ Reenable(e) \/ Callback(e)
    PROVE  QueueOK' /\ TasksOK' /\ SearchOK' /\ CacheOrdered'
<1> USE DEF searchVars, taskQueue, evalCache
<1>1. CASE BatchPop(e)
  <2>1. Tail(m_queue) \in Seq(Tasks)  BY <1>1 DEF BatchPop, PopTake, QueueOK
  <2> QED
    BY <1>1, <2>1 DEF BatchPop, PopTake, QueueOK, TasksOK, SearchOK, CacheOrdered, CacheConsistent
<1>2. CASE BatchPopped(e)
  <2>1. push_cond' \subseteq push_cond  BY <1>2, NotifyOneLess DEF BatchPopped, PopNotify
  <2> QED
    BY <1>2, <2>1 DEF BatchPopped, PopNotify, QueueOK, TasksOK, SearchOK, CacheOrdered,
                      CacheConsistent
<1>3. CASE Requeue(e)
  <2>1. <<Head(todo[e])>> \o m_queue \in Seq(Tasks)
    BY <1>3, HeadOutstanding, PrependElements DEF Requeue, QueueOK
  <2> QED
    BY <1>3, <2>1 DEF Requeue, PushFront, QueueOK, TasksOK, SearchOK, CacheOrdered,
                      CacheConsistent
<1>4. CASE Answer(e)
  <2> DEFINE t == Head(todo[e])
  <2>1. t \in Tasks /\ position[t] \in Positions /\ promise[t] = none
    BY <1>4, HeadOutstanding DEF Answer
  <2>2. UNCHANGED <<spc, task, taskQueue>> /\ CallTask(t, ret[e]) /\ ret[e] # "timeout"
        /\ cpc[e] = "callback"
    BY <1>4 DEF Answer, CompleteGoto
  <2> HIDE DEF t
  <2>3. QueueOK' /\ SearchOK'  BY <2>2 DEF QueueOK, SearchOK
  <2>4. CASE enable_async
    <3>1. /\ IF ret[e] = "ok" THEN Insert(position[t]) ELSE UNCHANGED evalCache
          /\ position' = [position EXCEPT ![t] = none] /\ promise' = promise
      BY <2>2, <2>4 DEF CallTask, Evaluated
    <3>2. TasksOK'  BY <2>1, <3>1 DEF TasksOK
    <3>3. CASE ret[e] = "ok"  BY <2>1, <2>3, <3>1, <3>2, <3>3, CacheInsert
    <3>4. CASE ret[e] # "ok"
      BY <2>3, <3>1, <3>2, <3>4 DEF CacheOrdered, CacheConsistent
    <3> QED  BY <3>3, <3>4
  <2>5. CASE ~enable_async
    <3>1. promise' = [promise EXCEPT ![t] = ret[e]] /\ UNCHANGED <<position, evalCache>>
      BY <2>2, <2>5 DEF CallTask
    <3>2. ret[e] \in Results \ {"timeout"}
      BY <2>2 DEF ModelsOK, EvalTypes, EvalOK, Answering
    <3>3. TasksOK'  BY <2>1, <3>1, <3>2, PipelineAssumption DEF TasksOK
    <3> QED  BY <2>3, <3>1, <3>3 DEF CacheOrdered, CacheConsistent
  <2> QED  BY <2>4, <2>5
<1>5. CASE \/ ModelWait(e) \/ BatchWait(e) \/ BatchTimeout(e) \/ BatchEnd(e) \/ BatchClosed(e)
           \/ Forward(e) \/ ForwardReturns(e) \/ AsyncForward(e) \/ DestroyModel(e)
           \/ JoinComplete(e) \/ StubsReleased(e)
  <2>1. UNCHANGED <<m_queue, m_is_close, push_cond, searchVars>>
    BY <1>5 DEF ModelWait, BatchWait, PopSleep, BatchTimeout, PopTimeout, BatchEnd, BatchClosed,
       PopClosed, Forward, ForwardReturns, AsyncForward, DestroyModel, JoinComplete,
       StubsReleased
  <2> QED  BY <2>1 DEF QueueOK, TasksOK, SearchOK, CacheOrdered, CacheConsistent
<1>6. CASE Complete(e) \/ Reenable(e) \/ RequeueNotify(e) \/ CallbackEnd(e)
  <2>1. UNCHANGED <<m_queue, m_is_close, push_cond, searchVars>>
    BY <1>6 DEF Complete, CompleteTest, CompleteDrained, CompleteNext, Reenable, RequeueNotify,
       PushNotify, CallbackEnd
  <2> QED  BY <2>1 DEF QueueOK, TasksOK, SearchOK, CacheOrdered, CacheConsistent
<1> QED  BY <1>1, <1>2, <1>3, <1>4, <1>5, <1>6 DEF EvalRoutine, Callback

\* The queue is closed, a thread wakes up for no reason, or nothing happens.
LEMMA OtherParts ==
    ASSUME QueueOK, TasksOK, SearchOK, ModelsOK, CacheOrdered,
           MainClose \/ SpuriousWakeup \/ UNCHANGED vars
    PROVE  QueueOK' /\ TasksOK' /\ SearchOK' /\ ModelsOK' /\ CacheOrdered'
<1>1. /\ UNCHANGED <<m_queue, searchVars, evalVars, callbackVars, clientVars>>
      /\ pop_cond' \subseteq pop_cond /\ push_cond' \subseteq push_cond
      /\ m_is_close' \in BOOLEAN
  BY DEF MainClose, Close, SpuriousWakeup, vars, taskQueue, QueueOK
<1>2. ModelsOK'  BY <1>1, ModelsIdle DEF searchVars, evalVars
<1> QED
  BY <1>1, <1>2 DEF QueueOK, TasksOK, SearchOK, CacheOrdered, CacheConsistent, searchVars,
                    evalCache

-----------------------------------------------------------------------------
(* The counts behind the wake-ups.                                         *)

\* A set that changes in at most one element.
LEMMA OneChange ==
    ASSUME NEW S, IsFiniteSet(S), NEW R, NEW x, \A u : u # x => (u \in R <=> u \in S)
    PROVE  /\ IsFiniteSet(R) /\ Cardinality(S) \in Nat /\ Cardinality(R) \in Nat
           /\ Cardinality(R) = Cardinality(S) + (IF x \in R THEN 1 ELSE 0)
                                 - (IF x \in S THEN 1 ELSE 0)
<1>0. Cardinality(S) \in Nat  BY FS_CardinalityType
<1>1. CASE x \in R /\ x \notin S
  <2>1. R = S \cup {x}  BY <1>1
  <2> QED  BY <1>0, <1>1, <2>1, FS_AddElement
<1>2. CASE x \notin R /\ x \in S
  <2>1. R = S \ {x}  BY <1>2
  <2> QED  BY <1>0, <1>2, <2>1, FS_RemoveElement, FS_CardinalityType
<1>3. CASE x \in R <=> x \in S
  <2>1. R = S  BY <1>3
  <2> QED  BY <1>0, <1>3, <2>1
<1> QED  BY <1>1, <1>2, <1>3

\* The threads counted are finitely many.
LEMMA FiniteCounts ==
    /\ IsFiniteSet(Notifying) /\ IsFiniteSet(Pushing)
    /\ IsFiniteSet(Requeueing) /\ IsFiniteSet(Popping) /\ IsFiniteSet(PopNotifying)
    /\ Cardinality(Notifying) \in Nat /\ Cardinality(Pushing) \in Nat
    /\ Cardinality(Requeueing) \in Nat /\ Cardinality(Popping) \in Nat
    /\ Cardinality(PopNotifying) \in Nat
<1>1. Notifying \subseteq SearchThreads /\ Pushing \subseteq SearchThreads
  BY DEF Notifying, Pushing
<1>2. /\ Requeueing \subseteq EvalThreads /\ Popping \subseteq EvalThreads
      /\ PopNotifying \subseteq EvalThreads
  BY DEF Requeueing, Popping, PopNotifying
<1>3. IsFiniteSet(SearchThreads) /\ IsFiniteSet(EvalThreads)  BY PipelineAssumption
<1>4. /\ IsFiniteSet(Notifying) /\ IsFiniteSet(Pushing)
      /\ IsFiniteSet(Requeueing) /\ IsFiniteSet(Popping) /\ IsFiniteSet(PopNotifying)
  BY <1>1, <1>2, <1>3, FS_Subset
<1> QED  BY <1>4, FS_CardinalityType

\* How a step of one search thread changes the counts of search threads ...
LEMMA SearchCounts ==
    ASSUME NEW p \in SearchThreads,
           \A u \in SearchThreads : u # p =>
              spc'[u] = spc[u] /\ (u \in push_cond' <=> u \in push_cond)
    PROVE  /\ Cardinality(Notifying') \in Nat /\ Cardinality(Pushing') \in Nat
           /\ Cardinality(Notifying') = Cardinality(Notifying)
                + (IF spc'[p] = "notify" THEN 1 ELSE 0) - (IF spc[p] = "notify" THEN 1 ELSE 0)
           /\ Cardinality(Pushing') = Cardinality(Pushing)
                + (IF spc'[p] = "push" /\ p \notin push_cond' THEN 1 ELSE 0)
                - (IF spc[p] = "push" /\ p \notin push_cond THEN 1 ELSE 0)
<1>1. /\ \A u : u # p => (u \in Notifying' <=> u \in Notifying)
      /\ \A u : u # p => (u \in Pushing' <=> u \in Pushing)
  BY DEF Notifying, Pushing
<1>2. /\ p \in Notifying' <=> spc'[p] = "notify"
      /\ p \in Notifying <=> spc[p] = "notify"
      /\ p \in Pushing' <=> spc'[p] = "push" /\ p \notin push_cond'
      /\ p \in Pushing <=> spc[p] = "push" /\ p \notin push_cond
  BY DEF Notifying, Pushing
<1>3. IsFiniteSet(Notifying) /\ IsFiniteSet(Pushing)  BY FiniteCounts
<1>4. /\ Cardinality(Notifying') \in Nat
      /\ Cardinality(Notifying') = Cardinality(Notifying)
           + (IF p \in Notifying' THEN 1 ELSE 0) - (IF p \in Notifying THEN 1 ELSE 0)
  BY <1>1, <1>3, OneChange
<1>5. /\ Cardinality(Pushing') \in Nat
      /\ Cardinality(Pushing') = Cardinality(Pushing)
           + (IF p \in Pushing' THEN 1 ELSE 0) - (IF p \in Pushing THEN 1 ELSE 0)
  BY <1>1, <1>3, OneChange
<1> QED  BY <1>2, <1>4, <1>5

\* ... and one of an evaluation thread or its model those of evaluation threads.
LEMMA EvalCounts ==
    ASSUME NEW e \in EvalThreads,
           \A u \in EvalThreads : u # e =>
              epc'[u] = epc[u] /\ cpc'[u] = cpc[u] /\ (u \in pop_cond' <=> u \in pop_cond)
    PROVE  /\ Cardinality(Requeueing') = Cardinality(Requeueing)
                + (IF cpc'[e] = "requeued" THEN 1 ELSE 0)
                - (IF cpc[e] = "requeued" THEN 1 ELSE 0)
           /\ Cardinality(Popping') = Cardinality(Popping)
                + (IF epc'[e] = "pop" /\ e \notin pop_cond' THEN 1 ELSE 0)
                - (IF epc[e] = "pop" /\ e \notin pop_cond THEN 1 ELSE 0)
           /\ Cardinality(PopNotifying') = Cardinality(PopNotifying)
                + (IF epc'[e] = "notify" THEN 1 ELSE 0) - (IF epc[e] = "notify" THEN 1 ELSE 0)
<1>1. /\ \A u : u # e => (u \in Requeueing' <=> u \in Requeueing)
      /\ \A u : u # e => (u \in Popping' <=> u \in Popping)
      /\ \A u : u # e => (u \in PopNotifying' <=> u \in PopNotifying)
  BY DEF Requeueing, Popping, PopNotifying
<1>2. /\ e \in Requeueing' <=> cpc'[e] = "requeued"
      /\ e \in Requeueing <=> cpc[e] = "requeued"
      /\ e \in Popping' <=> epc'[e] = "pop" /\ e \notin pop_cond'
      /\ e \in Popping <=> epc[e] = "pop" /\ e \notin pop_cond
      /\ e \in PopNotifying' <=> epc'[e] = "notify"
      /\ e \in PopNotifying <=> epc[e] = "notify"
  BY DEF Requeueing, Popping, PopNotifying
<1>3. IsFiniteSet(Requeueing) /\ IsFiniteSet(Popping) /\ IsFiniteSet(PopNotifying)
  BY FiniteCounts
<1>4. Cardinality(Requeueing') = Cardinality(Requeueing)
           + (IF e \in Requeueing' THEN 1 ELSE 0) - (IF e \in Requeueing THEN 1 ELSE 0)
  BY <1>1, <1>3, OneChange
<1>5. Cardinality(Popping') = Cardinality(Popping)
           + (IF e \in Popping' THEN 1 ELSE 0) - (IF e \in Popping THEN 1 ELSE 0)
  BY <1>1, <1>3, OneChange
<1>6. Cardinality(PopNotifying') = Cardinality(PopNotifying)
           + (IF e \in PopNotifying' THEN 1 ELSE 0) - (IF e \in PopNotifying THEN 1 ELSE 0)
  BY <1>1, <1>3, OneChange
<1> QED  BY <1>2, <1>4, <1>5, <1>6

\* A notification makes a thread that sleeps in Pop look again, if there is one,
LEMMA PopWoken ==
    ASSUME ModelsOK, epc' = epc, pop_cond' \in NotifyOne(pop_cond)
    PROVE  pop_cond' = {} \/ (pop_cond # {} /\ Cardinality(Popping') = Cardinality(Popping) + 1)
<1>1. CASE pop_cond = {}  BY <1>1 DEF NotifyOne
<1>2. CASE pop_cond # {}
  <2>1. PICK e \in pop_cond : pop_cond' = pop_cond \ {e}  BY <1>2 DEF NotifyOne
  <2>2. e \in EvalThreads /\ epc[e] = "pop"  BY DEF ModelsOK, EvalTypes
  <2>3. Popping' = Popping \cup {e} /\ e \notin Popping  BY <2>1, <2>2 DEF Popping
  <2> QED  BY <1>2, <2>3, FiniteCounts, FS_AddElement
<1> QED  BY <1>1, <1>2

\* or one that sleeps in Push.
LEMMA PushWoken ==
    ASSUME SearchOK, spc' = spc, push_cond' \in NotifyOne(push_cond)
    PROVE  push_cond' = {} \/ (push_cond # {} /\ Cardinality(Pushing') = Cardinality(Pushing) + 1)
<1>1. CASE push_cond = {}  BY <1>1 DEF NotifyOne
<1>2. CASE push_cond # {}
  <2>1. PICK p \in push_cond : push_cond' = push_cond \ {p}  BY <1>2 DEF NotifyOne
  <2>2. p \in SearchThreads /\ spc[p] = "push"  BY DEF SearchOK
  <2>3. Pushing' = Pushing \cup {p} /\ p \notin Pushing  BY <2>1, <2>2 DEF Pushing
  <2> QED  BY <1>2, <2>3, FiniteCounts, FS_AddElement
<1> QED  BY <1>1, <1>2

\* The steps of a search thread: a Push owes a notification for the element it adds,
\* and sleeps only when the queue is full.
LEMMA SearchWakeups ==
    ASSUME QueueOK, SearchOK, ModelsOK, WakeupsCounted, NEW p \in SearchThreads,
           Search(p) \/ Eval(p)
    PROVE  WakeupsCounted'
<1> DEFINE n == Cardinality(Notifying)
           r == Cardinality(Requeueing)
           o == Cardinality(Popping)
           l == Cardinality(PopNotifying)
           q == Cardinality(Pushing)
<1>1. n \in Nat /\ r \in Nat /\ o \in Nat /\ l \in Nat /\ q \in Nat /\ Len(m_queue) \in Nat
  BY FiniteCounts DEF QueueOK
<1>2. UNCHANGED <<epc, cpc>>
  BY DEF Search, Eval, EvalBegin, SearchEnd, EvalPush, EvalPushed, EvalReturn, evalVars,
         callbackVars
<1>3. /\ Cardinality(Requeueing') = r /\ Cardinality(PopNotifying') = l
      /\ pop_cond' = pop_cond => Cardinality(Popping') = o
  BY <1>2 DEF Requeueing, PopNotifying, Popping
<1>4. /\ pop_cond # {} => Len(m_queue) <= n + r + o
      /\ push_cond # {} => capacity > 0 /\ capacity <= Len(m_queue) + l + q
  BY DEF WakeupsCounted
<1>5. \A u \in SearchThreads : u # p =>
         spc'[u] = spc[u] /\ (u \in push_cond' <=> u \in push_cond)
  BY DEF Search, Eval, EvalBegin, SearchEnd, EvalPush, EvalPushed, EvalReturn, SearchGoto,
         PushIn, PushSleep, PushNotify, taskQueue, SearchOK
<1>6. /\ Cardinality(Notifying') = n
           + (IF spc'[p] = "notify" THEN 1 ELSE 0) - (IF spc[p] = "notify" THEN 1 ELSE 0)
      /\ Cardinality(Pushing') = q
           + (IF spc'[p] = "push" /\ p \notin push_cond' THEN 1 ELSE 0)
           - (IF spc[p] = "push" /\ p \notin push_cond THEN 1 ELSE 0)
  BY <1>5, SearchCounts
<1> USE DEF SearchGoto, SearchOK
<1> HIDE DEF n, r, o, l, q
<1>7. CASE EvalBegin(p) \/ SearchEnd(p) \/ EvalReturn(p)
  <2>1. /\ UNCHANGED <<m_queue, push_cond, pop_cond>>
        /\ spc[p] \in {"idle", "await"} /\ spc'[p] \in {"push", "idle", "gone"}
    BY <1>7 DEF EvalBegin, SearchEnd, EvalReturn, taskQueue
  <2>2. Cardinality(Notifying') = n /\ Cardinality(Pushing') \in {q, q + 1}
    BY <1>1, <1>6, <2>1
  <2>3. Cardinality(Popping') = o /\ pop_cond' = pop_cond /\ push_cond' = push_cond
    BY <1>3, <2>1
  <2>4. Len(m_queue') = Len(m_queue)  BY <2>1
  <2>5. push_cond' # {} => capacity <= Len(m_queue) + l + Cardinality(Pushing')
    BY <1>1, <1>4, <2>2, <2>3, CapacityAssumption
  <2> QED  BY <1>1, <1>3, <1>4, <2>2, <2>3, <2>4, <2>5 DEF WakeupsCounted
<1>8. CASE EvalPush(p) /\ PushIn(p, task[p])
  <2>1. /\ spc[p] = "push" /\ spc'[p] = "notify" /\ p \notin push_cond
        /\ UNCHANGED <<push_cond, pop_cond>> /\ m_queue' = Append(m_queue, task[p])
    BY <1>8 DEF EvalPush, PushIn, PushSleep, Room
  <2>2. Len(m_queue') = Len(m_queue) + 1
    BY <2>1, AppendElements DEF QueueOK
  <2>3. Cardinality(Notifying') = n + 1 /\ Cardinality(Pushing') = q - 1
    BY <1>1, <1>6, <2>1
  <2> QED  BY <1>1, <1>3, <1>4, <2>1, <2>2, <2>3, CapacityAssumption DEF WakeupsCounted
<1>9. CASE EvalPush(p) /\ PushSleep(p)
  <2>1. /\ spc[p] = "push" /\ spc'[p] = "push" /\ p \notin push_cond
        /\ push_cond' = push_cond \cup {p} /\ UNCHANGED <<m_queue, pop_cond>> /\ ~Room
    BY <1>9 DEF EvalPush, PushSleep, PushIn
  <2>2. Cardinality(Notifying') = n /\ Cardinality(Pushing') = q - 1
    BY <1>1, <1>6, <2>1
  <2>3. Cardinality(Pushing') \in Nat  BY <1>5, SearchCounts
  <2>4. capacity > 0 /\ capacity <= Len(m_queue)
    BY <1>1, <2>1, CapacityAssumption DEF Room
  <2> QED  BY <1>1, <1>3, <1>4, <2>1, <2>2, <2>3, <2>4, CapacityAssumption DEF WakeupsCounted
<1>10. CASE EvalPushed(p)
  <2>1. /\ spc[p] = "notify" /\ spc'[p] \in {"idle", "await"}
        /\ pop_cond' \in NotifyOne(pop_cond) /\ UNCHANGED <<m_queue, push_cond>>
    BY <1>10 DEF EvalPushed, PushNotify
  <2>2. Cardinality(Notifying') = n - 1 /\ Cardinality(Pushing') = q
    BY <1>1, <1>6, <2>1
  <2>3. pop_cond' = {} \/ (pop_cond # {} /\ Cardinality(Popping') = o + 1)
    BY <1>2, <2>1, PopWoken DEF o
  <2> QED  BY <1>1, <1>3, <1>4, <2>1, <2>2, <2>3 DEF WakeupsCounted
<1> QED  BY <1>7, <1>8, <1>9, <1>10 DEF Search, Eval, EvalPush

\* The steps of an evaluation thread and of the callbacks: a Pop owes a notification
\* for the place it frees and sleeps only when the queue is empty, a requeued task is
\* an element more.
LEMMA EvalWakeups ==
    ASSUME QueueOK, SearchOK, ModelsOK, WakeupsCounted, NEW e \in EvalThreads,
           EvalRoutine(e) \/ Complete(e) \/ Reenable(e) \/ Callback(e)
    PROVE  WakeupsCounted'
<1> DEFINE n == Cardinality(Notifying)
           r == Cardinality(Requeueing)
           o == Cardinality(Popping)
           l == Cardinality(PopNotifying)
           q == Cardinality(Pushing)
<1>1. n \in Nat /\ r \in Nat /\ o \in Nat /\ l \in Nat /\ q \in Nat /\ Len(m_queue) \in Nat
  BY FiniteCounts DEF QueueOK
<1>2. UNCHANGED spc
  BY DEF EvalRoutine, Complete, Callback, ModelWait, BatchPop, BatchPopped, BatchWait,
         BatchTimeout, BatchEnd, BatchClosed, Forward, ForwardReturns, AsyncForward,
         DestroyModel, JoinComplete, StubsReleased, CompleteTest, CompleteDrained,
         CompleteNext, Reenable, Requeue, RequeueNotify, Answer, CallbackEnd, searchVars
<1>3. /\ Cardinality(Notifying') = n
      /\ push_cond' = push_cond => Cardinality(Pushing') = q
  BY <1>2 DEF Notifying, Pushing
<1>4. /\ pop_cond # {} => Len(m_queue) <= n + r + o
      /\ push_cond # {} => capacity > 0 /\ capacity <= Len(m_queue) + l + q
  BY DEF WakeupsCounted
<1>5. ASSUME \A u \in EvalThreads : u # e =>
                epc'[u] = epc[u] /\ cpc'[u] = cpc[u] /\ (u \in pop_cond' <=> u \in pop_cond)
      PROVE  /\ Cardinality(Requeueing') = r
                  + (IF cpc'[e] = "requeued" THEN 1 ELSE 0)
                  - (IF cpc[e] = "requeued" THEN 1 ELSE 0)
             /\ Cardinality(Popping') = o
                  + (IF epc'[e] = "pop" /\ e \notin pop_cond' THEN 1 ELSE 0)
                  - (IF epc[e] = "pop" /\ e \notin pop_cond THEN 1 ELSE 0)
             /\ Cardinality(PopNotifying') = l
                  + (IF epc'[e] = "notify" THEN 1 ELSE 0)
                  - (IF epc[e] = "notify" THEN 1 ELSE 0)
  BY <1>5, EvalCounts
<1>6. epc \in [EvalThreads -> EvalLabels] /\ cpc \in [EvalThreads -> CompleteLabels]
  BY DEF ModelsOK, EvalTypes
<1>7. e \in pop_cond => epc[e] = "pop"  BY DEF ModelsOK
<1> USE DEF EvalGoto, CompleteGoto, evalVars, callbackVars, taskQueue
<1> HIDE DEF n, r, o, l, q
\* Nothing changes but the program counters, and to none that is counted.
<1>8. CASE \/ BatchEnd(e) \/ Forward(e) \/ ForwardReturns(e) \/ AsyncForward(e)
           \/ DestroyModel(e) \/ JoinComplete(e) \/ StubsReleased(e)
           \/ Complete(e) \/ Reenable(e) \/ Answer(e) \/ CallbackEnd(e)
  <2>1. /\ UNCHANGED <<m_queue, push_cond, pop_cond>>
        /\ \A u \in EvalThreads : u # e => epc'[u] = epc[u] /\ cpc'[u] = cpc[u]
    BY <1>6, <1>8 DEF BatchEnd, Forward, ForwardReturns, AsyncForward, DestroyModel,
       JoinComplete, StubsReleased, Complete, CompleteTest, CompleteDrained, CompleteNext,
       Reenable, Answer, CallbackEnd
  <2>2. /\ epc'[e] = epc[e] \/ (epc[e] \notin {"pop", "notify"} /\ epc'[e] \notin {"pop", "notify"})
        /\ cpc'[e] = cpc[e] \/ (cpc[e] # "requeued" /\ cpc'[e] # "requeued")
    <3>1. CASE Forward(e)
      BY <1>6, <3>1 DEF Forward, ModelsOK, EvalOK, Answering
    <3>2. CASE ~Forward(e)
      BY <1>6, <1>8, <3>2 DEF BatchEnd, ForwardReturns, AsyncForward, DestroyModel,
         JoinComplete, StubsReleased, Complete, CompleteTest, CompleteDrained, CompleteNext,
         Reenable, Answer, CallbackEnd
    <3> QED  BY <3>1, <3>2
  <2>3. /\ Cardinality(Requeueing') = r /\ Cardinality(Popping') = o
        /\ Cardinality(PopNotifying') = l
    BY <1>1, <1>5, <2>1, <2>2
  <2> QED  BY <1>1, <1>3, <1>4, <2>1, <2>3 DEF WakeupsCounted
<1>9. CASE ModelWait(e)
  <2>1. /\ UNCHANGED <<m_queue, push_cond, pop_cond, cpc>>
        /\ \A u \in EvalThreads : u # e => epc'[u] = epc[u] /\ cpc'[u] = cpc[u]
        /\ epc[e] = "wait" /\ epc'[e] = "pop"
    BY <1>6, <1>9 DEF ModelWait
  <2>2. /\ Cardinality(Requeueing') = r /\ Cardinality(Popping') = o + 1
        /\ Cardinality(PopNotifying') = l
    BY <1>1, <1>5, <1>7, <2>1
  <2> QED  BY <1>1, <1>3, <1>4, <2>1, <2>2 DEF WakeupsCounted
<1>10. CASE BatchPop(e)
  <2>1. /\ UNCHANGED <<push_cond, pop_cond, cpc>> /\ e \notin pop_cond
        /\ \A u \in EvalThreads : u # e => epc'[u] = epc[u] /\ cpc'[u] = cpc[u]
        /\ epc[e] = "pop" /\ epc'[e] = "notify"
        /\ m_queue # <<>> /\ m_queue' = Tail(m_queue)
    BY <1>6, <1>10 DEF BatchPop, PopTake
  <2>2. Len(m_queue') = Len(m_queue) - 1  BY <2>1, TailElements DEF QueueOK
  <2>3. /\ Cardinality(Requeueing') = r /\ Cardinality(Popping') = o - 1
        /\ Cardinality(PopNotifying') = l + 1
    BY <1>1, <1>5, <2>1
  <2> QED  BY <1>1, <1>3, <1>4, <2>1, <2>2, <2>3, CapacityAssumption DEF WakeupsCounted
<1>11. CASE BatchPopped(e)
  <2>1. /\ UNCHANGED <<m_queue, pop_cond, cpc>>
        /\ \A u \in EvalThreads : u # e => epc'[u] = epc[u] /\ cpc'[u] = cpc[u]
        /\ epc[e] = "notify" /\ epc'[e] \in {"forward", "pop"}
        /\ push_cond' \in IF capacity > 0 THEN NotifyOne(push_cond) ELSE {push_cond}
    BY <1>6, <1>11 DEF BatchPopped, PopNotify
  <2>2. /\ Cardinality(Requeueing') = r /\ Cardinality(Popping') \in {o, o + 1}
        /\ Cardinality(PopNotifying') = l - 1
    BY <1>1, <1>5, <1>7, <2>1
  <2>3. push_cond' # {} => push_cond # {} /\ Cardinality(Pushing') = q + 1
    <3>1. CASE push_cond = {}  BY <2>1, <3>1 DEF NotifyOne
    <3>2. CASE push_cond # {}
      BY <1>2, <1>4, <2>1, <3>2, PushWoken DEF q
    <3> QED  BY <3>1, <3>2
  <2> QED  BY <1>1, <1>3, <1>4, <2>1, <2>2, <2>3, CapacityAssumption DEF WakeupsCounted
\* The queue is empty.
<1>12. CASE BatchWait(e) \/ BatchTimeout(e) \/ BatchClosed(e)
  <2>1. /\ UNCHANGED <<m_queue, push_cond, cpc>> /\ m_queue = <<>>
        /\ \A u \in EvalThreads : u # e =>
              epc'[u] = epc[u] /\ cpc'[u] = cpc[u] /\ (u \in pop_cond' <=> u \in pop_cond)
        /\ epc[e] = "pop" /\ epc'[e] # "notify"
    BY <1>6, <1>12 DEF BatchWait, BatchTimeout, BatchClosed, PopSleep, PopTimeout, PopClosed
  <2>2. /\ Cardinality(Requeueing') = r /\ Cardinality(PopNotifying') = l
    BY <1>1, <1>5, <2>1
  <2>3. IsFiniteSet(Popping) /\ Cardinality(Popping') \in Nat
    <3>1. \A u : u # e => (u \in Popping' <=> u \in Popping)  BY <2>1 DEF Popping
    <3> QED  BY <3>1, FiniteCounts, OneChange
  <2> QED  BY <1>1, <1>3, <1>4, <2>1, <2>2, <2>3 DEF WakeupsCounted
<1>13. CASE Requeue(e)
  <2>1. /\ UNCHANGED <<push_cond, pop_cond, epc>>
        /\ \A u \in EvalThreads : u # e => epc'[u] = epc[u] /\ cpc'[u] = cpc[u]
        /\ cpc[e] = "callback" /\ cpc'[e] = "requeued"
        /\ todo[e] # <<>> /\ m_queue' = <<Head(todo[e])>> \o m_queue
    BY <1>6, <1>13 DEF Requeue, PushFront
  <2>2. Len(m_queue') = Len(m_queue) + 1
    <3>1. Head(todo[e]) \in Tasks  BY <2>1 DEF ModelsOK, EvalTypes
    <3> QED  BY <2>1, <3>1, PrependElements DEF QueueOK
  <2>3. /\ Cardinality(Requeueing') = r + 1 /\ Cardinality(Popping') = o
        /\ Cardinality(PopNotifying') = l
    BY <1>1, <1>5, <2>1
  <2> QED  BY <1>1, <1>3, <1>4, <2>1, <2>2, <2>3, CapacityAssumption DEF WakeupsCounted
<1>14. CASE RequeueNotify(e)
  <2>1. /\ UNCHANGED <<m_queue, push_cond, epc>> /\ pop_cond' \in NotifyOne(pop_cond)
        /\ cpc[e] = "requeued" /\ cpc' = [cpc EXCEPT ![e] = "callback"]
    BY <1>14 DEF RequeueNotify, PushNotify
  <2>2. Cardinality(PopNotifying') = l  BY <2>1 DEF PopNotifying, l
  <2>3. Cardinality(Requeueing') = r - 1
    <3>1. Requeueing' = Requeueing \ {e} /\ e \in Requeueing
      BY <1>6, <2>1 DEF Requeueing
    <3> QED  BY <3>1, FiniteCounts, FS_RemoveElement DEF r
  <2>4. pop_cond' = {} \/ (pop_cond # {} /\ Cardinality(Popping') = o + 1)
    BY <2>1, PopWoken DEF o
  <2> QED  BY <1>1, <1>3, <1>4, <2>1, <2>2, <2>3, <2>4 DEF WakeupsCounted
<1> QED
  BY <1>8, <1>9, <1>10, <1>11, <1>12, <1>13, <1>14 DEF EvalRoutine, Callback

\* The queue is closed, a thread wakes up for no reason, or nothing happens: nobody
\* falls asleep.
LEMMA OtherWakeups ==
    ASSUME QueueOK, SearchOK, ModelsOK, WakeupsCounted,
           MainClose \/ SpuriousWakeup \/ UNCHANGED vars
    PROVE  WakeupsCounted'
<1> USE DEF taskQueue, searchVars, evalVars, callbackVars
<1>1. CASE MainClose
  BY <1>1 DEF MainClose, Close, WakeupsCounted
<1>2. CASE UNCHANGED vars
  BY <1>2 DEF vars, WakeupsCounted, Notifying, Requeueing, Popping, PopNotifying, Pushing
<1>3. CASE SpuriousWakeup
  <2>1. /\ UNCHANGED <<m_queue, spc, epc, cpc>>
        /\ pop_cond' \subseteq pop_cond /\ push_cond' \subseteq push_cond
    BY <1>3 DEF SpuriousWakeup
  <2>2. /\ Notifying' = Notifying /\ Requeueing' = Requeueing /\ PopNotifying' = PopNotifying
        /\ Popping \subseteq Popping' /\ Popping' \subseteq EvalThreads
        /\ Pushing \subseteq Pushing' /\ Pushing' \subseteq SearchThreads
    BY <2>1 DEF Notifying, Requeueing, PopNotifying, Popping, Pushing
  <2>3. IsFiniteSet(Popping') /\ IsFiniteSet(Pushing')
    BY <2>2, FS_Subset, PipelineAssumption
  <2>4. /\ Cardinality(Popping) <= Cardinality(Popping') /\ Cardinality(Popping') \in Nat
        /\ Cardinality(Pushing) <= Cardinality(Pushing') /\ Cardinality(Pushing') \in Nat
    BY <2>2, <2>3, FS_Subset, FS_CardinalityType
  <2>5. Len(m_queue) \in Nat  BY DEF QueueOK
  <2> QED
    BY <2>1, <2>2, <2>4, <2>5, FiniteCounts, CapacityAssumption DEF WakeupsCounted
<1> QED  BY <1>1, <1>2, <1>3

-----------------------------------------------------------------------------
(* Tasks move from place to place.                                         *)

StateOK == QueueOK /\ TasksOK /\ SearchOK /\ ModelsOK

\* What is in each place after a step.
LEMMA ContentNext ==
    ASSUME StateOK'
    PROVE  ContentIs(Content', m_queue', spc', task', batch', todo', calls')
<1>1. /\ m_queue' \in Seq(Tasks)
      /\ \A p \in SearchThreads : spc'[p] = "push" => task'[p] \in Tasks
      /\ batch' \in [EvalThreads -> Seq(Tasks)] /\ todo' \in [EvalThreads -> Seq(Tasks)]
      /\ calls' \in [EvalThreads -> SUBSET Seq(Tasks)]
  BY DEF StateOK, QueueOK, SearchOK, ModelsOK, EvalTypes
<1>2. ContentIs(ContentOf(m_queue', spc', task', batch', todo', calls'),
                m_queue', spc', task', batch', todo', calls')
  BY <1>1, ContentValues
<1> QED  BY <1>2 DEF Content

\* A step that touches no place outside D leaves what is in the others.
LEMMA ContentFrame ==
    ASSUME StateOK, StateOK', NEW D,
           QueueSpot \in D \/ m_queue' = m_queue,
           \A p \in SearchThreads :
              \/ PushSpot(p) \in D
              \/ /\ spc'[p] = "push" <=> spc[p] = "push"
                 /\ spc[p] = "push" => task'[p] = task[p],
           \A e \in EvalThreads : BatchSpot(e) \in D \/ batch'[e] = batch[e],
           \A e \in EvalThreads : TodoSpot(e) \in D \/ todo'[e] = todo[e],
           \A e \in EvalThreads : \A b \in Seq(Tasks) :
              CallSpot(e, b) \in D \/ (b \in calls'[e] <=> b \in calls[e])
    PROVE  /\ Content \in [Spots -> Seq(Tasks)] /\ Content' \in [Spots -> Seq(Tasks)]
           /\ \A z \in Spots \ D : Content'[z] = Content[z]
<1>1. ContentIs(Content, m_queue, spc, task, batch, todo, calls)
  BY ContentNow DEF StateOK
<1>2. ContentIs(Content', m_queue', spc', task', batch', todo', calls')
  BY ContentNext
<1>3. ASSUME NEW z \in Spots \ D  PROVE Content'[z] = Content[z]
  <2>1. CASE z = QueueSpot  BY <1>1, <1>2, <1>3, <2>1 DEF ContentIs
  <2>2. ASSUME NEW p \in SearchThreads, z = PushSpot(p)  PROVE Content'[z] = Content[z]
    <3>1. /\ Content[z] = IF spc[p] = "push" THEN <<task[p]>> ELSE <<>>
          /\ Content'[z] = IF spc'[p] = "push" THEN <<task'[p]>> ELSE <<>>
      BY <1>1, <1>2, <2>2 DEF ContentIs
    <3>2. /\ spc'[p] = "push" <=> spc[p] = "push"
          /\ spc[p] = "push" => task'[p] = task[p]
      BY <1>3, <2>2
    <3> QED  BY <3>1, <3>2
  <2>3. ASSUME NEW e \in EvalThreads, z = BatchSpot(e)  PROVE Content'[z] = Content[z]
    BY <1>1, <1>2, <1>3, <2>3 DEF ContentIs
  <2>4. ASSUME NEW e \in EvalThreads, z = TodoSpot(e)  PROVE Content'[z] = Content[z]
    BY <1>1, <1>2, <1>3, <2>4 DEF ContentIs
  <2>5. ASSUME NEW e \in EvalThreads, NEW b \in Seq(Tasks), z = CallSpot(e, b)
        PROVE  Content'[z] = Content[z]
    BY <1>1, <1>2, <1>3, <2>5 DEF ContentIs
  <2> QED  BY <1>3, <2>1, <2>2, <2>3, <2>4, <2>5, SpotShapes
<1> QED  BY <1>1, <1>2, <1>3 DEF ContentIs

\* No two places are the same.
LEMMA SpotsDiffer ==
    /\ \A p \in SearchThreads : PushSpot(p) # QueueSpot
    /\ \A e \in EvalThreads : BatchSpot(e) # QueueSpot /\ TodoSpot(e) # QueueSpot
    /\ \A e \in EvalThreads : BatchSpot(e) # TodoSpot(e)
    /\ \A e \in EvalThreads : \A b \in Seq(Tasks) :
          CallSpot(e, b) # BatchSpot(e) /\ CallSpot(e, b) # TodoSpot(e)
BY DEF QueueSpot, PushSpot, BatchSpot, TodoSpot, CallSpot

\* A step that moves no task and answers none.
LEMMA SameContent ==
    ASSUME StateOK, StateOK', Located, outstanding' = outstanding,
           m_queue' = m_queue,
           \A p \in SearchThreads :
                 /\ spc'[p] = "push" <=> spc[p] = "push"
                 /\ spc[p] = "push" => task'[p] = task[p],
           batch' = batch, todo' = todo, calls' = calls
    PROVE  Located'
<1>1. /\ Content \in [Spots -> Seq(Tasks)] /\ Content' \in [Spots -> Seq(Tasks)]
      /\ \A z \in Spots \ {} : Content'[z] = Content[z]
  BY ContentFrame
<1>2. Content' = Content  BY <1>1
<1> QED  BY <1>2 DEF Located

\* The steps of a search thread: a new task is put where there is none, a Push moves it
\* to the end of the queue.
LEMMA LocatedSearch ==
    ASSUME StateOK, StateOK', Located, NEW p \in SearchThreads, Search(p) \/ Eval(p)
    PROVE  Located'
<1> DEFINE X == Spots
           f == Content
           g == Content'
<1>0. Separate(X, f) /\ Elements(X, f) = outstanding  BY DEF Located
<1>a. ContentIs(Content, m_queue, spc, task, batch, todo, calls)
  BY ContentNow DEF StateOK
<1>b. ContentIs(Content', m_queue', spc', task', batch', todo', calls')
  BY ContentNext
<1>c. /\ spc \in [SearchThreads -> {"idle", "push", "notify", "await", "gone"}]
      /\ task \in [SearchThreads -> Tasks \cup {none}]
      /\ position \in [Tasks -> Positions \cup {none}]
      /\ promise \in [Tasks -> (Results \ {"timeout"}) \cup {none}]
      /\ \A t \in Tasks : promise[t] # none => position[t] # none
      /\ \A q \in SearchThreads : spc[q] \in {"push", "notify", "await"} => task[q] \in Tasks
  BY DEF StateOK, SearchOK, TasksOK
<1> USE DEF SearchGoto
<1>1. CASE EvalBegin(p)
  <2>0. PICK k \in config.positions, t \in config.tasks :
          /\ position[t] = none
          /\ position' = [position EXCEPT ![t] = k]
          /\ task' = [task EXCEPT ![p] = t]
    BY <1>1 DEF EvalBegin
  <2>1. k \in Positions /\ t \in Tasks /\ k # none
    BY ConfigFacts, PipelineAssumption DEF StateOK
  <2>2. /\ spc[p] = "idle" /\ spc' = [spc EXCEPT ![p] = "push"]
        /\ UNCHANGED <<promise, m_queue, batch, todo, calls>>
    BY <1>1 DEF EvalBegin, taskQueue, evalVars, callbackVars, clientVars
  <2>3. outstanding' = outstanding \cup {t} /\ t \notin outstanding
    BY <1>c, <2>0, <2>1, <2>2 DEF outstanding
  <2>4. /\ f \in [X -> Seq(Tasks)] /\ g \in [X -> Seq(Tasks)]
        /\ \A z \in X \ {PushSpot(p)} : g[z] = f[z]
    BY <1>c, <2>0, <2>1, <2>2, ContentFrame
  <2>5. PushSpot(p) \in X /\ f[PushSpot(p)] = <<>> /\ g[PushSpot(p)] = <<t>>
    BY <1>a, <1>b, <1>c, <2>0, <2>1, <2>2, SpotShapes DEF ContentIs
  <2> HIDE DEF X, f, g
  <2>6. PutsNew(X, Tasks, f, g, PushSpot(p), t)
    BY <1>0, <2>3, <2>4, <2>5 DEF PutsNew
  <2>7. Separate(X, g) /\ Elements(X, g) = Elements(X, f) \cup {t}
    BY <2>6, PutNew
  <2> QED  BY <1>0, <2>3, <2>7 DEF Located, X, f, g
<1>2. CASE EvalPush(p)
  <2>0. UNCHANGED <<position, promise, task, batch, todo, calls>>
    BY <1>2 DEF EvalPush, evalVars, callbackVars, clientVars
  <2>1. CASE SearchGoto(p, "push", "notify") /\ PushIn(p, task[p])
    <3>1. /\ spc[p] = "push" /\ spc' = [spc EXCEPT ![p] = "notify"]
          /\ m_queue' = Append(m_queue, task[p])
      BY <2>1 DEF PushIn
    <3>2. /\ f \in [X -> Seq(Tasks)] /\ g \in [X -> Seq(Tasks)]
          /\ \A z \in X \ {PushSpot(p), QueueSpot} : g[z] = f[z]
      BY <1>c, <2>0, <3>1, ContentFrame
    <3>3. /\ PushSpot(p) \in X /\ QueueSpot \in X /\ PushSpot(p) # QueueSpot
          /\ f[PushSpot(p)] = <<task[p]>> /\ g[PushSpot(p)] = <<>>
          /\ f[QueueSpot] = m_queue /\ g[QueueSpot] = m_queue'
      BY <1>a, <1>b, <1>c, <3>1, SpotShapes, SpotsDiffer DEF ContentIs
    <3>4. /\ f[PushSpot(p)] # <<>> /\ g[PushSpot(p)] = Tail(f[PushSpot(p)])
          /\ g[QueueSpot] = Append(f[QueueSpot], Head(f[PushSpot(p)]))
      BY <3>1, <3>3
    <3> HIDE DEF X, f, g
    <3>5. MovesToEnd(X, Tasks, f, g, PushSpot(p), QueueSpot)
      BY <1>0, <3>2, <3>3, <3>4 DEF MovesToEnd
    <3>6. Separate(X, g) /\ Elements(X, g) = Elements(X, f)
      BY <3>5, MoveToEnd
    <3> QED  BY <1>0, <2>0, <3>6 DEF Located, X, f, g, outstanding
  <2>2. CASE SearchGoto(p, "push", "push") /\ PushSleep(p)
    <3>1. /\ m_queue' = m_queue /\ outstanding' = outstanding
          /\ \A u \in SearchThreads : spc'[u] = spc[u]
      BY <1>c, <2>0, <2>2 DEF PushSleep, outstanding
    <3> QED  BY <2>0, <3>1, SameContent
  <2> QED  BY <1>2, <2>1, <2>2 DEF EvalPush
<1>3. CASE EvalPushed(p)
  <2>1. /\ UNCHANGED <<position, promise, m_queue, batch, todo, calls>>
        /\ spc[p] = "notify" /\ spc' = [spc EXCEPT ![p] = IF enable_async THEN "idle" ELSE "await"]
        /\ task' = [task EXCEPT ![p] = IF enable_async THEN none ELSE @]
    BY <1>3 DEF EvalPushed, PushNotify, evalVars, callbackVars, clientVars
  <2>2. /\ outstanding' = outstanding
        /\ \A u \in SearchThreads :
              /\ spc'[u] = "push" <=> spc[u] = "push"
              /\ spc[u] = "push" => task'[u] = task[u]
    BY <1>c, <2>1 DEF outstanding
  <2> QED  BY <2>1, <2>2, SameContent
<1>4. CASE EvalReturn(p)
  <2> DEFINE t == task[p]
  <2>1. /\ UNCHANGED <<m_queue, batch, todo, calls>>
        /\ spc[p] = "await" /\ spc' = [spc EXCEPT ![p] = "idle"]
        /\ promise[t] # none /\ position' = [position EXCEPT ![t] = none]
        /\ promise' = [promise EXCEPT ![t] = none]
        /\ task' = [task EXCEPT ![p] = none] /\ t \in Tasks
    BY <1>4, <1>c DEF EvalReturn, Evaluated, taskQueue, evalVars, callbackVars, clientVars
  <2> HIDE DEF t
  <2>2. /\ outstanding' = outstanding
        /\ \A u \in SearchThreads :
              /\ spc'[u] = "push" <=> spc[u] = "push"
              /\ spc[u] = "push" => task'[u] = task[u]
    BY <1>c, <2>1 DEF outstanding
  <2> QED  BY <2>1, <2>2, SameContent
<1>5. CASE SearchEnd(p)
  <2>1. /\ UNCHANGED <<position, promise, task, m_queue, batch, todo, calls>>
        /\ spc[p] = "idle" /\ spc' = [spc EXCEPT ![p] = "gone"]
    BY <1>5 DEF SearchEnd, taskQueue, evalVars, callbackVars, clientVars
  <2>2. /\ outstanding' = outstanding
        /\ \A u \in SearchThreads : spc'[u] = "push" <=> spc[u] = "push"
    BY <1>c, <2>1 DEF outstanding
  <2> QED  BY <2>1, <2>2, SameContent
<1> QED  BY <1>1, <1>2, <1>3, <1>4, <1>5 DEF Search, Eval

\* A batch that is being collected is not one of the batches that were sent.
LEMMA FreshCall ==
    ASSUME StateOK, Located, NEW e \in EvalThreads, batch[e] # <<>>
    PROVE  batch[e] \notin calls[e]
<1> DEFINE b == batch[e]
<1>1. ContentIs(Content, m_queue, spc, task, batch, todo, calls)
  BY ContentNow DEF StateOK
<1>2. b \in Seq(Tasks)  BY DEF StateOK, ModelsOK, EvalTypes
<1>3. Head(b) \in ToSet(b)  BY <1>2, TailElements
<1>4. SUFFICES ASSUME b \in calls[e]  PROVE FALSE  OBVIOUS
<1>5. /\ BatchSpot(e) \in Spots /\ CallSpot(e, b) \in Spots /\ BatchSpot(e) # CallSpot(e, b)
      /\ Content[BatchSpot(e)] = b /\ Content[CallSpot(e, b)] = b
  BY <1>1, <1>2, <1>4, SpotShapes, SpotsDiffer DEF ContentIs
<1> HIDE DEF b
<1> QED  BY <1>3, <1>5 DEF Located, Separate

\* The steps of an evaluation thread and of the callbacks move one task or one batch, or
\* answer one task.
LEMMA LocatedEval ==
    ASSUME StateOK, StateOK', Located, NEW e \in EvalThreads,
           EvalRoutine(e) \/ Complete(e) \/ Reenable(e) \/ Callback(e)
    PROVE  Located'
<1> DEFINE X == Spots
           f == Content
           g == Content'
<1>0. Separate(X, f) /\ Elements(X, f) = outstanding  BY DEF Located
<1>a. ContentIs(Content, m_queue, spc, task, batch, todo, calls)
  BY ContentNow DEF StateOK
<1>b. ContentIs(Content', m_queue', spc', task', batch', todo', calls')
  BY ContentNext
<1>c. /\ m_queue \in Seq(Tasks) /\ EvalTypes /\ EvalTypes' /\ EvalOK(e)
      /\ position \in [Tasks -> Positions \cup {none}]
      /\ promise \in [Tasks -> (Results \ {"timeout"}) \cup {none}]
  BY DEF StateOK, QueueOK, TasksOK, ModelsOK
<1> USE DEF EvalGoto, CompleteGoto, taskQueue, searchVars, evalVars, callbackVars, clientVars
<1>1. CASE BatchPop(e)
  <2>1. /\ m_queue # <<>> /\ m_queue' = Tail(m_queue)
        /\ batch' = [batch EXCEPT ![e] = Append(@, Head(m_queue))]
        /\ UNCHANGED <<spc, task, position, promise, todo, calls>>
    BY <1>1 DEF BatchPop, PopTake
  <2>2. /\ f \in [X -> Seq(Tasks)] /\ g \in [X -> Seq(Tasks)]
        /\ \A z \in X \ {QueueSpot, BatchSpot(e)} : g[z] = f[z]
    BY <1>c, <2>1, ContentFrame DEF EvalTypes
  <2>3. /\ QueueSpot \in X /\ BatchSpot(e) \in X /\ QueueSpot # BatchSpot(e)
        /\ f[QueueSpot] = m_queue /\ g[QueueSpot] = Tail(m_queue)
        /\ f[BatchSpot(e)] = batch[e] /\ g[BatchSpot(e)] = Append(batch[e], Head(m_queue))
    BY <1>a, <1>b, <1>c, <2>1, SpotShapes, SpotsDiffer DEF ContentIs, EvalTypes
  <2> HIDE DEF X, f, g
  <2>4. MovesToEnd(X, Tasks, f, g, QueueSpot, BatchSpot(e))
    BY <1>0, <2>1, <2>2, <2>3 DEF MovesToEnd
  <2>5. Separate(X, g) /\ Elements(X, g) = Elements(X, f)  BY <2>4, MoveToEnd
  <2> QED  BY <1>0, <2>1, <2>5 DEF Located, X, f, g, outstanding
<1>2. CASE Forward(e)
  <2>1. /\ cpc[e] \notin Answering /\ todo[e] = <<>>
        /\ todo' = [todo EXCEPT ![e] = batch[e]] /\ batch' = [batch EXCEPT ![e] = <<>>]
        /\ UNCHANGED <<m_queue, spc, task, position, promise, calls>>
    BY <1>2, <1>c DEF Forward, EvalOK
  <2>2. /\ f \in [X -> Seq(Tasks)] /\ g \in [X -> Seq(Tasks)]
        /\ \A z \in X \ {BatchSpot(e), TodoSpot(e)} : g[z] = f[z]
    BY <1>c, <2>1, ContentFrame DEF EvalTypes
  <2>3. /\ TodoSpot(e) \in X /\ BatchSpot(e) \in X /\ BatchSpot(e) # TodoSpot(e)
        /\ f[TodoSpot(e)] = <<>> /\ g[TodoSpot(e)] = batch[e]
        /\ f[BatchSpot(e)] = batch[e] /\ g[BatchSpot(e)] = <<>>
    BY <1>a, <1>b, <1>c, <2>1, SpotShapes, SpotsDiffer DEF ContentIs, EvalTypes
  <2> HIDE DEF X, f, g
  <2>4. MovesAll(X, Tasks, f, g, BatchSpot(e), TodoSpot(e))
    BY <1>0, <2>2, <2>3 DEF MovesAll
  <2>5. Separate(X, g) /\ Elements(X, g) = Elements(X, f)  BY <2>4, MoveAll
  <2> QED  BY <1>0, <2>1, <2>5 DEF Located, X, f, g, outstanding
<1>3. CASE AsyncForward(e)
  <2> DEFINE b == batch[e]
  <2>1. /\ b \in Seq(Tasks) /\ b # <<>>
        /\ calls' = [calls EXCEPT ![e] = @ \cup {b}] /\ batch' = [batch EXCEPT ![e] = <<>>]
        /\ UNCHANGED <<m_queue, spc, task, position, promise, todo>>
    BY <1>3, <1>c DEF AsyncForward, EvalOK, EvalTypes
  <2> HIDE DEF b
  <2>2. /\ f \in [X -> Seq(Tasks)] /\ g \in [X -> Seq(Tasks)]
        /\ \A z \in X \ {BatchSpot(e), CallSpot(e, b)} : g[z] = f[z]
    <3>1. /\ \A u \in EvalThreads : BatchSpot(u) \in {BatchSpot(e), CallSpot(e, b)}
                                      \/ batch'[u] = batch[u]
          /\ \A u \in EvalThreads : \A c \in Seq(Tasks) :
                CallSpot(u, c) \in {BatchSpot(e), CallSpot(e, b)}
                  \/ (c \in calls'[u] <=> c \in calls[u])
      BY <1>c, <2>1 DEF EvalTypes
    <3> QED  BY <2>1, <3>1, ContentFrame
  <2>3. batch[e] = b /\ b \notin calls[e]  BY <2>1, FreshCall DEF b
  <2>4. /\ CallSpot(e, b) \in X /\ BatchSpot(e) \in X /\ BatchSpot(e) # CallSpot(e, b)
        /\ f[CallSpot(e, b)] = <<>> /\ g[CallSpot(e, b)] = b
        /\ f[BatchSpot(e)] = b /\ g[BatchSpot(e)] = <<>>
    BY <1>a, <1>b, <1>c, <2>1, <2>3, SpotShapes, SpotsDiffer DEF ContentIs, EvalTypes
  <2> HIDE DEF X, f, g
  <2>5. MovesAll(X, Tasks, f, g, BatchSpot(e), CallSpot(e, b))
    BY <1>0, <2>2, <2>4 DEF MovesAll
  <2>6. Separate(X, g) /\ Elements(X, g) = Elements(X, f)  BY <2>5, MoveAll
  <2> QED  BY <1>0, <2>1, <2>6 DEF Located, X, f, g, outstanding
<1>4. CASE CompleteNext(e)
  <2>0. PICK b \in calls[e] : /\ calls' = [calls EXCEPT ![e] = @ \ {b}]
                              /\ todo' = [todo EXCEPT ![e] = b]
    BY <1>4 DEF CompleteNext
  <2>1. /\ b \in Seq(Tasks) /\ todo[e] = <<>>
        /\ UNCHANGED <<m_queue, spc, task, position, promise, batch>>
    BY <1>4, <1>c DEF CompleteNext, EvalOK, Answering, EvalTypes
  <2>2. /\ f \in [X -> Seq(Tasks)] /\ g \in [X -> Seq(Tasks)]
        /\ \A z \in X \ {CallSpot(e, b), TodoSpot(e)} : g[z] = f[z]
    <3>1. /\ \A u \in EvalThreads : TodoSpot(u) \in {CallSpot(e, b), TodoSpot(e)}
                                      \/ todo'[u] = todo[u]
          /\ \A u \in EvalThreads : \A c \in Seq(Tasks) :
                CallSpot(u, c) \in {CallSpot(e, b), TodoSpot(e)}
                  \/ (c \in calls'[u] <=> c \in calls[u])
      BY <1>c, <2>0, <2>1 DEF EvalTypes
    <3> QED  BY <2>1, <3>1, ContentFrame
  <2>4. /\ CallSpot(e, b) \in X /\ TodoSpot(e) \in X /\ CallSpot(e, b) # TodoSpot(e)
        /\ f[CallSpot(e, b)] = b /\ g[CallSpot(e, b)] = <<>>
        /\ f[TodoSpot(e)] = <<>> /\ g[TodoSpot(e)] = b
    BY <1>a, <1>b, <1>c, <2>0, <2>1, SpotShapes, SpotsDiffer DEF ContentIs, EvalTypes
  <2> HIDE DEF X, f, g
  <2>5. MovesAll(X, Tasks, f, g, CallSpot(e, b), TodoSpot(e))
    BY <1>0, <2>2, <2>4 DEF MovesAll
  <2>6. Separate(X, g) /\ Elements(X, g) = Elements(X, f)  BY <2>5, MoveAll
  <2> QED  BY <1>0, <2>1, <2>6 DEF Located, X, f, g, outstanding
<1>5. CASE Requeue(e)
  <2>1. /\ todo[e] # <<>> /\ m_queue' = <<Head(todo[e])>> \o m_queue
        /\ todo' = [todo EXCEPT ![e] = Tail(@)]
        /\ UNCHANGED <<spc, task, position, promise, batch, calls>>
    BY <1>5 DEF Requeue, PushFront
  <2>2. /\ f \in [X -> Seq(Tasks)] /\ g \in [X -> Seq(Tasks)]
        /\ \A z \in X \ {TodoSpot(e), QueueSpot} : g[z] = f[z]
    BY <1>c, <2>1, ContentFrame DEF EvalTypes
  <2>3. /\ QueueSpot \in X /\ TodoSpot(e) \in X /\ TodoSpot(e) # QueueSpot
        /\ f[QueueSpot] = m_queue /\ g[QueueSpot] = <<Head(todo[e])>> \o m_queue
        /\ f[TodoSpot(e)] = todo[e] /\ g[TodoSpot(e)] = Tail(todo[e])
    BY <1>a, <1>b, <1>c, <2>1, SpotShapes, SpotsDiffer DEF ContentIs, EvalTypes
  <2> HIDE DEF X, f, g
  <2>4. MovesToFront(X, Tasks, f, g, TodoSpot(e), QueueSpot)
    BY <1>0, <2>1, <2>2, <2>3 DEF MovesToFront
  <2>5. Separate(X, g) /\ Elements(X, g) = Elements(X, f)  BY <2>4, MoveToFront
  <2> QED  BY <1>0, <2>1, <2>5 DEF Located, X, f, g, outstanding
<1>6. CASE Answer(e)
  <2> DEFINE t == Head(todo[e])
  <2>1. /\ todo[e] # <<>> /\ todo' = [todo EXCEPT ![e] = Tail(@)]
        /\ CallTask(t, ret[e]) /\ cpc[e] = "callback"
        /\ UNCHANGED <<m_queue, spc, task, batch, calls>>
    BY <1>6 DEF Answer
  <2>2. t \in Tasks /\ position[t] # none /\ promise[t] = none /\ ret[e] # none
    BY <2>1, <1>c, HeadOutstanding, PipelineAssumption
       DEF StateOK, TasksOK, EvalOK, Answering
  <2>3. outstanding' = outstanding \ {t}
    <3> HIDE DEF t
    <3>1. \/ position' = [position EXCEPT ![t] = none] /\ promise' = promise
          \/ promise' = [promise EXCEPT ![t] = ret[e]] /\ position' = position
      BY <2>1 DEF CallTask, Evaluated
    <3>2. ASSUME NEW u \in Tasks  PROVE u \in outstanding' <=> u \in outstanding /\ u # t
      BY <3>1, <2>2, <1>c DEF outstanding
    <3> QED  BY <3>2 DEF outstanding
  <2>4. /\ f \in [X -> Seq(Tasks)] /\ g \in [X -> Seq(Tasks)]
        /\ \A z \in X \ {TodoSpot(e)} : g[z] = f[z]
    BY <1>c, <2>1, ContentFrame DEF EvalTypes
  <2>5. TodoSpot(e) \in X /\ f[TodoSpot(e)] = todo[e] /\ g[TodoSpot(e)] = Tail(todo[e])
    BY <1>a, <1>b, <1>c, <2>1, SpotShapes DEF ContentIs, EvalTypes
  <2> HIDE DEF X, f, g
  <2>6. DropsFirst(X, Tasks, f, g, TodoSpot(e))
    BY <1>0, <2>1, <2>4, <2>5 DEF DropsFirst
  <2>7. Separate(X, g) /\ Elements(X, g) = Elements(X, f) \ {t}  BY <2>5, <2>6, DropFirst
  <2> QED  BY <1>0, <2>3, <2>7 DEF Located, X, f, g
<1>7. CASE \/ ModelWait(e) \/ BatchPopped(e) \/ BatchWait(e) \/ BatchTimeout(e) \/ BatchEnd(e)
           \/ BatchClosed(e) \/ ForwardReturns(e) \/ DestroyModel(e)
           \/ JoinComplete(e) \/ StubsReleased(e)
  <2>1. UNCHANGED <<m_queue, spc, task, position, promise, todo, calls>>
    BY <1>7 DEF ModelWait, BatchPopped, PopNotify, BatchWait, PopSleep, BatchTimeout,
       PopTimeout, BatchEnd, BatchClosed, PopClosed, ForwardReturns, DestroyModel, JoinComplete,
       StubsReleased
  <2>2. batch' = batch
    <3>1. CASE ModelWait(e)  BY <3>1, <1>c DEF ModelWait, EvalOK, EvalTypes
    <3>2. CASE ~ModelWait(e)
      BY <1>7, <3>2 DEF BatchPopped, BatchWait, BatchTimeout, BatchEnd, BatchClosed,
         ForwardReturns, DestroyModel, JoinComplete, StubsReleased
    <3> QED  BY <3>1, <3>2
  <2> QED  BY <2>1, <2>2, SameContent DEF outstanding
<1>8. CASE CompleteTest(e) \/ CompleteDrained(e) \/ Reenable(e) \/ RequeueNotify(e) \/ CallbackEnd(e)
  <2>1. UNCHANGED <<m_queue, spc, task, position, promise, batch, todo, calls>>
    BY <1>8 DEF CompleteTest, CompleteDrained, Reenable, RequeueNotify, PushNotify, CallbackEnd
  <2> QED  BY <2>1, SameContent DEF outstanding
<1> QED
  BY <1>1, <1>2, <1>3, <1>4, <1>5, <1>6, <1>7, <1>8 DEF EvalRoutine, Complete, Callback

-----------------------------------------------------------------------------
(* How many tasks there are in the queue and the batches.                  *)

\* What an evaluation thread has popped and neither answered nor put back.
Popped(e) == ToSet(batch[e]) \cup ToSet(todo[e]) \cup UNION {ToSet(b) : b \in calls[e]}

\* The tasks that search threads still have to push.
BeingPushed == {task[p] : p \in {u \in SearchThreads : spc[u] = "push"}}

BatchesAtOnce == IF enable_async THEN NumStubs + 1 ELSE 1

\* The tasks pushed and not answered.
TasksBounded ==
    capacity > 0 =>
        Cardinality(outstanding \ BeingPushed)
            <= capacity + Cardinality(config.eval) * (eval_batch_size * BatchesAtOnce)

\* A thread has as many tasks as go into the batches it has with its model, and in
\* synchronous mode it has one batch at a time.
LEMMA PoppedBound ==
    ASSUME ModelsOK, NEW e \in EvalThreads
    PROVE  IsFiniteSet(Popped(e)) /\ Cardinality(Popped(e)) <= eval_batch_size * BatchesAtOnce
<1> DEFINE bs == eval_batch_size
           U == UNION {ToSet(b) : b \in calls[e]}
           k == Cardinality(calls[e])
<1>1. /\ batch[e] \in Seq(Tasks) /\ todo[e] \in Seq(Tasks) /\ calls[e] \subseteq Seq(Tasks)
      /\ EvalOK(e) /\ SizesOK(e) /\ avail[e] \in Nat /\ disabled[e] \in Nat
  BY DEF ModelsOK, EvalTypes
<1>2. bs \in Nat \ {0} /\ NumStubs \in Nat \ {0} /\ enable_async \in BOOLEAN  BY ConfigFacts
<1>3. /\ IsFiniteSet(ToSet(batch[e])) /\ Cardinality(ToSet(batch[e])) \in Nat
      /\ Cardinality(ToSet(batch[e])) <= bs /\ (batch[e] = <<>> => ToSet(batch[e]) = {})
      /\ IsFiniteSet(ToSet(todo[e])) /\ Cardinality(ToSet(todo[e])) \in Nat
      /\ Cardinality(ToSet(todo[e])) <= bs /\ (todo[e] = <<>> => ToSet(todo[e]) = {})
  <2>1. ASSUME NEW s \in Seq(Tasks), Len(s) <= bs
        PROVE  /\ IsFiniteSet(ToSet(s)) /\ Cardinality(ToSet(s)) \in Nat
               /\ Cardinality(ToSet(s)) <= bs /\ (s = <<>> => ToSet(s) = {})
    BY <2>1, <1>2, SeqCardinality, SeqElements
  <2> QED  BY <1>1, <2>1 DEF SizesOK
<1>4. IsFiniteSet(calls[e]) /\ k \in Nat  BY <1>1, FS_CardinalityType DEF EvalOK
<1>5. IsFiniteSet(U) /\ Cardinality(U) \in Nat /\ Cardinality(U) <= k * bs
  <2> DEFINE f == [b \in calls[e] |-> ToSet(b)]
  <2>1. ASSUME NEW b \in calls[e]
        PROVE  IsFiniteSet(f[b]) /\ Cardinality(f[b]) <= bs
    <3>1. b \in Seq(Tasks) /\ Len(b) <= bs  BY <1>1 DEF SizesOK
    <3> QED  BY <3>1, <1>2, SeqCardinality
  <2>2. U = UNION {f[b] : b \in calls[e]}  OBVIOUS
  <2> HIDE DEF f, U
  <2>3. IsFiniteSet(U) /\ Cardinality(U) <= k * bs
    BY <1>2, <1>4, <2>1, <2>2, UnionBound
  <2> QED  BY <2>3, FS_CardinalityType
<1>6. U = {} \/ k >= 1
  BY <1>4, FS_EmptySet
<1> DEFINE V == ToSet(batch[e]) \cup ToSet(todo[e])
<1>7. /\ IsFiniteSet(V) /\ Cardinality(V) \in Nat
      /\ Cardinality(V) <= Cardinality(ToSet(batch[e])) + Cardinality(ToSet(todo[e]))
  BY <1>3, TwoBound
<1>8. /\ IsFiniteSet(V \cup U) /\ Cardinality(V \cup U) \in Nat
      /\ Cardinality(V \cup U) <= Cardinality(V) + Cardinality(U)
  <2> HIDE DEF V, U
  <2> QED  BY <1>5, <1>7, TwoBound
<1>9. Popped(e) = V \cup U  BY DEF Popped
<1>10. CASE ~enable_async
  <2>1. U = {} /\ (batch[e] = <<>> \/ todo[e] = <<>>)  BY <1>1, <1>10 DEF EvalOK
  <2>2. Cardinality(V) <= bs  BY <1>2, <1>3, <1>7, <2>1
  <2>3. Popped(e) = V  BY <1>9, <2>1
  <2> QED  BY <1>2, <1>7, <1>10, <2>2, <2>3 DEF BatchesAtOnce
<1>11. CASE enable_async
  <2>1. k <= NumStubs /\ (batch[e] # <<>> => k <= NumStubs - 1)
    BY <1>1, <1>2, <1>4, <1>11 DEF EvalOK
  <2>2. BatchesAtOnce = NumStubs + 1  BY <1>11 DEF BatchesAtOnce
  <2>3. bs * (NumStubs + 1) = NumStubs * bs + bs  BY <1>2
  <2>4. CASE batch[e] # <<>>
    <3>1. k <= NumStubs - 1 /\ NumStubs - 1 \in Nat  BY <1>2, <2>1, <2>4
    <3>2. k * bs <= (NumStubs - 1) * bs /\ k * bs \in Nat  BY <1>2, <1>4, <3>1, TimesMonotone
    <3>3. (NumStubs - 1) * bs = NumStubs * bs - bs /\ NumStubs * bs \in Nat  BY <1>2
    <3> HIDE DEF bs, U, V, k
    <3>4. Cardinality(V) <= bs + bs  BY <1>2, <1>3, <1>7
    <3>5. Cardinality(U) <= (NumStubs - 1) * bs  BY <1>2, <1>4, <1>5, <3>2, <3>3
    <3>6. Cardinality(V \cup U) <= NumStubs * bs + bs
      BY <1>2, <1>5, <1>7, <1>8, <3>3, <3>4, <3>5
    <3>7. Cardinality(V \cup U) <= bs * BatchesAtOnce  BY <2>2, <2>3, <3>6
    <3> QED  BY <1>8, <1>9, <3>7 DEF bs
  <2>5. CASE batch[e] = <<>>
    <3>1. k * bs <= NumStubs * bs /\ k * bs \in Nat  BY <1>2, <1>4, <2>1, TimesMonotone
    <3>2. NumStubs * bs \in Nat  BY <1>2
    <3>3. Cardinality(ToSet(batch[e])) = 0  BY <1>3, <2>5, FS_EmptySet
    <3> HIDE DEF bs, U, V, k
    <3>4. Cardinality(V) <= bs  BY <1>2, <1>3, <1>7, <3>3
    <3>5. Cardinality(U) <= NumStubs * bs  BY <1>2, <1>4, <1>5, <3>1, <3>2
    <3>6. Cardinality(V \cup U) <= NumStubs * bs + bs
      BY <1>2, <1>5, <1>7, <1>8, <3>2, <3>4, <3>5
    <3>7. Cardinality(V \cup U) <= bs * BatchesAtOnce  BY <2>2, <2>3, <3>6
    <3> QED  BY <1>8, <1>9, <3>7 DEF bs
  <2> QED  BY <2>4, <2>5
<1> QED  BY <1>2, <1>10, <1>11

\* What is pushed and not answered is in the queue or with an evaluation thread.
LEMMA WhereTasksAre ==
    ASSUME StateOK, Located
    PROVE  /\ outstanding \ BeingPushed
                \subseteq ToSet(m_queue) \cup UNION {Popped(e) : e \in config.eval}
           /\ ToSet(m_queue) \subseteq outstanding \ BeingPushed
           /\ NoDuplicates(m_queue)
<1>1. ContentIs(Content, m_queue, spc, task, batch, todo, calls)
  BY ContentNow DEF StateOK
<1>2. /\ Content[QueueSpot] = m_queue /\ QueueSpot \in Spots
      /\ \A p \in SearchThreads : PushSpot(p) \in Spots /\ PushSpot(p) # QueueSpot
      /\ \A p \in SearchThreads : spc[p] = "push" => Content[PushSpot(p)] = <<task[p]>>
  BY <1>1, SpotShapes, SpotsDiffer DEF ContentIs
<1>3. /\ \A z \in Spots : NoDuplicates(Content[z])
      /\ \A u, v \in Spots : \A a : a \in ToSet(Content[u]) /\ a \in ToSet(Content[v]) => u = v
      /\ \A t : t \in outstanding <=> \E z \in Spots : t \in ToSet(Content[z])
  BY DEF Located, Separate, Elements
<1>4. ASSUME NEW t \in outstanding \ BeingPushed
      PROVE  t \in ToSet(m_queue) \cup UNION {Popped(e) : e \in config.eval}
  <2>1. PICK z \in Spots : t \in ToSet(Content[z])  BY <1>3
  <2>2. ASSUME NEW e \in EvalThreads, t \in Popped(e)
        PROVE  t \in UNION {Popped(u) : u \in config.eval}
    <3>1. e \in config.eval
      <4>1. ASSUME e \notin config.eval  PROVE Popped(e) = {}
        <5>1. batch[e] = <<>> /\ todo[e] = <<>> /\ calls[e] = {}
          BY <4>1 DEF StateOK, ModelsOK, EvalOK
        <5> QED  BY <5>1, EmptyElements DEF Popped
      <4> QED  BY <2>2, <4>1
    <3> QED  BY <2>2, <3>1
  <2>3. CASE z = QueueSpot  BY <2>1, <2>3, <1>2
  <2>4. ASSUME NEW p \in SearchThreads, z = PushSpot(p)  PROVE FALSE
    <3>1. Content[z] = IF spc[p] = "push" THEN <<task[p]>> ELSE <<>>
      BY <1>1, <2>4 DEF ContentIs
    <3>2. ToSet(<<task[p]>>) = {task[p]}  BY DEF ToSet
    <3>3. spc[p] = "push" /\ t = task[p]  BY <2>1, <3>1, <3>2, EmptyElements
    <3> QED  BY <1>4, <3>3 DEF BeingPushed
  <2>5. ASSUME NEW e \in EvalThreads, z = BatchSpot(e) \/ z = TodoSpot(e)
        PROVE  t \in UNION {Popped(u) : u \in config.eval}
    <3>1. Content[z] = batch[e] \/ Content[z] = todo[e]  BY <1>1, <2>5 DEF ContentIs
    <3>2. t \in Popped(e)  BY <2>1, <3>1 DEF Popped
    <3> QED  BY <2>2, <3>2
  <2>6. ASSUME NEW e \in EvalThreads, NEW b \in Seq(Tasks), z = CallSpot(e, b)
        PROVE  t \in UNION {Popped(u) : u \in config.eval}
    <3>1. Content[z] = IF b \in calls[e] THEN b ELSE <<>>  BY <1>1, <2>6 DEF ContentIs
    <3>2. b \in calls[e] /\ t \in ToSet(b)  BY <2>1, <3>1, EmptyElements
    <3>3. t \in Popped(e)  BY <3>2 DEF Popped
    <3> QED  BY <2>2, <3>3
  <2> QED  BY <2>3, <2>4, <2>5, <2>6, SpotShapes
<1>5. ASSUME NEW t \in ToSet(m_queue)  PROVE t \in outstanding \ BeingPushed
  <2>1. t \in outstanding  BY <1>2, <1>3, <1>5
  <2>2. ASSUME NEW p \in SearchThreads, spc[p] = "push", t = task[p]  PROVE FALSE
    <3>1. ToSet(<<task[p]>>) = {task[p]}  BY DEF ToSet
    <3>2. t \in ToSet(Content[PushSpot(p)])  BY <1>2, <2>2, <3>1
    <3> QED  BY <1>2, <1>3, <1>5, <3>2
  <2> QED  BY <2>1, <2>2 DEF BeingPushed
<1> QED  BY <1>2, <1>3, <1>4, <1>5

\* All that is popped fits into the batches that there can be.
LEMMA AllPopped ==
    ASSUME ModelsOK
    PROVE  /\ IsFiniteSet(UNION {Popped(e) : e \in config.eval})
           /\ Cardinality(UNION {Popped(e) : e \in config.eval})
                <= Cardinality(config.eval) * (eval_batch_size * BatchesAtOnce)
<1>1. IsFiniteSet(config.eval)
  <2>1. config.eval \subseteq EvalThreads /\ IsFiniteSet(EvalThreads)
    BY ConfigFacts, PipelineAssumption
  <2> QED  BY <2>1, FS_Subset
<1> DEFINE f == [e \in config.eval |-> Popped(e)]
           m == eval_batch_size * BatchesAtOnce
           I == config.eval
<1>2. m \in Nat  BY ConfigFacts DEF BatchesAtOnce
<1>3. \A e \in I : IsFiniteSet(f[e]) /\ Cardinality(f[e]) <= m
  BY ConfigFacts, PoppedBound
<1>4. UNION {Popped(e) : e \in config.eval} = UNION {f[e] : e \in I}  OBVIOUS
<1> HIDE DEF f, m, I
<1>5. /\ IsFiniteSet(UNION {f[e] : e \in I})
      /\ Cardinality(UNION {f[e] : e \in I}) <= Cardinality(I) * m
  BY <1>1, <1>2, <1>3, UnionBound DEF I
<1> QED  BY <1>4, <1>5 DEF m, I

\* There are finitely many tasks.
LEMMA FiniteOutstanding ==
    IsFiniteSet(outstanding \ BeingPushed) /\ Cardinality(outstanding \ BeingPushed) \in Nat
<1>1. IsFiniteSet(Tasks)  BY FS_Interval, PipelineAssumption DEF Tasks
<1>2. outstanding \ BeingPushed \in SUBSET Tasks  BY DEF outstanding
<1> QED  BY <1>1, <1>2, FS_Subset, FS_CardinalityType

\* Only a Push that finds room adds to the tasks pushed and not answered.
LEMMA PushKeepsBound ==
    ASSUME StateOK, StateOK', Located, NEW p \in SearchThreads,
           EvalPush(p), PushIn(p, task[p])
    PROVE  TasksBounded'
<1> DEFINE L == outstanding \ BeingPushed
           H == UNION {Popped(e) : e \in config.eval}
           Q == ToSet(m_queue)
           R == ToSet(m_queue')
           bound == Cardinality(config.eval) * (eval_batch_size * BatchesAtOnce)
<1>1. /\ spc[p] = "push" /\ task[p] \in Tasks /\ m_queue \in Seq(Tasks)
      /\ UNCHANGED <<task, position, promise, config, batch, todo, calls>>
      /\ \A u \in SearchThreads : u # p => spc'[u] = spc[u]
      /\ m_queue' = Append(m_queue, task[p])
  BY DEF EvalPush, PushIn, SearchGoto, StateOK, SearchOK, QueueOK, evalVars, callbackVars,
         clientVars
<1>2. SUFFICES ASSUME capacity > 0  PROVE Cardinality(L') <= capacity + bound
  BY <1>1 DEF TasksBounded, BatchesAtOnce, enable_async, eval_batch_size, NumStubs
<1>3. /\ R = Q \cup {task[p]} /\ m_queue' \in Seq(Tasks) /\ Len(m_queue') <= capacity
  <2>1. Len(m_queue) < capacity /\ Len(m_queue) \in Nat  BY <1>1, <1>2 DEF PushIn, Room
  <2>2. R = Q \cup {task[p]} /\ m_queue' \in Seq(Tasks) /\ Len(m_queue') = Len(m_queue) + 1
    BY <1>1, AppendElements
  <2> QED  BY <2>1, <2>2, CapacityAssumption
<1>4. IsFiniteSet(R) /\ Cardinality(R) \in Nat /\ Cardinality(R) <= capacity
  <2>1. /\ IsFiniteSet(R) /\ Cardinality(R) <= Len(m_queue') /\ Cardinality(R) \in Nat
        /\ Len(m_queue') \in Nat
    <3>1. ASSUME NEW s \in Seq(Tasks)
          PROVE  /\ IsFiniteSet(ToSet(s)) /\ Cardinality(ToSet(s)) <= Len(s)
                 /\ Cardinality(ToSet(s)) \in Nat /\ Len(s) \in Nat
      BY SeqCardinality
    <3> QED  BY <1>3, <3>1
  <2> QED  BY <1>3, <2>1, CapacityAssumption
<1>5. L' \subseteq R \cup H
  <2>1. L \subseteq Q \cup H  BY WhereTasksAre
  <2>2. outstanding' = outstanding  BY <1>1 DEF outstanding
  <2>3. BeingPushed \subseteq BeingPushed' \cup {task[p]}  BY <1>1 DEF BeingPushed
  <2> QED  BY <1>3, <2>1, <2>2, <2>3
<1>6. /\ IsFiniteSet(H) /\ Cardinality(H) <= bound /\ Cardinality(H) \in Nat /\ bound \in Nat
  <2>1. IsFiniteSet(H) /\ Cardinality(H) <= bound  BY AllPopped DEF StateOK
  <2>2. Cardinality(config.eval) \in Nat /\ eval_batch_size \in Nat /\ BatchesAtOnce \in Nat
    <3>1. config.eval \subseteq EvalThreads /\ IsFiniteSet(EvalThreads)
      BY ConfigFacts, PipelineAssumption DEF StateOK
    <3>2. IsFiniteSet(config.eval)  BY <3>1, FS_Subset
    <3> QED  BY <3>2, ConfigFacts, FS_CardinalityType DEF StateOK, BatchesAtOnce
  <2>3. bound \in Nat  BY <2>2
  <2> QED  BY <2>1, <2>3, FS_CardinalityType
<1> HIDE DEF L, H, Q, R, bound
<1>7. /\ IsFiniteSet(R \cup H) /\ Cardinality(R \cup H) \in Nat
      /\ Cardinality(R \cup H) <= Cardinality(R) + Cardinality(H)
  BY <1>4, <1>6, TwoBound
<1>8. Cardinality(L') <= Cardinality(R \cup H) /\ Cardinality(L') \in Nat
  <2>1. L' \in SUBSET (R \cup H)  BY <1>5
  <2> QED  BY <1>7, <2>1, FS_Subset, FS_CardinalityType
<1> QED  BY <1>4, <1>6, <1>7, <1>8, CapacityAssumption

\* No other step adds to them.
LEMMA BoundKept ==
    ASSUME StateOK, StateOK', Located, TasksBounded, Next \/ UNCHANGED vars
    PROVE  TasksBounded'
<1> DEFINE L == outstanding \ BeingPushed
<1>c. /\ spc \in [SearchThreads -> {"idle", "push", "notify", "await", "gone"}]
      /\ task \in [SearchThreads -> Tasks \cup {none}]
      /\ position \in [Tasks -> Positions \cup {none}]
      /\ promise \in [Tasks -> (Results \ {"timeout"}) \cup {none}]
      /\ \A t \in Tasks : promise[t] # none => position[t] # none
      /\ \A q \in SearchThreads : spc[q] \in {"push", "notify", "await"} => task[q] \in Tasks
  BY DEF StateOK, SearchOK, TasksOK
<1>1. ASSUME L' \subseteq L, config' = config  PROVE TasksBounded'
  <2>1. L' \in SUBSET L /\ IsFiniteSet(L) /\ Cardinality(L) \in Nat
    BY <1>1, FiniteOutstanding
  <2> HIDE DEF L
  <2>2. Cardinality(L') <= Cardinality(L) /\ Cardinality(L') \in Nat
    BY <2>1, FS_Subset, FS_CardinalityType
  <2>3. capacity > 0 => Cardinality(L) <= capacity
                          + Cardinality(config.eval) * (eval_batch_size * BatchesAtOnce)
    BY DEF TasksBounded, L
  <2>4. UNCHANGED <<eval_batch_size, BatchesAtOnce>>
    BY <1>1 DEF BatchesAtOnce, enable_async, eval_batch_size, NumStubs
  <2>5. Cardinality(config.eval) * (eval_batch_size * BatchesAtOnce) \in Nat
    <3>1. config.eval \subseteq EvalThreads /\ IsFiniteSet(EvalThreads)
      BY ConfigFacts, PipelineAssumption DEF StateOK
    <3>2. IsFiniteSet(config.eval)  BY <3>1, FS_Subset
    <3>3. Cardinality(config.eval) \in Nat /\ eval_batch_size \in Nat /\ BatchesAtOnce \in Nat
      BY <3>2, ConfigFacts, FS_CardinalityType DEF StateOK, BatchesAtOnce
    <3> QED  BY <3>3
  <2>6. capacity > 0 => Cardinality(L') <= capacity
                          + Cardinality(config.eval) * (eval_batch_size * BatchesAtOnce)
    BY <2>1, <2>2, <2>3, <2>5, CapacityAssumption
  <2> QED  BY <1>1, <2>4, <2>6 DEF TasksBounded, L
<1> USE DEF SearchGoto
<1>2. ASSUME NEW p \in SearchThreads, EvalBegin(p)  PROVE L' \subseteq L /\ config' = config
  <2>0. PICK t \in config.tasks :
          /\ \A u \in Tasks : u # t => position'[u] = position[u]
          /\ task' = [task EXCEPT ![p] = t]
    BY <1>2, <1>c DEF EvalBegin
  <2>1. /\ spc[p] = "idle" /\ spc' = [spc EXCEPT ![p] = "push"] /\ UNCHANGED <<promise, config>>
    BY <1>2 DEF EvalBegin
  <2>2. outstanding' \subseteq outstanding \cup {t}  BY <2>0, <2>1 DEF outstanding
  <2>3. BeingPushed' = BeingPushed \cup {t}  BY <1>c, <2>0, <2>1 DEF BeingPushed
  <2> QED  BY <2>1, <2>2, <2>3
<1>3. ASSUME NEW p \in SearchThreads, EvalPushed(p) \/ SearchEnd(p)
                                        \/ (EvalPush(p) /\ PushSleep(p) /\ spc' = spc)
      PROVE  L' \subseteq L /\ config' = config
  <2>1. UNCHANGED <<position, promise, config>>  BY <1>3 DEF EvalPushed, SearchEnd, EvalPush
  <2>2. \A u \in SearchThreads : /\ spc'[u] = "push" <=> spc[u] = "push"
                                 /\ spc[u] = "push" => task'[u] = task[u]
    BY <1>3, <1>c DEF EvalPushed, SearchEnd, EvalPush
  <2>3. BeingPushed' = BeingPushed  BY <2>2 DEF BeingPushed
  <2> QED  BY <2>1, <2>3 DEF outstanding
<1>4. ASSUME NEW p \in SearchThreads, EvalReturn(p)  PROVE L' \subseteq L /\ config' = config
  <2> DEFINE t == task[p]
  <2>1. /\ spc[p] = "await" /\ spc' = [spc EXCEPT ![p] = "idle"] /\ config' = config
        /\ position' = [position EXCEPT ![t] = none]
        /\ promise' = [promise EXCEPT ![t] = none]
        /\ task' = [task EXCEPT ![p] = none] /\ t \in Tasks
    BY <1>4, <1>c DEF EvalReturn, Evaluated
  <2> HIDE DEF t
  <2>2. \A u \in SearchThreads : /\ spc'[u] = "push" <=> spc[u] = "push"
                                 /\ spc[u] = "push" => task'[u] = task[u]
    BY <2>1, <1>c
  <2>3. BeingPushed' = BeingPushed  BY <2>2 DEF BeingPushed
  <2>4. outstanding' \subseteq outstanding  BY <1>c, <2>1 DEF outstanding
  <2> QED  BY <2>1, <2>3, <2>4
<1>5. ASSUME NEW e \in EvalThreads, EvalRoutine(e) \/ Complete(e) \/ Reenable(e) \/ Callback(e)
      PROVE  L' \subseteq L /\ config' = config
  <2>1. CASE Answer(e)
    <3> DEFINE t == Head(todo[e])
    <3>1. CallTask(t, ret[e]) /\ UNCHANGED <<config, spc, task>> /\ todo[e] # <<>>
          /\ cpc[e] = "callback"
      BY <2>1 DEF Answer, CompleteGoto
    <3>2. t \in Tasks /\ ret[e] # none
      BY <3>1, HeadOutstanding DEF StateOK, ModelsOK, EvalOK, Answering
    <3> HIDE DEF t
    <3>3. \/ position' = [position EXCEPT ![t] = none] /\ promise' = promise
          \/ promise' = [promise EXCEPT ![t] = ret[e]] /\ position' = position
      BY <3>1 DEF CallTask, Evaluated
    <3>4. outstanding' \subseteq outstanding  BY <1>c, <3>2, <3>3 DEF outstanding
    <3> QED  BY <3>1, <3>4 DEF BeingPushed
  <2>2. CASE ~Answer(e)
    <3>1. UNCHANGED <<config, spc, task, position, promise>>
      BY <1>5, <2>2 DEF EvalRoutine, ModelWait, BatchPop, BatchPopped, BatchWait, BatchTimeout,
         BatchEnd, BatchClosed, Forward, ForwardReturns, AsyncForward, DestroyModel,
         JoinComplete, StubsReleased, Complete, CompleteTest, CompleteDrained, CompleteNext,
         Reenable, Callback, Requeue, RequeueNotify, CallbackEnd, searchVars
    <3> QED  BY <3>1 DEF outstanding, BeingPushed
  <2> QED  BY <2>1, <2>2
<1>6. ASSUME MainClose \/ SpuriousWakeup \/ UNCHANGED vars
      PROVE  L' \subseteq L /\ config' = config
  <2>1. UNCHANGED <<config, spc, task, position, promise>>
    BY <1>6 DEF MainClose, SpuriousWakeup, vars, searchVars
  <2> QED  BY <2>1 DEF outstanding, BeingPushed
<1>7. ASSUME NEW p \in SearchThreads, EvalPush(p)
      PROVE  PushIn(p, task[p]) \/ (PushSleep(p) /\ spc' = spc)
  BY <1>7, <1>c DEF EvalPush
<1> QED
  BY <1>1, <1>2, <1>3, <1>4, <1>5, <1>6, <1>7, PushKeepsBound DEF Next, Search, Eval

-----------------------------------------------------------------------------
(* The invariant, and what follows from it.                                *)

IInv == StateOK /\ CacheOrdered /\ WakeupsCounted /\ Located /\ TasksBounded

\* The invariant holds when the program starts, with whatever configuration.
LEMMA InitIInv == ASSUME Init  PROVE IInv
<1> USE DEF Init, QueueInit, CacheInit
<1>1. config \in Configs /\ config.eval \subseteq EvalThreads /\ NumStubs \in Nat \ {0}
      /\ enable_async \in BOOLEAN /\ eval_batch_size \in Nat \ {0}
  BY PipelineAssumption DEF enable_async, eval_batch_size, NumStubs
<1>2. QueueOK /\ TasksOK
  <2>1. m_queue = <<>> /\ m_is_close = FALSE  OBVIOUS
  <2>2. /\ position = [t \in Tasks |-> none] /\ promise = [t \in Tasks |-> none]
    OBVIOUS
  <2> HIDE DEF Init
  <2>3. QueueOK
    <3>1. <<>> \in Seq(Tasks)  OBVIOUS
    <3>2. m_is_close \in BOOLEAN  BY <2>1
    <3> QED  BY <2>1, <3>1, <3>2 DEF QueueOK
  <2>4. TasksOK  BY <2>2 DEF TasksOK
  <2> QED  BY <2>3, <2>4
<1>3. SearchOK  BY DEF SearchOK
<1>4. ModelsOK
  <2>1. EvalTypes  BY <1>1 DEF EvalTypes, EvalLabels, CompleteLabels
  <2>2. ASSUME NEW e \in EvalThreads  PROVE EvalOK(e) /\ SizesOK(e)
    <3>1. /\ epc[e] \in {"wait", "exited"} /\ cpc[e] \in {"test", "exited"}
          /\ batch[e] = <<>> /\ todo[e] = <<>> /\ calls[e] = {}
          /\ avail[e] = NumStubs /\ disabled[e] = 0
          /\ (e \notin config.eval => epc[e] = "exited" /\ cpc[e] = "exited")
      BY <2>2
    <3>2. EvalOK(e)
      <4>1. IsFiniteSet(calls[e]) /\ Cardinality(calls[e]) = 0  BY <3>1, FS_EmptySet
      <4> HIDE DEF Init
      <4> QED  BY <1>1, <3>1, <4>1 DEF EvalOK, Answering, Filling
    <3>3. SizesOK(e)  BY <1>1, <3>1 DEF SizesOK
    <3> QED  BY <3>2, <3>3
  <2>3. pop_cond = {}  OBVIOUS
  <2> HIDE DEF Init
  <2> QED  BY <1>1, <2>1, <2>2, <2>3 DEF ModelsOK
<1>5. CacheOrdered
  <2>1. NoDuplicates(m_order) /\ ToSet(m_order) = {} /\ Len(m_order) = 0
        /\ Cardinality(m_prob_value_map) = 0
    BY EmptyElements, FS_EmptySet
  <2> QED  BY <2>1, CacheAssumption DEF CacheOrdered, CacheConsistent
<1>6. WakeupsCounted  BY DEF WakeupsCounted
<1>7. outstanding = {}  BY DEF outstanding
<1>8. Located
  <2>1. ContentIs(Content, m_queue, spc, task, batch, todo, calls)
    BY <1>2, <1>3, <1>4, ContentNow
  <2>2. ASSUME NEW z \in Spots  PROVE Content[z] = <<>>
    <3>1. /\ m_queue = <<>> /\ \A p \in SearchThreads : spc[p] # "push"
          /\ \A e \in EvalThreads : batch[e] = <<>> /\ todo[e] = <<>> /\ calls[e] = {}
      OBVIOUS
    <3> HIDE DEF Init
    <3>2. CASE z = QueueSpot  BY <2>1, <3>1, <3>2 DEF ContentIs
    <3>3. ASSUME NEW p \in SearchThreads, z = PushSpot(p)  PROVE Content[z] = <<>>
      BY <2>1, <3>1, <3>3 DEF ContentIs
    <3>4. ASSUME NEW e \in EvalThreads, z = BatchSpot(e) \/ z = TodoSpot(e)
          PROVE  Content[z] = <<>>
      BY <2>1, <3>1, <3>4 DEF ContentIs
    <3>5. ASSUME NEW e \in EvalThreads, NEW b \in Seq(Tasks), z = CallSpot(e, b)
          PROVE  Content[z] = <<>>
      BY <2>1, <3>1, <3>5 DEF ContentIs
    <3> QED  BY <3>2, <3>3, <3>4, <3>5, SpotShapes
  <2>3. /\ \A z \in Spots : NoDuplicates(Content[z]) /\ ToSet(Content[z]) = {}
    BY <2>2, EmptyElements
  <2> HIDE DEF Init
  <2> QED  BY <1>7, <2>3 DEF Located, Separate, Elements
<1>9. TasksBounded
  <2>1. outstanding \ BeingPushed = {}  BY <1>7
  <2>2. Cardinality(outstanding \ BeingPushed) = 0  BY <2>1, FS_EmptySet
  <2>3. IsFiniteSet(config.eval)  BY <1>1, PipelineAssumption, FS_Subset
  <2>4. Cardinality(config.eval) \in Nat /\ BatchesAtOnce \in Nat
    BY <1>1, <2>3, FS_CardinalityType DEF BatchesAtOnce
  <2>5. Cardinality(config.eval) * (eval_batch_size * BatchesAtOnce) \in Nat
    BY <1>1, <2>4
  <2> HIDE DEF Init
  <2> QED  BY <2>2, <2>5, CapacityAssumption DEF TasksBounded
<1> QED  BY <1>2, <1>3, <1>4, <1>5, <1>6, <1>8, <1>9 DEF IInv, StateOK

\* The invariant is inductive.
LEMMA NextIInv == ASSUME IInv, [Next]_vars  PROVE IInv'
<1> USE DEF IInv, StateOK
<1>1. ASSUME NEW p \in SearchThreads, Search(p) \/ Eval(p)
      PROVE  StateOK' /\ CacheOrdered' /\ WakeupsCounted' /\ Located'
  <2>1. StateOK' /\ CacheOrdered'  BY <1>1, SearchThreadParts
  <2>2. WakeupsCounted'  BY <1>1, SearchWakeups
  <2> HIDE DEF StateOK
  <2>3. Located'  BY <1>1, <2>1, LocatedSearch
  <2> QED  BY <2>1, <2>2, <2>3
<1>2. ASSUME NEW e \in EvalThreads, EvalRoutine(e) \/ Complete(e) \/ Reenable(e) \/ Callback(e)
      PROVE  StateOK' /\ CacheOrdered' /\ WakeupsCounted' /\ Located'
  <2>1. QueueOK' /\ TasksOK' /\ SearchOK' /\ CacheOrdered'  BY <1>2, EvalThreadParts
  <2>2. ModelsOK'
    <3>1. CASE EvalRoutine(e)
      <4>1. batch[e] \notin calls[e] \/ batch[e] = <<>>  BY FreshCall
      <4> QED  BY <3>1, <4>1, EvalRoutineModels
    <3>2. CASE Complete(e) \/ Reenable(e) \/ Callback(e)
      BY <3>2, CompletionModels
    <3> QED  BY <1>2, <3>1, <3>2
  <2>3. WakeupsCounted'  BY <1>2, EvalWakeups
  <2>4. StateOK'  BY <2>1, <2>2
  <2> HIDE DEF StateOK
  <2>5. Located'  BY <1>2, <2>4, LocatedEval
  <2> QED  BY <2>1, <2>3, <2>4, <2>5
<1>3. ASSUME MainClose \/ SpuriousWakeup \/ UNCHANGED vars
      PROVE  StateOK' /\ CacheOrdered' /\ WakeupsCounted' /\ Located'
  <2>1. StateOK' /\ CacheOrdered'  BY <1>3, OtherParts
  <2>2. WakeupsCounted'  BY <1>3, OtherWakeups
  <2>3. UNCHANGED <<m_queue, spc, task, position, promise, batch, todo, calls>>
    BY <1>3 DEF MainClose, Close, SpuriousWakeup, vars, taskQueue, searchVars, evalVars,
                callbackVars, clientVars
  <2> HIDE DEF StateOK
  <2>4. Located'  BY <2>1, <2>3, SameContent DEF outstanding
  <2> QED  BY <2>1, <2>2, <2>4
<1>4. StateOK' /\ CacheOrdered' /\ WakeupsCounted' /\ Located'
  BY <1>1, <1>2, <1>3 DEF Next
<1> HIDE DEF StateOK
<1>5. TasksBounded'  BY <1>4, BoundKept
<1> QED  BY <1>4, <1>5

\* Copies(t) in terms of the places: one for each place of the task in the
\* sequence there.
LEMMA CopiesOf ==
    ASSUME StateOK, NEW t
    PROVE  \A c : c \in Copies(t) <=>
              \E z \in Spots : \E i \in 1 .. Len(Content[z]) :
                  c = <<z, i>> /\ Content[z][i] = t
<1>1. ContentIs(Content, m_queue, spc, task, batch, todo, calls)
  BY ContentNow DEF StateOK
<1>2. \A c : c \in Copies(t) <=>
         \E z \in Places : \E i \in DOMAIN Contents(z) : c = <<z, i>> /\ Contents(z)[i] = t
  BY DEF Copies
<1>3. ASSUME NEW z \in Places
      PROVE  z \in Spots /\ Contents(z) = Content[z]
  <2>1. calls \in [EvalThreads -> SUBSET Seq(Tasks)]  BY DEF StateOK, ModelsOK, EvalTypes
  <2>2. z \in Spots /\ (z[1] = "call" => z[3] \in calls[z[2]])
    BY <2>1 DEF Places, Spots
  <2>3. Content[z] = PieceOf(z, m_queue, spc, task, batch, todo, calls)
    BY <2>2 DEF Content, ContentOf
  <2>4. PieceOf(z, m_queue, spc, task, batch, todo, calls) = Contents(z)
    BY <2>2 DEF PieceOf, Contents
  <2> QED  BY <2>2, <2>3, <2>4
<1>4. ASSUME NEW z \in Spots, Content[z] # <<>>  PROVE z \in Places
  <2>1. CASE z = QueueSpot  BY <2>1 DEF QueueSpot, Places
  <2>2. ASSUME NEW p \in SearchThreads, z = PushSpot(p)  PROVE z \in Places
    BY <2>2 DEF PushSpot, Places
  <2>3. ASSUME NEW e \in EvalThreads, z = BatchSpot(e) \/ z = TodoSpot(e)  PROVE z \in Places
    BY <2>3 DEF BatchSpot, TodoSpot, Places
  <2>4. ASSUME NEW e \in EvalThreads, NEW b \in Seq(Tasks), z = CallSpot(e, b)
        PROVE  z \in Places
    <3>1. b \in calls[e]  BY <1>1, <1>4, <2>4 DEF ContentIs
    <3> QED  BY <2>4, <3>1 DEF CallSpot, Places
  <2> QED  BY <2>1, <2>2, <2>3, <2>4, SpotShapes
<1>5. \A z \in Spots : DOMAIN Content[z] = 1 .. Len(Content[z])
                       /\ (Content[z] = <<>> => Len(Content[z]) = 0)
  <2>1. \A z \in Spots : Content[z] \in Seq(Tasks)  BY <1>1 DEF ContentIs
  <2> QED  BY <2>1
<1> QED  BY <1>2, <1>3, <1>4, <1>5

\* When the tasks are located, a task has one copy or none.
LEMMA OneCopy == ASSUME StateOK, Located  PROVE OneCopyOfEachTask
<1>1. /\ \A z \in Spots : NoDuplicates(Content[z])
      /\ \A u, v \in Spots : \A a : a \in ToSet(Content[u]) /\ a \in ToSet(Content[v]) => u = v
      /\ \A t : t \in outstanding <=> \E z \in Spots : t \in ToSet(Content[z])
  BY DEF Located, Separate, Elements
<1>2. \A z \in Spots : /\ Content[z] \in Seq(Tasks)
  BY ContentNow DEF StateOK, ContentIs
<1>3. \A z \in Spots : \A t : t \in ToSet(Content[z])
                                <=> \E i \in 1 .. Len(Content[z]) : Content[z][i] = t
  BY <1>2, SeqElements
<1>4. ASSUME NEW z \in Spots, NEW i \in 1 .. Len(Content[z]), NEW j \in 1 .. Len(Content[z]),
             Content[z][i] = Content[z][j]
      PROVE  i = j
  BY <1>1, <1>2, <1>4 DEF NoDuplicates
<1>5. ASSUME NEW t \in Tasks
      PROVE  Cardinality(Copies(t)) = IF t \in outstanding THEN 1 ELSE 0
  <2>1. \A c : c \in Copies(t) <=>
              \E z \in Spots : \E i \in 1 .. Len(Content[z]) :
                  c = <<z, i>> /\ Content[z][i] = t
    BY CopiesOf
  <2>2. CASE t \in outstanding
    <3>0. PICK z \in Spots : t \in ToSet(Content[z])  BY <1>1, <2>2
    <3>1. PICK i \in 1 .. Len(Content[z]) : Content[z][i] = t  BY <1>3, <3>0
    <3>2. Copies(t) = {<<z, i>>}
      <4>1. <<z, i>> \in Copies(t)  BY <2>1, <3>1
      <4>2. ASSUME NEW c \in Copies(t)  PROVE c = <<z, i>>
        <5>0. PICK u \in Spots :
                 \E j \in 1 .. Len(Content[u]) : c = <<u, j>> /\ Content[u][j] = t
          BY <2>1
        <5>1. PICK j \in 1 .. Len(Content[u]) : c = <<u, j>> /\ Content[u][j] = t
          BY <5>0
        <5>2. u = z  BY <1>1, <1>3, <3>1, <5>1
        <5> QED  BY <1>4, <3>1, <5>1, <5>2
      <4> QED  BY <4>1, <4>2
    <3> QED  BY <2>2, <3>2, FS_Singleton
  <2>3. CASE t \notin outstanding
    <3>1. Copies(t) = {}  BY <1>1, <1>3, <2>1, <2>3
    <3> QED  BY <2>3, <3>1, FS_EmptySet
  <2> QED  BY <2>2, <2>3
<1> QED  BY <1>5 DEF OneCopyOfEachTask

\* Where there is an element or room, the counts give a thread that is about to act.
LEMMA NobodyOverslept == ASSUME QueueOK, WakeupsCounted  PROVE NoLostWakeup
<1>1. ASSUME m_queue # <<>>, pop_cond # {}
      PROVE  \/ \E p \in SearchThreads : spc[p] = "notify"
             \/ \E e \in EvalThreads :
                   cpc[e] = "requeued" \/ (epc[e] = "pop" /\ e \notin pop_cond)
  <2>1. Len(m_queue) \in Nat /\ Len(m_queue) > 0  BY <1>1 DEF QueueOK
  <2>2. Len(m_queue) <= Cardinality(Notifying) + Cardinality(Requeueing) + Cardinality(Popping)
    BY <1>1 DEF WakeupsCounted
  <2>3. Cardinality(Notifying) # 0 \/ Cardinality(Requeueing) # 0 \/ Cardinality(Popping) # 0
    BY <2>1, <2>2
  <2>4. Notifying # {} \/ Requeueing # {} \/ Popping # {}  BY <2>3, FS_EmptySet
  <2> QED  BY <2>4 DEF Notifying, Requeueing, Popping
<1>2. ASSUME Room, push_cond # {}
      PROVE  \/ \E e \in EvalThreads : epc[e] = "notify"
             \/ \E p \in SearchThreads : spc[p] = "push" /\ p \notin push_cond
  <2>1. /\ capacity <= Len(m_queue) + Cardinality(PopNotifying) + Cardinality(Pushing)
        /\ Len(m_queue) < capacity /\ Len(m_queue) \in Nat /\ capacity \in Nat
    BY <1>2, CapacityAssumption DEF WakeupsCounted, Room, QueueOK
  <2>2. Cardinality(PopNotifying) # 0 \/ Cardinality(Pushing) # 0  BY <2>1
  <2>3. PopNotifying # {} \/ Pushing # {}  BY <2>2, FS_EmptySet
  <2> QED  BY <2>3 DEF PopNotifying, Pushing
<1> QED  BY <1>1, <1>2 DEF NoLostWakeup

\* The queue holds some of the tasks pushed and not answered, each once.
LEMMA QueueBounded == ASSUME StateOK, Located, TasksBounded  PROVE OverfillBounded
<1> SUFFICES ASSUME capacity > 0
             PROVE  Len(m_queue) <= capacity +
                       Cardinality(config.eval) * eval_batch_size * BatchesAtOnce
  BY DEF OverfillBounded, BatchesAtOnce
<1> DEFINE L == outstanding \ BeingPushed
           Q == ToSet(m_queue)
<1>1. Len(m_queue) = Cardinality(Q) /\ IsFiniteSet(Q) /\ Len(m_queue) \in Nat
  BY WhereTasksAre, SeqCardinality DEF StateOK, QueueOK
<1>2. Q \in SUBSET L /\ IsFiniteSet(L) /\ Cardinality(L) \in Nat
  BY WhereTasksAre, FiniteOutstanding
<1>3. Cardinality(L) <= capacity
        + Cardinality(config.eval) * (eval_batch_size * BatchesAtOnce)
  BY DEF TasksBounded
<1>4. Cardinality(config.eval) * (eval_batch_size * BatchesAtOnce)
        = Cardinality(config.eval) * eval_batch_size * BatchesAtOnce
      /\ Cardinality(config.eval) * (eval_batch_size * BatchesAtOnce) \in Nat
  <2>1. config.eval \subseteq EvalThreads /\ IsFiniteSet(EvalThreads)
    BY ConfigFacts, PipelineAssumption DEF StateOK
  <2>2. IsFiniteSet(config.eval)  BY <2>1, FS_Subset
  <2>3. Cardinality(config.eval) \in Nat /\ eval_batch_size \in Nat /\ BatchesAtOnce \in Nat
    BY <2>2, ConfigFacts, FS_CardinalityType DEF StateOK, BatchesAtOnce
  <2> QED  BY <2>3
<1> HIDE DEF L, Q
<1>5. Cardinality(Q) <= Cardinality(L)  BY <1>2, FS_Subset
<1> QED  BY <1>1, <1>2, <1>3, <1>4, <1>5, CapacityAssumption

\* The inductive invariant is an invariant of the program.
THEOREM Invariance == Spec => []IInv
<1>1. Init => IInv  BY InitIInv
<1>2. IInv /\ [Next]_vars => IInv'  BY NextIInv
<1> QED  BY <1>1, <1>2, PTL DEF Spec

\* All variables of the pipeline keep their types.
THEOREM TypeCorrect == Spec => []TypeOK
<1>1. IInv => TypeOK
  BY DEF IInv, StateOK, QueueOK, TasksOK, SearchOK, ModelsOK, EvalTypes, CacheOrdered, TypeOK,
         EvalLabels, CompleteLabels
<1> QED  BY <1>1, Invariance, PTL

\* Every task is in one place until its callback is called, and then in none: the
\* callback of Eval() is called exactly once, for any number of threads, tasks and
\* configurations, in both modes, whatever times out and is requeued.
THEOREM CalledBackOnce == Spec => []OneCopyOfEachTask
<1>1. IInv => OneCopyOfEachTask  BY OneCopy DEF IInv
<1> QED  BY <1>1, Invariance, PTL

\* No wake-up of the task queue is lost although notify_one comes after the unlock.
THEOREM Awake == Spec => []NoLostWakeup
<1>1. IInv => NoLostWakeup  BY NobodyOverslept DEF IInv, StateOK
<1> QED  BY <1>1, Invariance, PTL

\* PushFront overfills the queue by no more than the batches there can be at once.
THEOREM Overfill == Spec => []OverfillBounded
<1>1. IInv => OverfillBounded  BY QueueBounded DEF IInv
<1> QED  BY <1>1, Invariance, PTL

\* Stubs of the asynchronous client are neither lost nor used twice.
THEOREM Stubs == Spec => []StubsConserved
<1>1. IInv => StubsConserved  BY DEF IInv, StateOK, ModelsOK, EvalOK, StubsConserved
<1> QED  BY <1>1, Invariance, PTL

\* The map and the order of insertion of the cache agree, whoever inserts.
THEOREM Cache == Spec => []CacheConsistent
<1>1. IInv => CacheConsistent  BY DEF IInv, CacheOrdered
<1> QED  BY <1>1, Invariance, PTL

=============================================================================
