--------------------------- MODULE GoRules_proofs ---------------------------
(***************************************************************************)
(* Proofs about GoState: through every game, on a board of every size, a   *)
(* GoState keeps its form (IsGoState), the players alternate, the history  *)
(* is the boards of the game, and the blocks, the pool, the legal moves,   *)
(* the ko, the hash and the score are what the rules of Go say (RulesInv). *)
(*                                                                         *)
(* The members are needed one by one: what a method that is a fold over    *)
(* blocks leaves alone is stated for one block and carried through the     *)
(* fold by induction.  The library's induction theorems take an operator,  *)
(* so the induction is over the set of the numbers, or of the sets, of     *)
(* which the claim holds (AllNaturals, ByGreatest).                        *)
(*                                                                         *)
(* The blocks are compared with the chains of the board without following  *)
(* how Chain grows: a chain is a set of stones of one color that no part   *)
(* is cut off from and that no stone could be added to (IsChain), and      *)
(* ChainIs says once that Chain gives that set.  The parents of the        *)
(* union-find structure are a forest whose heights a move raises by one    *)
(* for the stones that are merged (Heights), which is why FindCoord ends.  *)
(***************************************************************************)
EXTENDS GoRules, FiniteSums, SequenceTheorems

-----------------------------------------------------------------------------
(* Induction and folds.                                                    *)

\* A finite set of integers has a greatest element.
LEMMA GreatestExists ==
    ASSUME NEW S, IsFiniteSet(S), S \subseteq Int, S # {}
    PROVE  \E m \in S : \A i \in S : i <= m
<1> DEFINE Q == {n \in Nat : \A s \in SUBSET S : Cardinality(s) = n /\ s # {} =>
                                 \E m \in s : \A i \in s : i <= m}
<1>1. 0 \in Q
  <2> SUFFICES ASSUME NEW s \in SUBSET S, Cardinality(s) = 0  PROVE s = {}
    OBVIOUS
  <2> IsFiniteSet(s)  BY FS_Subset
  <2> QED  BY FS_EmptySet
<1>2. ASSUME NEW n \in Nat, n \in Q  PROVE n + 1 \in Q
  <2> SUFFICES ASSUME NEW s \in SUBSET S, Cardinality(s) = n + 1, s # {}
               PROVE \E m \in s : \A i \in s : i <= m
    OBVIOUS
  <2>1. PICK x \in s : TRUE  OBVIOUS
  <2>2. IsFiniteSet(s)  BY FS_Subset
  <2>3. Cardinality(s \ {x}) = n
    <3>1. Cardinality(s \ {x}) = Cardinality(s) - 1  BY <2>2, FS_RemoveElement
    <3> QED  BY <3>1
  <2>4. CASE s \ {x} = {}
    <3>1. s = {x}  BY <2>1, <2>4
    <3> QED  BY <2>1, <3>1
  <2>5. CASE s \ {x} # {}
    <3>1. PICK m \in s \ {x} : \A i \in s \ {x} : i <= m  BY <1>2, <2>3, <2>5
    <3>2. x \in Int /\ m \in Int /\ s \subseteq Int  BY <2>1, <3>1
    <3>3. CASE x <= m  BY <3>1, <3>2, <3>3
    <3>4. CASE m <= x
      <4>1. \A i \in s : i <= x  BY <3>1, <3>2, <3>4
      <4> QED  BY <4>1, <2>1
    <3> QED  BY <3>2, <3>3, <3>4
  <2> QED  BY <2>4, <2>5
<1> HIDE DEF Q
<1>3. Nat \subseteq Q  BY <1>1, <1>2, AllNaturals
<1>4. Cardinality(S) \in Nat  BY FS_CardinalityType
<1> QED  BY <1>3, <1>4 DEF Q

\* Induction over finite sets of integers, the greatest element last.
LEMMA ByGreatest ==
    ASSUME NEW S, IsFiniteSet(S), S \subseteq Int, NEW T, {} \in T,
           \A s \in SUBSET S, m \in S :
               s \in T /\ (\A i \in s : i < m) => s \cup {m} \in T
    PROVE  S \in T
<1> DEFINE Q == {n \in Nat : \A s \in SUBSET S : Cardinality(s) = n => s \in T}
<1>1. 0 \in Q
  <2> SUFFICES ASSUME NEW s \in SUBSET S, Cardinality(s) = 0  PROVE s \in T
    OBVIOUS
  <2> IsFiniteSet(s)  BY FS_Subset
  <2> QED  BY FS_EmptySet
<1>2. ASSUME NEW n \in Nat, n \in Q  PROVE n + 1 \in Q
  <2> SUFFICES ASSUME NEW s \in SUBSET S, Cardinality(s) = n + 1  PROVE s \in T
    OBVIOUS
  <2>0. IsFiniteSet(s)  BY FS_Subset
  <2>1. IsFiniteSet(s) /\ s # {}
    <3>1. Cardinality(s) # 0  OBVIOUS
    <3> QED  BY <2>0, <3>1, FS_EmptySet
  <2>2. PICK m \in s : \A i \in s : i <= m
    BY <2>1, GreatestExists
  <2>3. IsFiniteSet(s \ {m}) /\ Cardinality(s \ {m}) = n
    <3>1. IsFiniteSet(s \ {m}) /\ Cardinality(s \ {m}) = Cardinality(s) - 1
      BY <2>1, FS_RemoveElement
    <3> QED  BY <3>1
  <2>4. s \ {m} \in T  BY <1>2, <2>3
  <2>5. \A i \in s \ {m} : i < m  BY <2>2
  <2>6. s = (s \ {m}) \cup {m}  BY <2>2
  <2> QED  BY <2>2, <2>4, <2>5, <2>6
<1> HIDE DEF Q
<1>3. Nat \subseteq Q  BY <1>1, <1>2, AllNaturals
<1>4. Cardinality(S) \in Nat  BY FS_CardinalityType
<1> QED  BY <1>3, <1>4 DEF Q

\* The greatest element of a set with one added that is greater.
LEMMA MaxIsLast ==
    ASSUME NEW s \in SUBSET Int, NEW m \in s, \A i \in s : i <= m
    PROVE  Max(s) = m
<1>1. Max(s) \in s /\ \A i \in s : Max(s) >= i  BY DEF Max
<1>2. Max(s) \in Int /\ m \in Int  BY <1>1
<1>3. Max(s) >= m /\ Max(s) <= m  BY <1>1
<1> QED  BY <1>2, <1>3

\* What MapThenFoldSet computes for RecycleBlocks, set by set.
Recycling(t, S, iter) ==
    iter = [s \in SUBSET S |-> IF s = {} THEN t
                                ELSE RecycleBlock(iter[s \ {Max(s)}], Max(s))]

\* RecycleBlocks() is the value of that function at the whole set.
LEMMA RecyclingIter ==
    \A t, S : RecycleBlocks(t, S) = (CHOOSE iter : Recycling(t, S, iter))[S]
BY DEF RecycleBlocks, MapThenFoldSet, Recycling

\* The recursion of the fold is defined on every finite set.
LEMMA RecyclingExists ==
    ASSUME NEW S, IsFiniteSet(S), S \subseteq Int, NEW t
    PROVE  \E iter : Recycling(t, S, iter)
<1> DEFINE T == {s \in SUBSET S : \E iter : Recycling(t, s, iter)}
<1>1. {} \in T
  <2> DEFINE it == [s \in SUBSET {} |-> t]
  <2>1. Recycling(t, {}, it)  BY DEF Recycling
  <2> HIDE DEF it
  <2> QED  BY <2>1
<1>2. ASSUME NEW s \in SUBSET S, NEW m \in S, s \in T, \A i \in s : i < m
      PROVE  s \cup {m} \in T
  <2>1. PICK it0 : Recycling(t, s, it0)  BY <1>2
  <2> DEFINE it == [u \in SUBSET (s \cup {m}) |->
                      IF m \in u THEN RecycleBlock(it0[u \ {m}], m) ELSE it0[u]]
             Step(u) == IF u = {} THEN t ELSE RecycleBlock(it[u \ {Max(u)}], Max(u))
  <2>2. ASSUME NEW u \in SUBSET (s \cup {m})  PROVE it[u] = Step(u)
    <3>1. CASE m \in u
      <4>1. u \in SUBSET Int /\ \A i \in u : i <= m  BY <1>2, S \subseteq Int
      <4>2. Max(u) = m  BY <3>1, <4>1, MaxIsLast
      <4>3. it[u \ {m}] = it0[u \ {m}]  OBVIOUS
      <4>4. it[u] = RecycleBlock(it0[u \ {m}], m)  BY <3>1
      <4> HIDE DEF it
      <4> QED  BY <3>1, <4>2, <4>3, <4>4
    <3>2. CASE m \notin u
      <4>1. u \in SUBSET s  BY <3>2
      <4>2. it[u] = it0[u]  BY <3>2
      <4>3. it[u \ {Max(u)}] = it0[u \ {Max(u)}]  BY <3>2
      <4>4. it0[u] = IF u = {} THEN t ELSE RecycleBlock(it0[u \ {Max(u)}], Max(u))
        BY <2>1, <4>1 DEF Recycling
      <4> HIDE DEF it
      <4> QED  BY <4>2, <4>3, <4>4
    <3> QED  BY <3>1, <3>2
  <2>3. it = [u \in SUBSET (s \cup {m}) |-> it[u]]  OBVIOUS
  <2>4. Recycling(t, s \cup {m}, it)
    <3> HIDE DEF it
    <3> QED  BY <2>2, <2>3 DEF Recycling
  <2> HIDE DEF it
  <2> QED  BY <2>4
<1> HIDE DEF T
<1>3. S \in T  BY <1>1, <1>2, ByGreatest
<1> QED  BY <1>3 DEF T

\* The fold goes through the blocks in ascending order, and there is a function of the
\* blocks done so far that ends with its result.
LEMMA RecyclingSteps ==
    ASSUME NEW S, IsFiniteSet(S), S \subseteq Int, NEW t
    PROVE  \E iter : /\ iter[{}] = t
                     /\ \A s \in SUBSET S, m \in S :
                           (\A i \in s : i < m) =>
                              iter[s \cup {m}] = RecycleBlock(iter[s], m)
                     /\ RecycleBlocks(t, S) = iter[S]
<1> DEFINE it == CHOOSE iter : Recycling(t, S, iter)
<1>1. Recycling(t, S, it)  BY RecyclingExists
<1>2. RecycleBlocks(t, S) = it[S]  BY RecyclingIter
<1> HIDE DEF it
<1>3. it[{}] = t  BY <1>1 DEF Recycling
<1>4. ASSUME NEW s \in SUBSET S, NEW m \in S, \A i \in s : i < m
      PROVE  it[s \cup {m}] = RecycleBlock(it[s], m)
  <2>1. Max(s \cup {m}) = m
    <3>1. s \cup {m} \in SUBSET Int /\ \A i \in s \cup {m} : i <= m
      BY <1>4, S \subseteq Int
    <3> QED  BY <3>1, MaxIsLast
  <2>2. (s \cup {m}) \ {m} = s
    <3>1. m \notin s  BY <1>4, S \subseteq Int
    <3> QED  BY <3>1
  <2>3. it[s \cup {m}] = RecycleBlock(it[(s \cup {m}) \ {Max(s \cup {m})}], Max(s \cup {m}))
    BY <1>1 DEF Recycling
  <2> QED  BY <2>1, <2>2, <2>3
<1> QED  BY <1>2, <1>3, <1>4

-----------------------------------------------------------------------------
(* The members of a GoState.                                               *)

Members == {"positional_superko", "board_state", "parent_id", "block_id", "block_pool",
            "block_in_use", "recycled_blocks", "current_player", "last_position",
            "ko_position", "is_double_pass", "zobrist_hash", "board_hash_states",
            "feature_history_list", "legal_move_map", "liberty_count"}

IsRecord(s) == DOMAIN s = Members /\ s = [f \in Members |-> s[f]]

\* The names of the members, one by one.
LEMMA MemberNames ==
    /\ "positional_superko" \in Members /\ "board_state" \in Members
    /\ "parent_id" \in Members /\ "block_id" \in Members /\ "block_pool" \in Members
    /\ "block_in_use" \in Members /\ "recycled_blocks" \in Members
    /\ "current_player" \in Members /\ "last_position" \in Members
    /\ "ko_position" \in Members /\ "is_double_pass" \in Members
    /\ "zobrist_hash" \in Members /\ "board_hash_states" \in Members
    /\ "feature_history_list" \in Members /\ "legal_move_map" \in Members
    /\ "liberty_count" \in Members
BY DEF Members

\* What the methods rely on whenever they are called; what the blocks hold is said by
\* Sound below.
IsGoState(s) ==
    /\ IsRecord(s)
    /\ s.board_state \in [Points -> {EMPTY, BLACK, WHITE}]
    /\ s.parent_id \in [Points -> Points]
    /\ s.block_id \in [Points -> Int]
    /\ DOMAIN s.block_pool = BlockIds /\ s.block_pool = [i \in BlockIds |-> s.block_pool[i]]
    /\ s.block_in_use \in Nat
    /\ s.recycled_blocks \in Seq(Int)
    /\ s.current_player \in {BLACK, WHITE}
    /\ s.feature_history_list \in Seq(SUBSET Points)
    /\ s.legal_move_map \in SUBSET Points

\* A GoState t differs from s in blocks and in the list of those to be used again only.
SameButBlocks(s, t) ==
    \A f \in Members \ {"block_pool", "block_in_use", "recycled_blocks"} : t[f] = s[f]

\* The constructor makes a GoState.
LEMMA NewGameIsGoState == \A superko \in BOOLEAN : IsGoState(NewGame(superko))
<1> SUFFICES ASSUME NEW superko \in BOOLEAN  PROVE IsGoState(NewGame(superko))
  OBVIOUS
<1> DEFINE s == NewGame(superko)
<1>1. IsRecord(s)  BY DEF NewGame, Members, IsRecord
<1>2. /\ s.board_state \in [Points -> {EMPTY, BLACK, WHITE}]
      /\ s.parent_id \in [Points -> Points]
      /\ s.block_id \in [Points -> Int]
      /\ DOMAIN s.block_pool = BlockIds /\ s.block_pool = [i \in BlockIds |-> s.block_pool[i]]
  BY DEF NewGame, EMPTY, UNSET
<1>3. /\ s.block_in_use \in Nat
      /\ s.recycled_blocks \in Seq(Int)
      /\ s.current_player \in {BLACK, WHITE}
      /\ s.feature_history_list \in Seq(SUBSET Points)
      /\ s.legal_move_map \in SUBSET Points
  BY DEF NewGame
<1> HIDE DEF s
<1>4. IsGoState(s)  BY <1>1, <1>2, <1>3 DEF IsGoState
<1> QED  BY <1>4 DEF s

\* Giving a block back touches blocks only.
LEMMA RecycleBlockIsGoState ==
    ASSUME NEW s, IsGoState(s), NEW i \in Int
    PROVE  IsGoState(RecycleBlock(s, i)) /\ SameButBlocks(s, RecycleBlock(s, i))
<1> DEFINE pool == [s.block_pool EXCEPT ![i].in_use = FALSE]
           u == [s EXCEPT !.block_pool = pool]
           t == [u EXCEPT !.recycled_blocks = Append(s.recycled_blocks, i)]
<1>0. IsRecord(s)  BY DEF IsGoState
<1>1. IsRecord(u) /\ u.block_pool = pool /\ \A f \in Members \ {"block_pool"} : u[f] = s[f]
  <2> HIDE DEF pool
  <2> QED  BY <1>0, MemberNames DEF IsRecord
<1>2. u.recycled_blocks = s.recycled_blocks  BY <1>1, MemberNames
<1>3. RecycleBlock(s, i) = t  BY <1>2 DEF RecycleBlock
<1>4. DOMAIN pool = BlockIds /\ pool = [j \in BlockIds |-> pool[j]]  BY DEF IsGoState
<1> HIDE DEF pool, u
<1>5. /\ IsRecord(t) /\ t.recycled_blocks = Append(s.recycled_blocks, i)
      /\ \A f \in Members \ {"recycled_blocks"} : t[f] = u[f]
  BY <1>1, MemberNames DEF IsRecord
<1> HIDE DEF t
<1>6. t.block_pool = pool  BY <1>1, <1>5, MemberNames
<1>7. SameButBlocks(s, t)  BY <1>1, <1>5 DEF SameButBlocks
<1>8. IsGoState(t)
  BY <1>4, <1>5, <1>6, <1>7, <1>1, MemberNames DEF IsGoState, SameButBlocks
<1> QED  BY <1>3, <1>7, <1>8

\* The block that is taken, and what taking it touches.
LEMMA GetNewBlockIsGoState ==
    ASSUME NEW s, IsGoState(s)
    PROVE  /\ NewBlock(s) \in Int
           /\ IsGoState(GetNewBlock(s)) /\ SameButBlocks(s, GetNewBlock(s))
<1> DEFINE t == IF s.recycled_blocks # <<>>
                THEN [s EXCEPT !.recycled_blocks = Front(@)]
                ELSE [s EXCEPT !.block_in_use = @ + 1]
           u == [t EXCEPT !.block_pool[NewBlock(s)] = NoBlock]
<1>0. GetNewBlock(s) = u  BY DEF GetNewBlock
<1>1. NewBlock(s) \in Int
  <2>1. CASE s.recycled_blocks # <<>>
    BY <2>1 DEF NewBlock, Last, IsGoState
  <2>2. CASE s.recycled_blocks = <<>>  BY <2>2 DEF NewBlock, IsGoState
  <2> QED  BY <2>1, <2>2
<1>2. /\ IsRecord(t)
      /\ \A f \in Members \ {"block_in_use", "recycled_blocks"} : t[f] = s[f]
  <2>1. IsRecord(s)  BY DEF IsGoState
  <2>2. CASE s.recycled_blocks # <<>>
    BY <2>1, <2>2, MemberNames DEF IsRecord
  <2>3. CASE s.recycled_blocks = <<>>
    BY <2>1, <2>3, MemberNames DEF IsRecord
  <2> QED  BY <2>2, <2>3
<1>3. t.block_in_use \in Nat /\ t.recycled_blocks \in Seq(Int)
  <2>1. CASE s.recycled_blocks # <<>>
    <3>1. Front(s.recycled_blocks) \in Seq(Int)  BY <2>1 DEF Front, IsGoState
    <3> QED  BY <2>1, <3>1, MemberNames DEF IsGoState, IsRecord
  <2>2. CASE s.recycled_blocks = <<>>  BY <2>2, MemberNames DEF IsGoState, IsRecord
  <2> QED  BY <2>1, <2>2
<1> HIDE DEF t
<1>4. /\ IsRecord(u)
      /\ \A f \in Members \ {"block_pool"} : u[f] = t[f]
      /\ u.block_pool = [t.block_pool EXCEPT ![NewBlock(s)] = NoBlock]
  BY <1>2, MemberNames DEF IsRecord
<1>5. t.block_pool = s.block_pool  BY <1>2, MemberNames
<1> HIDE DEF u
<1>6. DOMAIN u.block_pool = BlockIds /\ u.block_pool = [j \in BlockIds |-> u.block_pool[j]]
  BY <1>4, <1>5 DEF IsGoState
<1>7. SameButBlocks(s, u)  BY <1>2, <1>4 DEF SameButBlocks
<1>8. IsGoState(u)
  BY <1>3, <1>4, <1>6, <1>7, MemberNames DEF IsGoState, SameButBlocks
<1> QED  BY <1>0, <1>1, <1>7, <1>8

\* So do any number of blocks given back.
LEMMA RecycleBlocksIsGoState ==
    ASSUME NEW s, IsGoState(s), NEW S, IsFiniteSet(S), S \subseteq Int
    PROVE  IsGoState(RecycleBlocks(s, S)) /\ SameButBlocks(s, RecycleBlocks(s, S))
<1>1. PICK it : /\ it[{}] = s
                /\ \A x \in SUBSET S, m \in S :
                      (\A i \in x : i < m) => it[x \cup {m}] = RecycleBlock(it[x], m)
                /\ RecycleBlocks(s, S) = it[S]
  BY RecyclingSteps
<1> DEFINE T == {x \in SUBSET S : IsGoState(it[x]) /\ SameButBlocks(s, it[x])}
<1>2. {} \in T
  BY <1>1 DEF SameButBlocks
<1>3. ASSUME NEW x \in SUBSET S, NEW m \in S, x \in T, \A i \in x : i < m
      PROVE  x \cup {m} \in T
  <2>1. it[x \cup {m}] = RecycleBlock(it[x], m)  BY <1>1, <1>3
  <2>2. IsGoState(it[x]) /\ SameButBlocks(s, it[x]) /\ m \in Int  BY <1>3
  <2>3. IsGoState(it[x \cup {m}]) /\ SameButBlocks(it[x], it[x \cup {m}])
    BY <2>1, <2>2, RecycleBlockIsGoState
  <2>4. SameButBlocks(s, it[x \cup {m}])  BY <2>2, <2>3 DEF SameButBlocks
  <2> QED  BY <2>3, <2>4
<1> HIDE DEF T
<1>4. S \in T  BY <1>2, <1>3, ByGreatest
<1> QED  BY <1>1, <1>4 DEF T

-----------------------------------------------------------------------------
(* Blocks by coordinates.                                                  *)

\* The board has finitely many points.
LEMMA FinitelyManyPoints == Rows * Columns \in Nat /\ Points \subseteq Int /\ IsFiniteSet(Points)
<1>1. Rows \in Nat /\ Columns \in Nat  BY BoardAssumption
<1>2. Rows * Columns \in Nat  BY <1>1
<1>3. 0 \in Int /\ Rows * Columns - 1 \in Int  BY <1>2
<1> HIDE <1>1
<1>4. IsFiniteSet(0 .. Rows * Columns - 1)  BY <1>3, FS_Interval
<1> QED  BY <1>2, <1>4 DEF Points

\* The way up from p.
Up(s, p, k, f) == f = [i \in 0..k |-> IF i = 0 THEN p ELSE s.parent_id[f[i - 1]]]

\* It is defined for any number of steps.
LEMMA UpExists == \A s, p : \A k \in Nat : \E f : Up(s, p, k, f)
<1> SUFFICES ASSUME NEW s, NEW p  PROVE \A k \in Nat : \E f : Up(s, p, k, f)
  OBVIOUS
<1> DEFINE T == {k \in Nat : \E f : Up(s, p, k, f)}
<1>1. 0 \in T
  <2>1. Up(s, p, 0, [i \in 0..0 |-> p])  BY DEF Up
  <2> QED  BY <2>1
<1>2. ASSUME NEW k \in Nat, k \in T  PROVE k + 1 \in T
  <2>1. PICK f : Up(s, p, k, f)  BY <1>2
  <2> DEFINE g == [i \in 0..k + 1 |-> IF i = k + 1 THEN s.parent_id[f[k]] ELSE f[i]]
  <2>2. \A i \in 0..k : f[i] = IF i = 0 THEN p ELSE s.parent_id[f[i - 1]]
    BY <2>1 DEF Up
  <2>3. ASSUME NEW i \in 0..k + 1
        PROVE  g[i] = IF i = 0 THEN p ELSE s.parent_id[g[i - 1]]
    <3>1. CASE i = k + 1
      <4>1. g[i - 1] = f[k] /\ i # 0  BY <3>1
      <4> QED  BY <3>1, <4>1
    <3>2. CASE i \in 0..k
      <4>1. g[i] = f[i]  BY <3>2
      <4>2. i # 0 => g[i - 1] = f[i - 1]  BY <3>2
      <4> HIDE DEF g
      <4> QED  BY <2>2, <3>2, <4>1, <4>2
    <3> QED  BY <3>1, <3>2
  <2>4. g = [i \in 0..k + 1 |-> g[i]]  OBVIOUS
  <2> HIDE DEF g
  <2>5. Up(s, p, k + 1, g)  BY <2>3, <2>4 DEF Up
  <2> QED  BY <2>5
<1> HIDE DEF T
<1>3. Nat \subseteq T  BY <1>1, <1>2, AllNaturals
<1> QED  BY <1>3 DEF T

\* From a point it leads to a point.
LEMMA FindCoordIsPoint ==
    ASSUME NEW s, IsGoState(s), NEW p \in Points
    PROVE  FindCoord(s, p) \in Points
<1> DEFINE N == Rows * Columns
           up == CHOOSE f : Up(s, p, N, f)
<1>1. N \in Nat  BY FinitelyManyPoints
<1>2. Up(s, p, N, up)  BY <1>1, UpExists
<1>3. FindCoord(s, p) = up[N]  BY DEF FindCoord, Up
<1> HIDE DEF up, N
<1> DEFINE T == {k \in Nat : k <= N => up[k] \in Points}
<1>4. 0 \in T  BY <1>1, <1>2 DEF Up
<1>5. ASSUME NEW k \in Nat, k \in T  PROVE k + 1 \in T
  <2> SUFFICES ASSUME k + 1 <= N  PROVE up[k + 1] \in Points
    OBVIOUS
  <2>1. k + 1 \in 0..N /\ k + 1 # 0 /\ (k + 1) - 1 = k /\ k <= N  BY <1>1
  <2>2. up[k + 1] = s.parent_id[up[k]]  BY <1>2, <2>1 DEF Up
  <2>3. up[k] \in Points  BY <1>5, <2>1
  <2> QED  BY <2>2, <2>3 DEF IsGoState
<1> HIDE DEF T
<1>6. Nat \subseteq T  BY <1>4, <1>5, AllNaturals
<1>7. N \in T  BY <1>1, <1>6
<1> QED  BY <1>1, <1>3, <1>7 DEF T

\* So the blocks around a point have numbers.
LEMMA NeighbourBlocksAreNumbers ==
    ASSUME NEW s, IsGoState(s), NEW p \in Points, NEW S \in SUBSET NeighbourBlocks(s, p)
    PROVE  IsFiniteSet(S) /\ S \subseteq Int
<1> DEFINE Q == {n \in Neighbours(p) : s.board_state[n] # EMPTY}
           ids == [q \in Q |-> GetBlockIdByCoord(s, q)]
<1>1. Q \subseteq Points  BY DEF Neighbours
<1>2. IsFiniteSet(Q)  BY <1>1, FinitelyManyPoints, FS_Subset
<1>3. ASSUME NEW q \in Q  PROVE GetBlockIdByCoord(s, q) \in Int
  <2>1. FindCoord(s, q) \in Points  BY <1>1, FindCoordIsPoint
  <2> QED  BY <2>1 DEF GetBlockIdByCoord, IsGoState
<1>4. NeighbourBlocks(s, p) = {GetBlockIdByCoord(s, q) : q \in Q}  BY DEF NeighbourBlocks
<1> HIDE DEF Q
<1>5. ids \in Surjection(Q, NeighbourBlocks(s, p))  BY <1>4 DEF Surjection
<1> HIDE DEF ids
<1>6. IsFiniteSet(NeighbourBlocks(s, p))  BY <1>2, <1>5, FS_Surjection
<1> QED  BY <1>3, <1>4, <1>6, FS_Subset
-----------------------------------------------------------------------------
(* The end of a move.                                                      *)

\* GetSensibleMove() adds the stones on the board to the history.
LEMMA GetSensibleMoveIsGoState ==
    ASSUME NEW s, IsGoState(s)
    PROVE  LET t == GetSensibleMove(s)
           IN  /\ IsGoState(t)
               /\ t.feature_history_list =
                     s.feature_history_list \o <<StonesOf(s, BLACK), StonesOf(s, WHITE)>>
               /\ \A f \in Members \ {"block_pool", "block_in_use", "recycled_blocks",
                                     "feature_history_list", "legal_move_map"} : t[f] = s[f]
<1> DEFINE u == RecycleBlock(GetNewBlock(s), NewBlock(s))
           stones == <<StonesOf(s, BLACK), StonesOf(s, WHITE)>>
           list == s.feature_history_list \o stones
           a == [u EXCEPT !.feature_history_list = list]
           t == [a EXCEPT !.legal_move_map = LegalMoves(s)]
<1>1. IsGoState(u) /\ SameButBlocks(s, u)
  BY GetNewBlockIsGoState, RecycleBlockIsGoState DEF SameButBlocks
<1>2. u.feature_history_list = s.feature_history_list
  BY <1>1, MemberNames DEF SameButBlocks
<1>3. GetSensibleMove(s) = t  BY <1>2 DEF GetSensibleMove
<1>4. list \in Seq(SUBSET Points)
  <2>1. stones \in Seq(SUBSET Points)  BY DEF StonesOf
  <2> QED  BY <2>1 DEF IsGoState
<1>5. LegalMoves(s) \in SUBSET Points  BY DEF LegalMoves
<1> HIDE DEF u, list
<1>6. /\ IsRecord(t) /\ t.feature_history_list = list /\ t.legal_move_map = LegalMoves(s)
      /\ \A f \in Members \ {"feature_history_list", "legal_move_map"} : t[f] = u[f]
  <2>1. /\ IsRecord(a) /\ a.feature_history_list = list
        /\ \A f \in Members \ {"feature_history_list"} : a[f] = u[f]
    BY <1>1, MemberNames DEF IsRecord, IsGoState
  <2> HIDE DEF a
  <2>2. /\ IsRecord(t) /\ t.legal_move_map = LegalMoves(s)
        /\ \A f \in Members \ {"legal_move_map"} : t[f] = a[f]
    BY <2>1, MemberNames DEF IsRecord
  <2> HIDE DEF t
  <2> QED  BY <2>1, <2>2, MemberNames
<1> HIDE DEF t
<1>7. IsGoState(t)  BY <1>1, <1>4, <1>5, <1>6, MemberNames DEF IsGoState
<1>8. \A f \in Members \ {"block_pool", "block_in_use", "recycled_blocks",
                         "feature_history_list", "legal_move_map"} : t[f] = s[f]
  BY <1>1, <1>6 DEF SameButBlocks
<1> QED  BY <1>3, <1>6, <1>7, <1>8 DEF list

\* What a move does beside the board: the rules stay, the players alternate, and the stones
\* of both join the history.
Follows(s, t) ==
    /\ IsGoState(t)
    /\ t.positional_superko = s.positional_superko
    /\ t.current_player = Opponent(s.current_player)
    /\ t.feature_history_list =
          s.feature_history_list \o <<StonesOf(t, BLACK), StonesOf(t, WHITE)>>

\* The end of every move: the other player is to move, with a new list of legal moves.
LEMMA EndMoveFollows ==
    ASSUME NEW s, IsGoState(s)
    PROVE  Follows(s, EndMove(s)) /\ EndMove(s).board_state = s.board_state
<1> DEFINE u == [s EXCEPT !.current_player = Opponent(s.current_player)]
           t == GetSensibleMove(u)
           hashes == IF s.positional_superko THEN t.board_hash_states \cup {s.zobrist_hash}
                                             ELSE t.board_hash_states
           e == [t EXCEPT !.board_hash_states = hashes]
<1>1. EndMove(s) = e  BY DEF EndMove
<1>2. Opponent(s.current_player) \in {BLACK, WHITE}
  BY DEF IsGoState, Opponent, BLACK, WHITE
<1>3. /\ IsRecord(u) /\ u.current_player = Opponent(s.current_player)
      /\ \A f \in Members \ {"current_player"} : u[f] = s[f]
  BY MemberNames DEF IsRecord, IsGoState
<1> HIDE DEF u
<1>4. IsGoState(u)  BY <1>2, <1>3, MemberNames DEF IsGoState
<1>5. /\ IsGoState(t)
      /\ t.feature_history_list =
            u.feature_history_list \o <<StonesOf(u, BLACK), StonesOf(u, WHITE)>>
      /\ t.current_player = u.current_player
      /\ t.board_state = u.board_state
      /\ t.positional_superko = u.positional_superko
  BY <1>4, GetSensibleMoveIsGoState, MemberNames
<1> HIDE DEF t, hashes
<1>6. IsRecord(e) /\ \A f \in Members \ {"board_hash_states"} : e[f] = t[f]
  BY <1>5, MemberNames DEF IsRecord, IsGoState
<1> HIDE DEF e
<1>7. IsGoState(e)  BY <1>5, <1>6, MemberNames DEF IsGoState
<1>8. /\ e.current_player = Opponent(s.current_player)
      /\ e.board_state = s.board_state
      /\ e.positional_superko = s.positional_superko
      /\ e.feature_history_list =
            s.feature_history_list \o <<StonesOf(u, BLACK), StonesOf(u, WHITE)>>
  BY <1>3, <1>5, <1>6, MemberNames
<1>9. u.board_state = s.board_state  BY <1>3, MemberNames
<1> QED  BY <1>1, <1>7, <1>8, <1>9 DEF Follows, StonesOf

\* A pass leaves the board.
LEMMA PassFollows ==
    ASSUME NEW s, IsGoState(s)
    PROVE  Follows(s, Pass(s)) /\ Pass(s).board_state = s.board_state
<1> DEFINE hash == GetNewHashValue(s, PASS)
           double == s.last_position = PASS
           a == [s EXCEPT !.is_double_pass = double]
           b == [a EXCEPT !.last_position = PASS]
           c == [b EXCEPT !.ko_position = UNSET]
           t == [c EXCEPT !.zobrist_hash = hash]
<1>1. Pass(s) = EndMove(t)  BY DEF Pass
<1> HIDE DEF hash, double
<1>2. /\ IsRecord(t)
      /\ \A f \in Members \ {"is_double_pass", "last_position", "ko_position",
                            "zobrist_hash"} : t[f] = s[f]
  <2>1. IsRecord(a) /\ \A f \in Members \ {"is_double_pass"} : a[f] = s[f]
    BY MemberNames DEF IsRecord, IsGoState
  <2> HIDE DEF a
  <2>2. IsRecord(b) /\ \A f \in Members \ {"last_position"} : b[f] = a[f]
    BY <2>1, MemberNames DEF IsRecord
  <2> HIDE DEF b
  <2>3. IsRecord(c) /\ \A f \in Members \ {"ko_position"} : c[f] = b[f]
    BY <2>2, MemberNames DEF IsRecord
  <2> HIDE DEF c
  <2>4. IsRecord(t) /\ \A f \in Members \ {"zobrist_hash"} : t[f] = c[f]
    BY <2>3, MemberNames DEF IsRecord
  <2> HIDE DEF t
  <2> QED  BY <2>1, <2>2, <2>3, <2>4
<1> HIDE DEF t
<1>3. IsGoState(t)  BY <1>2, MemberNames DEF IsGoState
<1>4. /\ t.current_player = s.current_player /\ t.board_state = s.board_state
      /\ t.feature_history_list = s.feature_history_list
      /\ t.positional_superko = s.positional_superko
  BY <1>2, MemberNames
<1> QED  BY <1>1, <1>3, <1>4, EndMoveFollows DEF Follows
-----------------------------------------------------------------------------
(* Stones.                                                                 *)

\* The first half of a move: blocks and parents change, the stones do not.
LEMMA MergeIsGoState ==
    ASSUME NEW s, IsGoState(s), NEW p \in Points
    PROVE  LET t == Merge(s, p)
           IN  /\ IsGoState(t)
               /\ \A f \in Members \ {"parent_id", "block_id", "block_pool", "block_in_use",
                                     "recycled_blocks"} : t[f] = s[f]
<1> DEFINE n == GetNewBlock(s)
           id == NewBlock(s)
           tails == {Last(s.block_pool[i].stones) : i \in Joined(s, p)}
           parents == [q \in Points |-> IF q \in tails \cup {p} THEN p ELSE n.parent_id[q]]
           ids == [n.block_id EXCEPT ![p] = id]
           pool == [i \in BlockIds |->
                    IF i = id
                    THEN [TryMove(s, p) EXCEPT !.in_use = TRUE, !.stones = MergedStones(s, p)]
                    ELSE IF i \in NeighbourBlocks(s, p)
                    THEN [n.block_pool[i] EXCEPT !.liberty_state = @ \ {p}]
                    ELSE n.block_pool[i]]
           a == [n EXCEPT !.parent_id = parents]
           b == [a EXCEPT !.block_id = ids]
           t == [b EXCEPT !.block_pool = pool]
<1>1. IsGoState(n) /\ SameButBlocks(s, n) /\ id \in Int  BY GetNewBlockIsGoState
<1>2. parents \in [Points -> Points]  BY <1>1 DEF IsGoState
<1>3. ids \in [Points -> Int]  BY <1>1 DEF IsGoState
<1>4. DOMAIN pool = BlockIds /\ pool = [i \in BlockIds |-> pool[i]]  OBVIOUS
<1>5. /\ IsRecord(a) /\ a.parent_id = parents
      /\ \A f \in Members \ {"parent_id"} : a[f] = n[f]
  <2> HIDE DEF parents, n
  <2> QED  BY <1>1, MemberNames DEF IsRecord, IsGoState
<1>6. a.block_id = n.block_id /\ a.block_pool = n.block_pool  BY <1>5, MemberNames
<1>7. /\ IsRecord(b) /\ b.block_id = ids
      /\ \A f \in Members \ {"block_id"} : b[f] = a[f]
  <2> HIDE DEF ids, a
  <2> QED  BY <1>5, MemberNames DEF IsRecord
<1>8. b.block_pool = n.block_pool
  <2> HIDE DEF b, n, a
  <2> QED  BY <1>6, <1>7, MemberNames
<1>9. Merge(s, p) = RecycleBlocks(t, Joined(s, p))
  BY <1>6, <1>8 DEF Merge
<1>10. /\ IsRecord(t) /\ t.block_pool = pool
       /\ \A f \in Members \ {"block_pool"} : t[f] = b[f]
  <2> HIDE DEF pool, b
  <2> QED  BY <1>7, MemberNames DEF IsRecord
<1> HIDE DEF n, id, tails, parents, ids, pool, a, b, t
<1>11. IsGoState(t)
  BY <1>1, <1>2, <1>3, <1>4, <1>5, <1>7, <1>10, MemberNames DEF IsGoState
<1>12. \A f \in Members \ {"parent_id", "block_id", "block_pool", "block_in_use",
                            "recycled_blocks"} : t[f] = s[f]
  BY <1>1, <1>5, <1>7, <1>10 DEF SameButBlocks
<1>13. IsFiniteSet(Joined(s, p)) /\ Joined(s, p) \subseteq Int
  <2>1. Joined(s, p) \in SUBSET NeighbourBlocks(s, p)  BY DEF Joined
  <2> QED  BY <2>1, NeighbourBlocksAreNumbers
<1>14. IsGoState(Merge(s, p)) /\ SameButBlocks(t, Merge(s, p))
  BY <1>9, <1>11, <1>13, RecycleBlocksIsGoState
<1> QED  BY <1>12, <1>14 DEF SameButBlocks

\* The second half takes stones off the board.
LEMMA CaptureIsGoState ==
    ASSUME NEW s, IsGoState(s), NEW p \in Points, NEW t, IsGoState(t)
    PROVE  LET u == Capture(s, p, t)
           IN  /\ IsGoState(u)
               /\ \A f \in Members \ {"board_state", "block_pool", "block_in_use",
                                     "recycled_blocks"} : u[f] = t[f]
<1> DEFINE captured == UNION {s.block_pool[i].stone_state : i \in Dying(s, p)}
           own(c) == {q \in Neighbours(c) : s.board_state[q] = s.current_player}
           gained(i) == {c \in captured : \E q \in own(c) : GetBlockIdByCoord(t, q) = i}
           board == [q \in Points |-> IF q \in captured THEN EMPTY ELSE t.board_state[q]]
           pool == [i \in BlockIds |->
                      [t.block_pool[i] EXCEPT !.liberty_state = @ \cup gained(i)]]
           a == [t EXCEPT !.board_state = board]
           b == [a EXCEPT !.block_pool = pool]
<1>1. board \in [Points -> {EMPTY, BLACK, WHITE}]  BY DEF IsGoState
<1>2. DOMAIN pool = BlockIds /\ pool = [i \in BlockIds |-> pool[i]]  OBVIOUS
<1>3. /\ IsRecord(a) /\ a.board_state = board
      /\ \A f \in Members \ {"board_state"} : a[f] = t[f]
  <2> HIDE DEF board
  <2> QED  BY MemberNames DEF IsRecord, IsGoState
<1>4. a.block_pool = t.block_pool  BY <1>3, MemberNames
<1>5. Capture(s, p, t) = RecycleBlocks(b, Dying(s, p))
  BY <1>4 DEF Capture
<1>6. /\ IsRecord(b) /\ b.block_pool = pool
      /\ \A f \in Members \ {"block_pool"} : b[f] = a[f]
  <2> HIDE DEF pool, a
  <2> QED  BY <1>3, MemberNames DEF IsRecord
<1> HIDE DEF captured, own, gained, board, pool, a, b
<1>7. IsGoState(b)  BY <1>1, <1>2, <1>3, <1>6, MemberNames DEF IsGoState
<1>8. IsFiniteSet(Dying(s, p)) /\ Dying(s, p) \subseteq Int
  <2>1. Dying(s, p) \in SUBSET NeighbourBlocks(s, p)  BY DEF Dying
  <2> QED  BY <2>1, NeighbourBlocksAreNumbers
<1>9. IsGoState(Capture(s, p, t)) /\ SameButBlocks(b, Capture(s, p, t))
  BY <1>5, <1>7, <1>8, RecycleBlocksIsGoState
<1> QED  BY <1>3, <1>6, <1>9 DEF SameButBlocks

\* A stone.
LEMMA PlaceFollows ==
    ASSUME NEW s, IsGoState(s), NEW p \in Points
    PROVE  Follows(s, Place(s, p))
<1> DEFINE t == Capture(s, p, Merge(s, p))
           ko == KoPosition(s, p)
           hash == GetNewHashValue(s, p)
           counts == LibertyCounts(s, p, t)
           board == [t.board_state EXCEPT ![p] = s.current_player]
           a == [t EXCEPT !.is_double_pass = FALSE]
           b == [a EXCEPT !.last_position = p]
           c == [b EXCEPT !.ko_position = ko]
           d == [c EXCEPT !.zobrist_hash = hash]
           e == [d EXCEPT !.liberty_count = counts]
           u == [e EXCEPT !.board_state = board]
<1>1. /\ IsGoState(t)
      /\ t.current_player = s.current_player
      /\ t.feature_history_list = s.feature_history_list
      /\ t.positional_superko = s.positional_superko
  BY MergeIsGoState, CaptureIsGoState, MemberNames
<1>2. board \in [Points -> {EMPTY, BLACK, WHITE}]  BY <1>1 DEF IsGoState
<1>3. /\ IsRecord(e)
      /\ \A f \in Members \ {"is_double_pass", "last_position", "ko_position",
                            "zobrist_hash", "liberty_count"} : e[f] = t[f]
  <2> HIDE DEF ko, hash, counts, t
  <2>1. IsRecord(a) /\ \A f \in Members \ {"is_double_pass"} : a[f] = t[f]
    BY <1>1, MemberNames DEF IsRecord, IsGoState
  <2> HIDE DEF a
  <2>2. IsRecord(b) /\ \A f \in Members \ {"last_position"} : b[f] = a[f]
    BY <2>1, MemberNames DEF IsRecord
  <2> HIDE DEF b
  <2>3. IsRecord(c) /\ \A f \in Members \ {"ko_position"} : c[f] = b[f]
    BY <2>2, MemberNames DEF IsRecord
  <2> HIDE DEF c
  <2>4. IsRecord(d) /\ \A f \in Members \ {"zobrist_hash"} : d[f] = c[f]
    BY <2>3, MemberNames DEF IsRecord
  <2> HIDE DEF d
  <2>5. IsRecord(e) /\ \A f \in Members \ {"liberty_count"} : e[f] = d[f]
    BY <2>4, MemberNames DEF IsRecord
  <2> HIDE DEF e
  <2> QED  BY <2>1, <2>2, <2>3, <2>4, <2>5
<1>4. e.board_state = t.board_state  BY <1>3, MemberNames
<1>5. Place(s, p) = EndMove(u)  BY <1>4 DEF Place
<1> HIDE DEF e, board, t
<1>6. /\ IsRecord(u) /\ u.board_state = board
      /\ \A f \in Members \ {"board_state"} : u[f] = e[f]
  BY <1>3, MemberNames DEF IsRecord
<1> HIDE DEF u
<1>7. IsGoState(u)  BY <1>1, <1>2, <1>3, <1>6, MemberNames DEF IsGoState
<1>8. /\ u.current_player = s.current_player
      /\ u.feature_history_list = s.feature_history_list
      /\ u.positional_superko = s.positional_superko
  BY <1>1, <1>3, <1>6, MemberNames
<1> QED  BY <1>5, <1>7, <1>8, EndMoveFollows DEF Follows
-----------------------------------------------------------------------------
(* The history of the game.                                                *)

\* A sequence with two elements more.
LEMMA TwoMore ==
    ASSUME NEW S, NEW l \in Seq(S), NEW a \in S, NEW b \in S
    PROVE  LET m == l \o <<a, b>>
           IN  /\ Len(m) = Len(l) + 2
               /\ \A k \in 1..Len(l) : m[k] = l[k]
               /\ m[Len(l) + 1] = a /\ m[Len(l) + 2] = b
<1> DEFINE m == l \o <<a, b>>
<1>1. <<a, b>> \in Seq(S) /\ Len(<<a, b>>) = 2 /\ <<a, b>>[1] = a /\ <<a, b>>[2] = b
  OBVIOUS
<1>2. Len(l) \in Nat /\ Len(m) = Len(l) + 2  BY <1>1
<1>3. \A k \in 1..Len(l) : m[k] = l[k]  BY <1>1, <1>2
<1>4. m[Len(l) + 1] = <<a, b>>[1]  BY <1>1, <1>2
<1>5. m[Len(l) + 2] = <<a, b>>[2]  BY <1>1, <1>2
<1> QED  BY <1>1, <1>2, <1>3, <1>4, <1>5

Positions == [board : [Points -> {EMPTY, BLACK, WHITE}], player : {BLACK, WHITE}]

\* The history holds, for each position but the first, black's stones and white's.
HistoryIsRecord ==
    /\ Len(state.feature_history_list) = 2 * (Len(record) - 1)
    /\ \A k \in 1 .. Len(record) - 1 :
          /\ state.feature_history_list[2 * k - 1] = {p \in Points : record[k + 1].board[p] = BLACK}
          /\ state.feature_history_list[2 * k] = {p \in Points : record[k + 1].board[p] = WHITE}

IInv ==
    /\ IsGoState(state)
    /\ record \in Seq(Positions) /\ record # <<>>
    /\ HistoryIsRecord

\* The first position has no history.
LEMMA InitIInv == Init => IInv
<1> SUFFICES ASSUME Init  PROVE IInv
  OBVIOUS
<1>1. PICK superko \in BOOLEAN : state = NewGame(superko)  BY DEF Init
<1>2. IsGoState(state)  BY <1>1, NewGameIsGoState
<1>3. Position(state) \in Positions  BY <1>2 DEF Position, Positions, IsGoState
<1>4. record = <<Position(state)>>  BY DEF Init
<1>5. record \in Seq(Positions) /\ record # <<>> /\ Len(record) = 1  BY <1>3, <1>4
<1>6. state.feature_history_list = <<>>  BY <1>1 DEF NewGame
<1>7. HistoryIsRecord  BY <1>5, <1>6 DEF HistoryIsRecord
<1> QED  BY <1>2, <1>5, <1>7 DEF IInv

\* A move adds one position and its stones.
LEMMA NextIInv == IInv /\ [Next]_vars => IInv'
<1> SUFFICES ASSUME IInv, [Next]_vars  PROVE IInv'
  OBVIOUS
<1>1. CASE UNCHANGED vars
  BY <1>1 DEF IInv, HistoryIsRecord, vars
<1>2. ASSUME NEW p \in Points \cup {PASS}, Move(p)  PROVE IInv'
  <2> DEFINE list == state.feature_history_list
  <2>1. state' = IF p = PASS THEN Pass(state) ELSE Place(state, p)  BY <1>2 DEF Move
  <2>2. Follows(state, state')
    BY <1>2, <2>1, PassFollows, PlaceFollows DEF IInv
  <2>3. IsGoState(state')  BY <2>2 DEF Follows
  <2>4. Position(state') \in Positions  BY <2>3 DEF Position, Positions, IsGoState
  <2>5. record' = Append(record, Position(state'))  BY <1>2 DEF Move
  <2>6. /\ record' \in Seq(Positions) /\ record' # <<>>
        /\ Len(record') = Len(record) + 1
        /\ record'[Len(record) + 1] = Position(state')
        /\ \A k \in 1..Len(record) : record'[k] = record[k]
    BY <2>4, <2>5 DEF IInv
  <2>7. list' = list \o <<StonesOf(state', BLACK), StonesOf(state', WHITE)>>
    BY <2>2 DEF Follows
  <2>8. /\ Len(list) = 2 * (Len(record) - 1) /\ Len(list) \in Nat
        /\ list \in Seq(SUBSET Points) /\ Len(record) \in Nat
    BY DEF IInv, HistoryIsRecord, IsGoState
  <2> DEFINE b == StonesOf(state', BLACK)
             w == StonesOf(state', WHITE)
  <2>9. b = {q \in Points : Position(state').board[q] = BLACK}
        /\ w = {q \in Points : Position(state').board[q] = WHITE}
    BY DEF StonesOf, Position
  <2>10. b \in SUBSET Points /\ w \in SUBSET Points  BY DEF StonesOf
  <2>11. list' = list \o <<b, w>>  BY <2>7
  <2> HIDE DEF list, b, w
  <2>12. /\ Len(list') = Len(list) + 2
         /\ \A k \in 1..Len(list) : list'[k] = list[k]
         /\ list'[Len(list) + 1] = b /\ list'[Len(list) + 2] = w
    <3> DEFINE S == SUBSET Points
    <3>1. list \in Seq(S) /\ b \in S /\ w \in S  BY <2>8, <2>10
    <3> HIDE DEF S
    <3> QED  BY <2>11, <3>1, TwoMore
  <2>13. ASSUME NEW k \in 1 .. Len(record') - 1
         PROVE  /\ list'[2 * k - 1] = {q \in Points : record'[k + 1].board[q] = BLACK}
                /\ list'[2 * k] = {q \in Points : record'[k + 1].board[q] = WHITE}
    <3>1. CASE k < Len(record)
      <4>1. k \in 1 .. Len(record) - 1 /\ k + 1 \in 1 .. Len(record)
        BY <2>6, <2>8, <3>1
      <4>2. 2 * k - 1 \in 1 .. Len(list) /\ 2 * k \in 1 .. Len(list)
        BY <2>8, <4>1
      <4>3. /\ list[2 * k - 1] = {q \in Points : record[k + 1].board[q] = BLACK}
            /\ list[2 * k] = {q \in Points : record[k + 1].board[q] = WHITE}
        BY <4>1 DEF IInv, HistoryIsRecord, list
      <4>4. record'[k + 1] = record[k + 1]  BY <2>6, <4>1
      <4> QED  BY <2>12, <4>2, <4>3, <4>4
    <3>2. CASE k = Len(record)
      <4>1. 2 * k - 1 = Len(list) + 1 /\ 2 * k = Len(list) + 2  BY <2>8, <3>2
      <4>2. record'[k + 1] = Position(state')  BY <2>6, <3>2
      <4> QED  BY <2>9, <2>12, <4>1, <4>2
    <3> QED  BY <2>6, <2>8, <3>1, <3>2
  <2>14. Len(list') = 2 * (Len(record') - 1)  BY <2>6, <2>8, <2>12
  <2>15. HistoryIsRecord'  BY <2>13, <2>14 DEF HistoryIsRecord, list
  <2> QED  BY <2>3, <2>6, <2>15 DEF IInv
<1> QED  BY <1>1, <1>2 DEF Next

\* A GoState keeps its form through every game, and its history is the game's.
THEOREM Invariance == Spec => []IInv
<1>1. Init => IInv  BY InitIInv
<1>2. IInv /\ [Next]_vars => IInv'  BY NextIInv
<1> QED  BY <1>1, <1>2, PTL DEF Spec

\* The planes of a feature are the last boards, in the order of colours that depends on
\* who is to move.
LEMMA IInvFeatures == IInv => FeaturesShowHistory
<1> SUFFICES ASSUME IInv,
                    NEW k \in 0 .. SIZE_HISTORYEACHSIDE \div 2 - 1
             PROVE  LET n == Len(record)
                        self == state.current_player
                        stones(j, color) ==
                            IF j < n - 1 THEN {p \in Points : record[n - j].board[p] = color}
                            ELSE {}
                    IN  /\ GetFeature(state)[2 * k] = stones(k, self)
                        /\ GetFeature(state)[2 * k + 1] = stones(k, Opponent(self))
  BY DEF FeaturesShowHistory
<1> DEFINE n == Len(record)
           self == state.current_player
           list == state.feature_history_list
           of(j, color) == {p \in Points : record[j].board[p] = color}
<1>1. SIZE_HISTORYEACHSIDE \in Nat /\ SIZE_HISTORYEACHSIDE % 2 = 0  BY BoardAssumption
<1>2. /\ k \in Nat
      /\ 2 * k \in 0 .. SIZE_HISTORYEACHSIDE /\ 2 * k # SIZE_HISTORYEACHSIDE
      /\ 2 * k + 1 \in 0 .. SIZE_HISTORYEACHSIDE /\ 2 * k + 1 # SIZE_HISTORYEACHSIDE
  BY <1>1
<1>3. n \in Nat /\ n >= 1 /\ Len(list) = 2 * (n - 1)
  BY DEF IInv, HistoryIsRecord
<1>4. (2 * k) % 2 = 0 /\ (2 * k + 1) % 2 = 1  BY <1>2
<1>5. self \in {BLACK, WHITE} /\ BLACK = 1 /\ WHITE = 2
  BY DEF IInv, IsGoState, BLACK, WHITE
<1>6. (2 * k < Len(list) <=> k < n - 1) /\ (2 * k + 1 < Len(list) <=> k < n - 1)
  BY <1>2, <1>3
<1>7. GetFeature(state)[2 * k] =
        IF k < n - 1 THEN list[Len(list) - (IF self = BLACK THEN 2 * k + 1 ELSE 2 * k)] ELSE {}
  BY <1>2, <1>4, <1>6 DEF GetFeature
<1>8. GetFeature(state)[2 * k + 1] =
        IF k < n - 1 THEN list[Len(list) - (IF self = BLACK THEN 2 * k ELSE 2 * k + 1)] ELSE {}
  <2>1. (2 * k + 1) - 1 = 2 * k  BY <1>2
  <2> QED  BY <1>2, <1>4, <1>6, <2>1 DEF GetFeature
<1>9. ASSUME k < n - 1
      PROVE  /\ list[Len(list) - (2 * k + 1)] = of(n - k, BLACK)
             /\ list[Len(list) - 2 * k] = of(n - k, WHITE)
  <2>1. n - 1 - k \in 1 .. n - 1 /\ (n - 1 - k) + 1 = n - k  BY <1>2, <1>3, <1>9
  <2>2. /\ 2 * (n - 1 - k) - 1 = Len(list) - (2 * k + 1)
        /\ 2 * (n - 1 - k) = Len(list) - 2 * k
    BY <1>2, <1>3
  <2>3. /\ list[2 * (n - 1 - k) - 1] = of((n - 1 - k) + 1, BLACK)
        /\ list[2 * (n - 1 - k)] = of((n - 1 - k) + 1, WHITE)
    BY <2>1 DEF IInv, HistoryIsRecord
  <2> QED  BY <2>1, <2>2, <2>3
<1>10. Opponent(BLACK) = WHITE /\ Opponent(WHITE) = BLACK  BY DEF Opponent, BLACK, WHITE
<1> QED  BY <1>5, <1>7, <1>8, <1>9, <1>10

\* What the network sees is the history of the game, for boards of every size and any
\* number of planes.
THEOREM Features == Spec => []FeaturesShowHistory
BY Invariance, IInvFeatures, PTL

-----------------------------------------------------------------------------
(* Chains of stones.                                                       *)

\* The points next to those of S.
Around(S) == UNION {Neighbours(x) : x \in S}

\* No part of S is cut off from the rest.
Connected(S) == \A T \in SUBSET S : T # {} /\ Around(T) \cap S \subseteq T => T = S

\* A chain of the color: connected stones, and no other of the color next to one of them.
IsChain(board, color, S) ==
    /\ S \subseteq Points /\ S # {}
    /\ \A q \in S : board[q] = color
    /\ \A q \in S : \A r \in Neighbours(q) : board[r] = color => r \in S
    /\ Connected(S)

\* Neighbours are neighbours of each other.
LEMMA NeighboursMutual ==
    \A p \in Points : /\ Neighbours(p) \subseteq Points /\ p \notin Neighbours(p)
                      /\ \A q \in Neighbours(p) : p \in Neighbours(q)
<1>1. Rows \in Nat /\ Columns \in Nat /\ Columns # 0  BY BoardAssumption
<1>2. Points \subseteq Int  BY FinitelyManyPoints
<1> QED  BY <1>1, <1>2 DEF Neighbours

\* What is next to a set of points.
LEMMA AroundFacts ==
    ASSUME NEW S \in SUBSET Points
    PROVE  /\ Around(S) \subseteq Points
           /\ \A x \in S : Neighbours(x) \subseteq Around(S)
           /\ \A q \in Around(S) : \E x \in S : q \in Neighbours(x) /\ x \in Neighbours(q)
BY NeighboursMutual DEF Around

\* There are as many points as the board has.
LEMMA CountPoints ==
    /\ Cardinality(Points) = Rows * Columns
    /\ \A S \in SUBSET Points : /\ IsFiniteSet(S) /\ Cardinality(S) \in Nat
                                /\ Cardinality(S) <= Rows * Columns
<1>1. Rows * Columns \in Nat /\ IsFiniteSet(Points)  BY FinitelyManyPoints
<1>2. Cardinality(Points) = Rows * Columns
  <2> DEFINE n == Rows * Columns
  <2>1. n \in Nat  BY <1>1
  <2> HIDE DEF n
  <2>2. Cardinality(0 .. n - 1) = IF 0 > n - 1 THEN 0 ELSE (n - 1) - 0 + 1
    BY <2>1, FS_Interval
  <2>3. Cardinality(0 .. n - 1) = n  BY <2>1, <2>2
  <2> QED  BY <2>3 DEF Points, n
<1> QED  BY <1>1, <1>2, FS_Subset, FS_CardinalityType

\* The steps in which Chain grows.
More(board, p, g) == {q \in UNION {Neighbours(x) : x \in g} : board[q] = board[p]}
Grown(board, p, k, f) ==
    f = [i \in 0..k |-> IF i = 0 THEN {p} ELSE f[i - 1] \cup More(board, p, f[i - 1])]

\* They are defined.
LEMMA GrownExists == \A board, p : \A k \in Nat : \E f : Grown(board, p, k, f)
<1> SUFFICES ASSUME NEW board, NEW p  PROVE \A k \in Nat : \E f : Grown(board, p, k, f)
  OBVIOUS
<1> DEFINE T == {k \in Nat : \E f : Grown(board, p, k, f)}
<1>1. 0 \in T
  <2>1. Grown(board, p, 0, [i \in 0..0 |-> {p}])  BY DEF Grown
  <2> QED  BY <2>1
<1>2. ASSUME NEW k \in Nat, k \in T  PROVE k + 1 \in T
  <2>1. PICK f : Grown(board, p, k, f)  BY <1>2
  <2> DEFINE more == f[k] \cup More(board, p, f[k])
             g == [i \in 0..k + 1 |-> IF i = k + 1 THEN more ELSE f[i]]
  <2>2. \A i \in 0..k : f[i] = IF i = 0 THEN {p} ELSE f[i - 1] \cup More(board, p, f[i - 1])
    BY <2>1 DEF Grown
  <2>3. ASSUME NEW i \in 0..k + 1
        PROVE  g[i] = IF i = 0 THEN {p} ELSE g[i - 1] \cup More(board, p, g[i - 1])
    <3>1. CASE i = k + 1
      <4>1. g[i - 1] = f[k] /\ i # 0 /\ g[i] = more  BY <3>1
      <4> HIDE DEF g
      <4> QED  BY <3>1, <4>1
    <3>2. CASE i \in 0..k
      <4>1. g[i] = f[i]  BY <3>2
      <4>2. i # 0 => g[i - 1] = f[i - 1]  BY <3>2
      <4> HIDE DEF g
      <4> QED  BY <2>2, <3>2, <4>1, <4>2
    <3> QED  BY <3>1, <3>2
  <2>4. g = [i \in 0..k + 1 |-> g[i]]  OBVIOUS
  <2> HIDE DEF g
  <2>5. g = [i \in 0..k + 1 |-> IF i = 0 THEN {p} ELSE g[i - 1] \cup More(board, p, g[i - 1])]
    BY <2>3, <2>4
  <2>6. Grown(board, p, k + 1, g)  BY <2>5 DEF Grown
  <2> QED  BY <2>6
<1> HIDE DEF T
<1>3. Nat \subseteq T  BY <1>1, <1>2, AllNaturals
<1> QED  BY <1>3 DEF T

\* There is nothing left to grow after as many steps as there are points.
LEMMA ChainGrows ==
    ASSUME NEW board, NEW p \in Points
    PROVE  LET C == Chain(board, p)
           IN  /\ C \subseteq Points /\ p \in C
               /\ \A x \in C : board[x] = board[p]
               /\ More(board, p, C) \subseteq C
               /\ \A D : p \in D /\ (\A x \in D : \A q \in Neighbours(x) :
                                        board[q] = board[p] => q \in D) => C \subseteq D
<1> DEFINE N == Rows * Columns
           g == CHOOSE f : Grown(board, p, N, f)
<1>1. N \in Nat  BY FinitelyManyPoints
<1>2. Grown(board, p, N, g)  BY <1>1, GrownExists
<1>3. Chain(board, p) = g[N]  BY DEF Chain, Grown, More
<1> HIDE DEF g
<1>4. \A i \in 0..N : g[i] = IF i = 0 THEN {p} ELSE g[i - 1] \cup More(board, p, g[i - 1])
  BY <1>2 DEF Grown
<1> HIDE DEF N
<1>0. \A S \in SUBSET Points : More(board, p, S) \subseteq Points
  BY NeighboursMutual DEF More
<1> DEFINE T == {k \in Nat : k <= N =>
                     /\ g[k] \subseteq Points /\ p \in g[k]
                     /\ \A x \in g[k] : board[x] = board[p]
                     /\ More(board, p, g[k]) \subseteq g[k] \/ Cardinality(g[k]) >= k + 1
                     /\ \A D : p \in D /\ (\A x \in D : \A q \in Neighbours(x) :
                                  board[q] = board[p] => q \in D) => g[k] \subseteq D}
<1>5. 0 \in T
  <2>0. 0 \in 0..N  BY <1>1
  <2>1. g[0] = {p}  BY <1>4, <2>0
  <2>2. Cardinality({p}) = 1  BY FS_Singleton
  <2> QED  BY <2>1, <2>2
<1>6. ASSUME NEW k \in Nat, k \in T  PROVE k + 1 \in T
  <2> DEFINE S == g[k]
             R == g[k + 1]
  <2> SUFFICES ASSUME k + 1 <= N
               PROVE  /\ R \subseteq Points /\ p \in R
                      /\ \A x \in R : board[x] = board[p]
                      /\ More(board, p, R) \subseteq R \/ Cardinality(R) >= k + 2
                      /\ \A D : p \in D /\ (\A x \in D : \A q \in Neighbours(x) :
                                   board[q] = board[p] => q \in D) => R \subseteq D
    <3>1. (k + 1) + 1 = k + 2  OBVIOUS
    <3> QED  BY <3>1
  <2>1. k + 1 \in 0..N /\ k + 1 # 0 /\ (k + 1) - 1 = k /\ k <= N  BY <1>1
  <2>2. R = S \cup More(board, p, S)  BY <1>4, <2>1
  <2>3. /\ S \subseteq Points /\ p \in S
        /\ \A x \in S : board[x] = board[p]
        /\ More(board, p, S) \subseteq S \/ Cardinality(S) >= k + 1
        /\ \A D : p \in D /\ (\A x \in D : \A q \in Neighbours(x) :
                                 board[q] = board[p] => q \in D) => S \subseteq D
    BY <1>6, <2>1
  <2> HIDE DEF S, R
  <2>4. /\ R \subseteq Points /\ p \in R
        /\ \A x \in R : board[x] = board[p]
    BY <1>0, <2>2, <2>3 DEF More
  <2>5. More(board, p, R) \subseteq R \/ Cardinality(R) >= k + 2
    <3>1. CASE More(board, p, S) \subseteq S
      <4>1. R = S  BY <2>2, <3>1
      <4> QED  BY <3>1, <4>1
    <3>2. CASE ~ (More(board, p, S) \subseteq S)
      <4>1. PICK q \in More(board, p, S) : q \notin S  BY <3>2
      <4>2. Cardinality(S) >= k + 1 /\ IsFiniteSet(S) /\ Cardinality(S) \in Nat
        BY <2>3, <3>2, CountPoints
      <4>3. Cardinality(S \cup {q}) = Cardinality(S) + 1  BY <4>1, <4>2, FS_AddElement
      <4>4. S \cup {q} \in SUBSET R /\ IsFiniteSet(R) /\ Cardinality(R) \in Nat
        BY <2>2, <2>4, <4>1, CountPoints
      <4>5. Cardinality(S \cup {q}) <= Cardinality(R)  BY <4>4, FS_Subset
      <4> QED  BY <4>2, <4>3, <4>4, <4>5
    <3> QED  BY <3>1, <3>2
  <2>6. ASSUME NEW D, p \in D,
               \A x \in D : \A q \in Neighbours(x) : board[q] = board[p] => q \in D
        PROVE  R \subseteq D
    <3>1. S \subseteq D  BY <2>3, <2>6
    <3>2. More(board, p, S) \subseteq D  BY <2>6, <3>1 DEF More
    <3> QED  BY <2>2, <3>1, <3>2
  <2> QED  BY <2>4, <2>5, <2>6
<1> HIDE DEF T
<1>7. N \in T
  <2>1. Nat \subseteq T  BY <1>5, <1>6, AllNaturals
  <2> QED  BY <1>1, <2>1
<1>8. /\ g[N] \subseteq Points /\ p \in g[N]
      /\ \A x \in g[N] : board[x] = board[p]
      /\ More(board, p, g[N]) \subseteq g[N] \/ Cardinality(g[N]) >= N + 1
      /\ \A D : p \in D /\ (\A x \in D : \A q \in Neighbours(x) :
                                board[q] = board[p] => q \in D) => g[N] \subseteq D
  BY <1>1, <1>7 DEF T
<1>9. More(board, p, g[N]) \subseteq g[N]
  <2>1. Cardinality(g[N]) <= N /\ Cardinality(g[N]) \in Nat  BY <1>8, CountPoints DEF N
  <2> QED  BY <1>1, <1>8, <2>1
<1> QED  BY <1>3, <1>8, <1>9

\* A chain is the Chain of each of its stones.
LEMMA ChainIs ==
    ASSUME NEW board, NEW color, NEW S, IsChain(board, color, S), NEW p \in S
    PROVE  Chain(board, p) = S
<1>0. \E C : C = Chain(board, p)  OBVIOUS
<1> PICK C : C = Chain(board, p)  BY <1>0
<1>1. S \subseteq Points /\ p \in Points /\ board[p] = color  BY DEF IsChain
<1>2. /\ p \in C /\ More(board, p, C) \subseteq C
      /\ \A D : p \in D /\ (\A x \in D : \A q \in Neighbours(x) :
                               board[q] = board[p] => q \in D) => C \subseteq D
  BY <1>1, ChainGrows
<1>3. C \subseteq S
  <2>1. \A x \in S : \A q \in Neighbours(x) : board[q] = board[p] => q \in S
    BY <1>1 DEF IsChain
  <2> QED  BY <1>2, <2>1
<1>4. Around(C) \cap S \subseteq C
  <2>1. \A q \in S : board[q] = board[p]  BY <1>1 DEF IsChain
  <2> QED  BY <1>2, <2>1 DEF Around, More
<1> QED  BY <1>2, <1>3, <1>4 DEF IsChain, Connected

-----------------------------------------------------------------------------
(* What the blocks hold.                                                   *)

GoBlocks == [in_use : BOOLEAN, color : {EMPTY, BLACK, WHITE}, stones : Seq(Points),
             stone_state : SUBSET Points, liberty_state : SUBSET Points,
             virtual_liberty_state : SUBSET Points]

Used(s) == {i \in BlockIds : s.block_pool[i].in_use}

\* Block i of s is a chain with all its liberties, of which there are some.
GoodBlock(s, i) ==
    LET b == s.block_pool[i]
    IN  /\ b.color \in {BLACK, WHITE}
        /\ IsChain(s.board_state, b.color, b.stone_state)
        /\ b.liberty_state = {r \in Around(b.stone_state) : s.board_state[r] = EMPTY}
        /\ b.liberty_state # {}
        /\ b.virtual_liberty_state = Around(b.stone_state) \ b.stone_state
        /\ b.stones # <<>> /\ ToSet(b.stones) = b.stone_state
        /\ Len(b.stones) = Cardinality(b.stone_state)

\* The parents of the stones S lead to root; h is the height of a stone above it.
Tree(s, h, S, root) ==
    /\ root \in S /\ s.parent_id[root] = root
    /\ \A q \in S : /\ h[q] \in Nat /\ h[q] < Cardinality(S)
                    /\ q # root => s.parent_id[q] \in S /\ h[s.parent_id[q]] < h[q]

\* The root is the tail of the block, which bears its number.
Rooted(s, h, i) ==
    LET b == s.block_pool[i]
    IN  Tree(s, h, b.stone_state, Last(b.stones)) /\ s.block_id[Last(b.stones)] = i

\* Every stone is in one block.
Blocks(s, h) ==
    /\ h \in [Points -> Nat]
    /\ s.block_pool \in [BlockIds -> GoBlocks]
    /\ \A i \in Used(s) : GoodBlock(s, i) /\ Rooted(s, h, i)
    /\ \A q \in Points : s.board_state[q] # EMPTY =>
                            \E i \in Used(s) : q \in s.block_pool[i].stone_state
    /\ \A i, j \in Used(s) :
          s.block_pool[i].stone_state \cap s.block_pool[j].stone_state # {} => i = j

\* The count of a point is that of its block, and 0 where there is none.
Counts(s) ==
    \A q \in Points :
        /\ s.board_state[q] = EMPTY => s.liberty_count[q] = 0
        /\ \A i \in Used(s) : q \in s.block_pool[i].stone_state =>
                                 s.liberty_count[q] = Liberties(s.block_pool[i])

\* From every stone of the tree FindCoord comes to its root.
LEMMA FindCoordIsRoot ==
    ASSUME NEW s, NEW h, NEW S \in SUBSET Points, NEW root, Tree(s, h, S, root), NEW p \in S
    PROVE  FindCoord(s, p) = root
<1> DEFINE N == Rows * Columns
           up == CHOOSE f : Up(s, p, N, f)
<1>1. N \in Nat  BY FinitelyManyPoints
<1>2. Up(s, p, N, up)  BY <1>1, UpExists
<1>3. FindCoord(s, p) = up[N]  BY DEF FindCoord, Up
<1>4. Cardinality(S) <= N /\ Cardinality(S) \in Nat  BY CountPoints
<1> HIDE DEF up, N
<1> DEFINE T == {k \in Nat : k <= N =>
                     up[k] \in S /\ (up[k] = root \/ h[up[k]] <= h[p] - k)}
<1>5. 0 \in T
  <2>1. 0 \in 0..N  BY <1>1
  <2>2. up[0] = p  BY <1>2, <2>1 DEF Up
  <2>3. h[p] \in Nat  BY DEF Tree
  <2> QED  BY <2>2, <2>3
<1>6. ASSUME NEW k \in Nat, k \in T  PROVE k + 1 \in T
  <2> SUFFICES ASSUME k + 1 <= N
               PROVE up[k + 1] \in S /\ (up[k + 1] = root \/ h[up[k + 1]] <= h[p] - (k + 1))
    OBVIOUS
  <2>1. k + 1 \in 0..N /\ k + 1 # 0 /\ (k + 1) - 1 = k /\ k <= N  BY <1>1
  <2>2. up[k + 1] = s.parent_id[up[k]]  BY <1>2, <2>1 DEF Up
  <2>3. up[k] \in S /\ (up[k] = root \/ h[up[k]] <= h[p] - k)  BY <1>6, <2>1
  <2>4. CASE up[k] = root  BY <2>2, <2>4 DEF Tree
  <2>5. CASE up[k] # root
    <3>1. up[k + 1] \in S /\ h[up[k + 1]] < h[up[k]]  BY <2>2, <2>3, <2>5 DEF Tree
    <3>2. h[up[k + 1]] \in Nat /\ h[up[k]] \in Nat /\ h[p] \in Nat  BY <2>3, <3>1 DEF Tree
    <3> QED  BY <2>3, <2>5, <3>1, <3>2
  <2> QED  BY <2>4, <2>5
<1> HIDE DEF T
<1>7. N \in T
  <2>1. Nat \subseteq T  BY <1>5, <1>6, AllNaturals
  <2> QED  BY <1>1, <2>1
<1>8. up[N] \in S /\ (up[N] = root \/ h[up[N]] <= h[p] - N)  BY <1>1, <1>7 DEF T
<1>9. h[up[N]] \in Nat /\ h[p] \in Nat /\ h[p] < Cardinality(S)  BY <1>8 DEF Tree
<1> QED  BY <1>1, <1>3, <1>4, <1>8, <1>9

\* The fields of a block.
LEMMA BlockTypes ==
    ASSUME NEW s, NEW h, Blocks(s, h)
    PROVE  \A i \in BlockIds :
              /\ s.block_pool[i] \in GoBlocks
              /\ s.block_pool[i].stone_state \in SUBSET Points
              /\ s.block_pool[i].liberty_state \in SUBSET Points
              /\ s.block_pool[i].virtual_liberty_state \in SUBSET Points
              /\ s.block_pool[i].stones \in Seq(Points)
              /\ s.block_pool[i].color \in {EMPTY, BLACK, WHITE}
              /\ s.block_pool[i].in_use \in BOOLEAN
<1> SUFFICES ASSUME NEW i \in BlockIds
             PROVE  /\ s.block_pool[i] \in GoBlocks
                    /\ s.block_pool[i].stone_state \in SUBSET Points
                    /\ s.block_pool[i].liberty_state \in SUBSET Points
                    /\ s.block_pool[i].virtual_liberty_state \in SUBSET Points
                    /\ s.block_pool[i].stones \in Seq(Points)
                    /\ s.block_pool[i].color \in {EMPTY, BLACK, WHITE}
                    /\ s.block_pool[i].in_use \in BOOLEAN
  OBVIOUS
<1>1. s.block_pool[i] \in GoBlocks  BY DEF Blocks
<1> QED  BY <1>1 DEF GoBlocks

\* GetBlockIdByCoord() is the number of the block a stone is in.
LEMMA BlockIdIs ==
    ASSUME NEW s, NEW h, Blocks(s, h), NEW i \in Used(s), NEW q \in s.block_pool[i].stone_state
    PROVE  GetBlockIdByCoord(s, q) = i
<1> DEFINE S == s.block_pool[i].stone_state
           root == Last(s.block_pool[i].stones)
<1>1. Tree(s, h, S, root) /\ s.block_id[root] = i  BY DEF Blocks, Rooted
<1>2. S \in SUBSET Points  BY BlockTypes DEF Used
<1> HIDE DEF S, root
<1>3. FindCoord(s, q) = root  BY <1>1, <1>2, FindCoordIsRoot DEF S
<1> QED  BY <1>1, <1>3 DEF GetBlockIdByCoord

\* The blocks next to an empty point are those that have it as a liberty.
LEMMA NeighbourBlocksAre ==
    ASSUME NEW s, NEW h, Blocks(s, h), NEW p \in Points, s.board_state[p] = EMPTY
    PROVE  /\ NeighbourBlocks(s, p) = {i \in Used(s) : p \in s.block_pool[i].liberty_state}
           /\ \A i \in NeighbourBlocks(s, p) :
                 \E q \in Neighbours(p) : q \in s.block_pool[i].stone_state
<1>1. ASSUME NEW q \in Neighbours(p), s.board_state[q] # EMPTY
      PROVE  /\ GetBlockIdByCoord(s, q) \in Used(s)
             /\ p \in s.block_pool[GetBlockIdByCoord(s, q)].liberty_state
             /\ q \in s.block_pool[GetBlockIdByCoord(s, q)].stone_state
  <2>1. q \in Points /\ p \in Neighbours(q)  BY NeighboursMutual
  <2>2. PICK i \in Used(s) : q \in s.block_pool[i].stone_state  BY <1>1, <2>1 DEF Blocks
  <2>3. GetBlockIdByCoord(s, q) = i  BY <2>2, BlockIdIs
  <2>4. p \in Around(s.block_pool[i].stone_state)  BY <2>1, <2>2 DEF Around
  <2>5. p \in s.block_pool[i].liberty_state  BY <2>2, <2>4 DEF Blocks, GoodBlock
  <2> QED  BY <2>2, <2>3, <2>5
<1>2. ASSUME NEW i \in Used(s), p \in s.block_pool[i].liberty_state
      PROVE  \E q \in Neighbours(p) : /\ s.board_state[q] # EMPTY
                                      /\ q \in s.block_pool[i].stone_state
                                      /\ GetBlockIdByCoord(s, q) = i
  <2> DEFINE S == s.block_pool[i].stone_state
  <2>1. GoodBlock(s, i) /\ S \in SUBSET Points  BY BlockTypes DEF Blocks, Used
  <2>2. p \in Around(S)  BY <1>2, <2>1 DEF GoodBlock
  <2>3. PICK q \in S : q \in Neighbours(p)  BY <2>1, <2>2, AroundFacts
  <2>4. s.board_state[q] # EMPTY
    BY <2>1, <2>3 DEF GoodBlock, IsChain, EMPTY, BLACK, WHITE
  <2>5. GetBlockIdByCoord(s, q) = i  BY <2>3, BlockIdIs
  <2> QED  BY <2>3, <2>4, <2>5
<1>3. NeighbourBlocks(s, p) =
        {GetBlockIdByCoord(s, q) : q \in {n \in Neighbours(p) : s.board_state[n] # EMPTY}}
  BY DEF NeighbourBlocks
<1>4. NeighbourBlocks(s, p) \subseteq {i \in Used(s) : p \in s.block_pool[i].liberty_state}
  BY <1>1, <1>3
<1>5. {i \in Used(s) : p \in s.block_pool[i].liberty_state} \subseteq NeighbourBlocks(s, p)
  BY <1>2, <1>3
<1> QED  BY <1>2, <1>4, <1>5

-----------------------------------------------------------------------------
(* A stone on an empty point.                                              *)

\* The stones it captures, those of its block, and the board that it leaves.
Captured(s, p) == UNION {s.block_pool[i].stone_state : i \in Dying(s, p)}
Formed(s, p) == {p} \cup UNION {s.block_pool[i].stone_state : i \in Joined(s, p)}
BoardAfter(s, p) ==
    [q \in Points |-> IF q = p THEN s.current_player
                      ELSE IF q \in Captured(s, p) THEN EMPTY ELSE s.board_state[q]]

\* There are two players.
LEMMA Players ==
    \A c \in {BLACK, WHITE} : /\ Opponent(c) \in {BLACK, WHITE} /\ Opponent(c) # c
                              /\ Opponent(Opponent(c)) = c /\ c # EMPTY
                              /\ \A d \in {BLACK, WHITE} : d # c <=> d = Opponent(c)
BY DEF Opponent, BLACK, WHITE, EMPTY

\* Which blocks it joins, and which it captures.
LEMMA JoinedDying ==
    ASSUME NEW s, IsGoState(s), NEW h, Blocks(s, h), NEW p \in Points, s.board_state[p] = EMPTY
    PROVE  /\ Joined(s, p) = {i \in Used(s) : /\ p \in s.block_pool[i].liberty_state
                                              /\ s.block_pool[i].color = s.current_player}
           /\ Dying(s, p) = {i \in Used(s) : /\ s.block_pool[i].liberty_state = {p}
                                             /\ s.block_pool[i].color = Opponent(s.current_player)}
<1>1. NeighbourBlocks(s, p) = {i \in Used(s) : p \in s.block_pool[i].liberty_state}
  BY NeighbourBlocksAre
<1>2. s.current_player \in {BLACK, WHITE}  BY DEF IsGoState
<1>3. Joined(s, p) = {i \in Used(s) : /\ p \in s.block_pool[i].liberty_state
                                      /\ s.block_pool[i].color = s.current_player}
  BY <1>1 DEF Joined
<1>4. ASSUME NEW i \in Used(s)
      PROVE  i \in Dying(s, p) <=> /\ s.block_pool[i].liberty_state = {p}
                                   /\ s.block_pool[i].color = Opponent(s.current_player)
  <2> DEFINE b == s.block_pool[i]
             L == b.liberty_state
  <2>1. b.color \in {BLACK, WHITE}  BY DEF Blocks, GoodBlock
  <2>2. L \in SUBSET Points  BY BlockTypes DEF Used
  <2>3. IsFiniteSet(L)  BY <2>2, CountPoints
  <2>4. i \in Dying(s, p) <=> p \in L /\ b.color # s.current_player /\ Liberties(b) = 1
    BY <1>1, <1>3 DEF Dying
  <2>5. Liberties(b) = 1 <=> \E x : L = {x}  BY <2>3, FS_Singleton DEF Liberties
  <2>6. b.color # s.current_player <=> b.color = Opponent(s.current_player)
    BY <1>2, <2>1, Players
  <2> HIDE DEF b, L
  <2>7. p \in L /\ (\E x : L = {x}) <=> L = {p}  OBVIOUS
  <2> QED  BY <2>4, <2>5, <2>6, <2>7 DEF b, L
<1>5. Dying(s, p) \subseteq Used(s)  BY <1>1 DEF Dying
<1> QED  BY <1>3, <1>4, <1>5

\* The board after it, by points.
LEMMA AfterFacts ==
    ASSUME NEW s, IsGoState(s), NEW h, Blocks(s, h), NEW p \in Points, s.board_state[p] = EMPTY
    PROVE  /\ Captured(s, p) \subseteq Points /\ Formed(s, p) \subseteq Points
           /\ p \notin Captured(s, p) /\ Captured(s, p) \cap Formed(s, p) = {}
           /\ \A q \in Captured(s, p) : s.board_state[q] = Opponent(s.current_player)
           /\ \A q \in Formed(s, p) \ {p} : s.board_state[q] = s.current_player
           /\ \A q \in Formed(s, p) : BoardAfter(s, p)[q] = s.current_player
           /\ \A q \in Points : BoardAfter(s, p)[q] =
                 IF q = p THEN s.current_player
                 ELSE IF q \in Captured(s, p) THEN EMPTY ELSE s.board_state[q]
           /\ BoardAfter(s, p) \in [Points -> {EMPTY, BLACK, WHITE}]
<1>1. s.current_player \in {BLACK, WHITE} /\ s.board_state \in [Points -> {EMPTY, BLACK, WHITE}]
  BY DEF IsGoState
<1>2. /\ Opponent(s.current_player) \in {BLACK, WHITE}
      /\ Opponent(s.current_player) # s.current_player
      /\ s.current_player # EMPTY /\ Opponent(s.current_player) # EMPTY
  BY <1>1, Players
<1>3. ASSUME NEW q \in Captured(s, p)
      PROVE  q \in Points /\ s.board_state[q] = Opponent(s.current_player)
  <2>1. PICK i \in Dying(s, p) : q \in s.block_pool[i].stone_state  BY DEF Captured
  <2>2. i \in Used(s) /\ s.block_pool[i].color = Opponent(s.current_player)
    BY <2>1, JoinedDying
  <2> QED  BY <2>1, <2>2 DEF Blocks, GoodBlock, IsChain
<1>4. ASSUME NEW q \in Formed(s, p), q # p
      PROVE  q \in Points /\ s.board_state[q] = s.current_player
  <2>1. PICK i \in Joined(s, p) : q \in s.block_pool[i].stone_state  BY <1>4 DEF Formed
  <2>2. i \in Used(s) /\ s.block_pool[i].color = s.current_player
    BY <2>1, JoinedDying
  <2> QED  BY <2>1, <2>2 DEF Blocks, GoodBlock, IsChain
<1>5. p \notin Captured(s, p) /\ Captured(s, p) \cap Formed(s, p) = {}
  BY <1>2, <1>3, <1>4
<1>6. \A q \in Points : BoardAfter(s, p)[q] =
         IF q = p THEN s.current_player
         ELSE IF q \in Captured(s, p) THEN EMPTY ELSE s.board_state[q]
  BY DEF BoardAfter
<1>7. BoardAfter(s, p) \in [Points -> {EMPTY, BLACK, WHITE}]
  BY <1>1 DEF BoardAfter
<1>8. \A q \in Formed(s, p) : BoardAfter(s, p)[q] = s.current_player
  BY <1>4, <1>5, <1>6
<1> QED  BY <1>3, <1>4, <1>5, <1>6, <1>7, <1>8

\* The stone and the blocks it joins are a chain of the board after it.
LEMMA FormedIsChain ==
    ASSUME NEW s, IsGoState(s), NEW h, Blocks(s, h), NEW p \in Points, s.board_state[p] = EMPTY
    PROVE  IsChain(BoardAfter(s, p), s.current_player, Formed(s, p))
<1> DEFINE c == s.current_player
           B == s.board_state
           A == BoardAfter(s, p)
           M == Formed(s, p)
           S(i) == s.block_pool[i].stone_state
<1>1. c \in {BLACK, WHITE} /\ c # EMPTY  BY Players DEF IsGoState
<1>2. M \subseteq Points /\ p \in M /\ \A q \in M : A[q] = c
  BY AfterFacts DEF Formed
<1>3. \A q \in Points : A[q] = c => q = p \/ B[q] = c
  BY <1>1, AfterFacts
<1>4. \A i \in Joined(s, p) : /\ i \in Used(s) /\ p \in s.block_pool[i].liberty_state
                              /\ s.block_pool[i].color = c
  BY JoinedDying
<1>5. \A i \in Joined(s, p) : IsChain(B, c, S(i))  BY <1>4 DEF Blocks, GoodBlock
<1>6. \A i \in Joined(s, p) : \E q \in S(i) : q \in Neighbours(p)
  <2>1. \A i \in Joined(s, p) : i \in NeighbourBlocks(s, p)  BY DEF Joined
  <2> QED  BY <2>1, NeighbourBlocksAre
<1>7. ASSUME NEW q \in M, NEW r \in Neighbours(q), A[r] = c  PROVE r \in M
  <2>1. q \in Points /\ r \in Points /\ q \in Neighbours(r)  BY <1>2, NeighboursMutual
  <2>2. CASE r = p  BY <1>2, <2>2
  <2>3. CASE r # p /\ q = p
    <3>1. B[r] = c  BY <1>3, <1>7, <2>1, <2>3
    <3>2. PICK i \in Used(s) : r \in S(i)  BY <1>1, <2>1, <3>1 DEF Blocks
    <3>3. s.block_pool[i].color = c  BY <3>1, <3>2 DEF Blocks, GoodBlock, IsChain
    <3>4. p \in Around(S(i))  BY <2>1, <2>3, <3>2 DEF Around
    <3>5. p \in s.block_pool[i].liberty_state  BY <3>2, <3>4 DEF Blocks, GoodBlock
    <3>6. i \in Joined(s, p)  BY <3>2, <3>3, <3>5, JoinedDying
    <3> QED  BY <3>2, <3>6 DEF Formed
  <2>4. CASE r # p /\ q # p
    <3>1. B[r] = c  BY <1>3, <1>7, <2>1, <2>4
    <3>2. PICK i \in Joined(s, p) : q \in S(i)  BY <2>4 DEF Formed
    <3>3. r \in S(i)  BY <1>5, <3>1, <3>2 DEF IsChain
    <3> QED  BY <3>3 DEF Formed
  <2> QED  BY <2>2, <2>3, <2>4
<1>8. ASSUME NEW T \in SUBSET M, T # {}, Around(T) \cap M \subseteq T  PROVE T = M
  <2>1. ASSUME NEW i \in Joined(s, p), T \cap S(i) # {}  PROVE S(i) \subseteq T
    <3>1. S(i) \subseteq M  BY DEF Formed
    <3>2. Around(T \cap S(i)) \cap S(i) \subseteq T \cap S(i)  BY <1>8, <3>1 DEF Around
    <3>3. T \cap S(i) = S(i)  BY <1>5, <2>1, <3>2 DEF IsChain, Connected
    <3> QED  BY <3>3
  <2>2. p \in T
    <3>1. PICK t \in T : TRUE  BY <1>8
    <3>2. CASE t = p  BY <3>1, <3>2
    <3>3. CASE t # p
      <4>1. PICK i \in Joined(s, p) : t \in S(i)  BY <3>1, <3>3 DEF Formed
      <4>2. S(i) \subseteq T  BY <2>1, <3>1, <4>1
      <4>3. PICK q \in S(i) : q \in Neighbours(p)  BY <1>6
      <4>4. q \in T /\ p \in Neighbours(q)  BY <4>2, <4>3, NeighboursMutual
      <4>5. p \in Around(T)  BY <4>4 DEF Around
      <4> QED  BY <1>2, <1>8, <4>5
    <3> QED  BY <3>2, <3>3
  <2>3. ASSUME NEW i \in Joined(s, p)  PROVE S(i) \subseteq T
    <3>1. PICK q \in S(i) : q \in Neighbours(p)  BY <1>6
    <3>2. q \in Around(T) /\ q \in M  BY <2>2, <3>1 DEF Around, Formed
    <3>3. q \in T  BY <1>8, <3>2
    <3> QED  BY <2>1, <3>1, <3>3
  <2>4. M \subseteq T  BY <2>2, <2>3 DEF Formed
  <2> QED  BY <2>4
<1> HIDE DEF A, M, c
<1>9. Connected(M)  BY <1>8 DEF Connected
<1>10. M # {}  BY <1>2
<1>11. IsChain(A, c, M)  BY <1>2, <1>7, <1>9, <1>10 DEF IsChain
<1> QED  BY <1>11 DEF A, M, c

\* TryMove() computes this block with its liberties.
LEMMA TryMoveIs ==
    ASSUME NEW s, IsGoState(s), NEW h, Blocks(s, h), NEW p \in Points, s.board_state[p] = EMPTY
    PROVE  LET b == TryMove(s, p)
           IN  /\ b = [in_use |-> FALSE, color |-> s.current_player, stones |-> <<>>,
                       stone_state |-> Formed(s, p),
                       virtual_liberty_state |-> Around(Formed(s, p)) \ Formed(s, p),
                       liberty_state |-> {r \in Around(Formed(s, p)) :
                                             BoardAfter(s, p)[r] = EMPTY}]
<1> DEFINE c == s.current_player
           B == s.board_state
           A == BoardAfter(s, p)
           M == Formed(s, p)
           S(i) == s.block_pool[i].stone_state
           V(i) == s.block_pool[i].virtual_liberty_state
           L(i) == s.block_pool[i].liberty_state
           J == Joined(s, p)
           joined == {s.block_pool[i] : i \in J}
           dying == {s.block_pool[i] : i \in Dying(s, p)}
           virtual == (Neighbours(p) \cup UNION {b.virtual_liberty_state : b \in joined}) \ M
           open == {q \in Neighbours(p) : B[q] = EMPTY}
           liberties == virtual \cap (open \cup (UNION {b.liberty_state : b \in joined})
                                           \cup (UNION {b.stone_state : b \in dying}))
<1>1. /\ UNION {b.stone_state : b \in joined} = UNION {S(i) : i \in J}
      /\ UNION {b.virtual_liberty_state : b \in joined} = UNION {V(i) : i \in J}
      /\ UNION {b.liberty_state : b \in joined} = UNION {L(i) : i \in J}
      /\ UNION {b.stone_state : b \in dying} = Captured(s, p)
  BY DEF Captured
<1>2. M = {p} \cup UNION {b.stone_state : b \in joined}  BY <1>1 DEF Formed
<1>3. TryMove(s, p) = [in_use |-> FALSE, color |-> c, stones |-> <<>>,
                       stone_state |-> M, virtual_liberty_state |-> virtual,
                       liberty_state |-> liberties]
  BY <1>2 DEF TryMove
<1>4. \A i \in J : /\ V(i) = Around(S(i)) \ S(i)
                   /\ L(i) = {r \in Around(S(i)) : B[r] = EMPTY}
  <2>1. J \subseteq Used(s)  BY JoinedDying
  <2> QED  BY <2>1 DEF Blocks, GoodBlock
<1>5. Around(M) = Neighbours(p) \cup UNION {Around(S(i)) : i \in J}
  BY DEF Around, Formed
<1>6. virtual = Around(M) \ M
  <2>1. \A i \in J : S(i) \subseteq M  BY DEF Formed
  <2>2. virtual = (Neighbours(p) \cup UNION {V(i) : i \in J}) \ M  BY <1>1
  <2> QED  BY <1>4, <1>5, <2>1, <2>2
<1>7. c # EMPTY  BY Players DEF IsGoState
<1>8. /\ M \subseteq Points
      /\ \A q \in M : A[q] = c
      /\ \A q \in Points : A[q] = EMPTY <=> q \in Captured(s, p) \/ (q # p /\ B[q] = EMPTY)
      /\ p \in M
  BY <1>7, AfterFacts DEF Formed
<1>9. Around(M) \subseteq Points  BY <1>8, AroundFacts
<1>10. liberties = {r \in Around(M) : A[r] = EMPTY}
  <2>1. liberties = virtual \cap (open \cup (UNION {L(i) : i \in J}) \cup Captured(s, p))
    BY <1>1
  <2>2. ASSUME NEW r \in Around(M), A[r] = EMPTY  PROVE r \in liberties
    <3>1. r \notin M /\ r \in virtual  BY <1>6, <1>7, <1>8, <2>2
    <3>2. r \in Points  BY <1>9
    <3>3. CASE r \in Captured(s, p)  BY <2>1, <3>1, <3>3
    <3>4. CASE B[r] = EMPTY
      <4>1. CASE r \in Neighbours(p)
        <5>1. r \in open  BY <3>4, <4>1
        <5> QED  BY <2>1, <3>1, <5>1
      <4>2. CASE r \notin Neighbours(p)
        <5>1. PICK i \in J : r \in Around(S(i))  BY <1>5, <4>2
        <5>2. r \in L(i)  BY <1>4, <3>4, <5>1
        <5> QED  BY <2>1, <3>1, <5>2
      <4> QED  BY <4>1, <4>2
    <3> QED  BY <1>8, <2>2, <3>2, <3>3, <3>4
  <2>3. ASSUME NEW r \in liberties  PROVE r \in Around(M) /\ A[r] = EMPTY
    <3>1. r \in Around(M) /\ r \notin M /\ r \in Points /\ r # p
      BY <1>6, <1>8, <1>9, <2>1
    <3>2. r \in Captured(s, p) \/ B[r] = EMPTY
      <4>1. \A i \in J : \A x \in L(i) : B[x] = EMPTY  BY <1>4
      <4> QED  BY <2>1, <4>1
    <3> QED  BY <1>8, <3>1, <3>2
  <2> HIDE DEF liberties, A
  <2> QED  BY <2>2, <2>3
<1> HIDE DEF virtual, liberties
<1> QED  BY <1>3, <1>6, <1>10

\* The blocks that the stone neither joins nor captures stay chains.  Those of the opponent
\* lose the point as a liberty, those of the player gain the captured ones next to them.
LEMMA OthersAfter ==
    ASSUME NEW s, IsGoState(s), NEW h, Blocks(s, h), NEW p \in Points, s.board_state[p] = EMPTY,
           NEW i \in Used(s), i \notin Joined(s, p), i \notin Dying(s, p)
    PROVE  LET b == s.block_pool[i]
               S == b.stone_state
               open == {r \in Around(S) : BoardAfter(s, p)[r] = EMPTY}
           IN  /\ S \cap Formed(s, p) = {} /\ S \cap Captured(s, p) = {}
               /\ IsChain(BoardAfter(s, p), b.color, S)
               /\ b.color = Opponent(s.current_player) => open = b.liberty_state \ {p}
               /\ b.color = s.current_player =>
                     p \notin b.liberty_state
                       /\ open = b.liberty_state \cup (Captured(s, p) \cap Around(S))
               /\ open # {}
<1> DEFINE c == s.current_player
           B == s.board_state
           A == BoardAfter(s, p)
           X == Captured(s, p)
           col == s.block_pool[i].color
           S == s.block_pool[i].stone_state
           L == s.block_pool[i].liberty_state
           open == {r \in Around(S) : A[r] = EMPTY}
<1>1. /\ c \in {BLACK, WHITE} /\ c # EMPTY /\ Opponent(c) # c /\ Opponent(c) # EMPTY
      /\ Opponent(c) \in {BLACK, WHITE}
      /\ \A d \in {BLACK, WHITE} : d # c <=> d = Opponent(c)
  BY Players DEF IsGoState
<1>2. /\ col \in {BLACK, WHITE} /\ IsChain(B, col, S)
      /\ L = {r \in Around(S) : B[r] = EMPTY} /\ L # {}
  BY DEF Blocks, GoodBlock
<1>3. col # EMPTY /\ (col = c \/ col = Opponent(c))  BY <1>1, <1>2, Players
<1>4. S \subseteq Points /\ \A q \in S : B[q] = col  BY <1>2 DEF IsChain
<1>5. Around(S) \subseteq Points /\ \A q \in Around(S) : \E x \in S : q \in Neighbours(x)
  BY <1>4, AroundFacts
<1>6. \A j \in Used(s) : S \cap s.block_pool[j].stone_state # {} => i = j  BY DEF Blocks
<1>7. S \cap Formed(s, p) = {} /\ S \cap X = {}
  <2>1. Joined(s, p) \subseteq Used(s) /\ Dying(s, p) \subseteq Used(s)  BY JoinedDying
  <2>2. p \notin S  BY <1>3, <1>4
  <2> QED  BY <1>6, <2>1, <2>2 DEF Formed, Captured
<1>8. /\ p \notin X
      /\ \A q \in Points : A[q] = IF q = p THEN c ELSE IF q \in X THEN EMPTY ELSE B[q]
      /\ \A q \in X : B[q] = Opponent(c)
  BY AfterFacts
<1>9. p \notin S  BY <1>3, <1>4
<1>10. \A q \in S : A[q] = col  BY <1>4, <1>7, <1>8, <1>9
<1>11. p \in L => col = Opponent(c)
  <2>1. p \in L /\ col = c => i \in Joined(s, p)  BY JoinedDying
  <2> QED  BY <1>3, <2>1
<1>12. IsChain(A, col, S)
  <2>1. ASSUME NEW q \in S, NEW r \in Neighbours(q), A[r] = col  PROVE r \in S
    <3>1. r \in Points  BY <1>4, NeighboursMutual
    <3>2. r # p
      <4> SUFFICES ASSUME r = p  PROVE FALSE
        OBVIOUS
      <4>1. col = c  BY <1>8, <2>1
      <4>2. p \in L  BY <1>2 DEF Around
      <4> QED  BY <1>1, <1>11, <4>1, <4>2
    <3>3. B[r] = col  BY <1>3, <1>8, <2>1, <3>1, <3>2
    <3> QED  BY <1>2, <3>3 DEF IsChain
  <2> HIDE DEF A, S, col
  <2> QED  BY <1>2, <1>4, <1>10, <2>1 DEF IsChain
<1>13. \A r \in Around(S) : A[r] = EMPTY <=> r \in X \/ (r # p /\ B[r] = EMPTY)
  BY <1>1, <1>5, <1>8
<1>14. col = Opponent(c) => X \cap Around(S) = {}
  <2> SUFFICES ASSUME col = Opponent(c), NEW r \in X, r \in Around(S)  PROVE FALSE
    OBVIOUS
  <2>1. PICK x \in S : r \in Neighbours(x)  BY <1>5
  <2>2. r \in S  BY <1>2, <1>8, <2>1 DEF IsChain
  <2> QED  BY <1>7, <2>2
<1> HIDE DEF A, X, S, L, c, col
<1>15. col = Opponent(c) => open = L \ {p}  BY <1>2, <1>13, <1>14
<1>16. col = c => p \notin L /\ open = L \cup (X \cap Around(S))
  BY <1>1, <1>2, <1>11, <1>13
<1>17. open # {}
  <2>1. col = Opponent(c) => L # {p}  BY JoinedDying DEF col, c, L
  <2>2. CASE col = Opponent(c)  BY <1>2, <1>15, <2>1, <2>2
  <2>3. CASE col = c  BY <1>2, <1>16, <2>3
  <2> QED  BY <1>3, <2>2, <2>3
<1>18. /\ S \cap Formed(s, p) = {} /\ S \cap X = {} /\ IsChain(A, col, S)
       /\ (col = Opponent(c) => open = L \ {p})
       /\ (col = c => p \notin L /\ open = L \cup (X \cap Around(S)))
       /\ open # {}
  BY <1>7, <1>12, <1>15, <1>16, <1>17
<1> QED  BY <1>18 DEF A, X, S, L, c, col

\* The board after it is what the rules say: of the opponent's chains the stone takes off
\* those that have no other liberty.
LEMMA PlayedIs ==
    ASSUME NEW s, IsGoState(s), NEW h, Blocks(s, h), NEW p \in Points, s.board_state[p] = EMPTY
    PROVE  Played(s.board_state, s.current_player, p) = BoardAfter(s, p)
<1> DEFINE c == s.current_player
           B == s.board_state
           X == Captured(s, p)
           with == [B EXCEPT ![p] = c]
           dead == {q \in Stones(with) : /\ with[q] = Opponent(c)
                                         /\ ChainLiberties(with, Chain(with, q)) = {}}
<1>1. /\ c \in {BLACK, WHITE} /\ c # EMPTY /\ Opponent(c) # c /\ Opponent(c) # EMPTY
  BY Players DEF IsGoState
<1>2. DOMAIN B = Points  BY DEF IsGoState
<1>3. \A q \in Points : with[q] = IF q = p THEN c ELSE B[q]  BY <1>2
<1> HIDE DEF with
<1>4. ASSUME NEW i \in Used(s), s.block_pool[i].color = Opponent(c),
             NEW q \in s.block_pool[i].stone_state
      PROVE  ChainLiberties(with, Chain(with, q)) = {} <=> i \in Dying(s, p)
  <2> DEFINE S == s.block_pool[i].stone_state
             L == s.block_pool[i].liberty_state
  <2>1. /\ IsChain(B, Opponent(c), S) /\ L # {}
        /\ L = {r \in Around(S) : B[r] = EMPTY}
    BY <1>4 DEF Blocks, GoodBlock
  <2>2. S \subseteq Points /\ Around(S) \subseteq Points  BY <2>1, AroundFacts DEF IsChain
  <2>3. p \notin S  BY <1>1, <2>1 DEF IsChain
  <2>4. IsChain(with, Opponent(c), S)
    <3>1. \A x \in S : with[x] = Opponent(c)  BY <1>3, <2>1, <2>2, <2>3 DEF IsChain
    <3>2. ASSUME NEW x \in S, NEW r \in Neighbours(x), with[r] = Opponent(c)  PROVE r \in S
      <4>1. r \in Points  BY <2>2, NeighboursMutual
      <4>2. B[r] = Opponent(c)  BY <1>1, <1>3, <3>2, <4>1
      <4> QED  BY <2>1, <4>2 DEF IsChain
    <3> HIDE DEF S
    <3> QED  BY <2>1, <3>1, <3>2 DEF IsChain
  <2>5. Chain(with, q) = S  BY <2>4, ChainIs
  <2>6. ChainLiberties(with, S) = {r \in Around(S) : with[r] = EMPTY}
    BY DEF ChainLiberties, Around
  <2>7. ChainLiberties(with, S) = L \ {p}  BY <1>1, <1>3, <2>1, <2>2, <2>6
  <2>8. i \in Dying(s, p) <=> L = {p}  BY <1>4, JoinedDying
  <2> HIDE DEF S, L
  <2> QED  BY <2>1, <2>5, <2>7, <2>8
<1>5. dead \subseteq X
  <2> SUFFICES ASSUME NEW q \in dead  PROVE q \in X
    OBVIOUS
  <2>1. q \in Points /\ with[q] = Opponent(c) /\ ChainLiberties(with, Chain(with, q)) = {}
    BY DEF Stones
  <2>2. B[q] = Opponent(c)  BY <1>1, <1>3, <2>1
  <2>3. PICK i \in Used(s) : q \in s.block_pool[i].stone_state  BY <1>1, <2>1, <2>2 DEF Blocks
  <2>4. s.block_pool[i].color = Opponent(c)  BY <2>2, <2>3 DEF Blocks, GoodBlock, IsChain
  <2>5. i \in Dying(s, p)  BY <1>4, <2>1, <2>3, <2>4
  <2> QED  BY <2>3, <2>5 DEF Captured
<1>6. X \subseteq dead
  <2> SUFFICES ASSUME NEW q \in X  PROVE q \in dead
    OBVIOUS
  <2>1. PICK i \in Dying(s, p) : q \in s.block_pool[i].stone_state  BY DEF Captured
  <2>2. i \in Used(s) /\ s.block_pool[i].color = Opponent(c)  BY JoinedDying
  <2>3. q \in Points /\ q # p /\ B[q] = Opponent(c)  BY AfterFacts
  <2>4. with[q] = Opponent(c) /\ q \in Stones(with)  BY <1>1, <1>3, <2>3 DEF Stones
  <2>5. ChainLiberties(with, Chain(with, q)) = {}  BY <1>4, <2>1, <2>2
  <2> QED  BY <2>4, <2>5
<1>7. Played(B, c, p) = [q \in Points |-> IF q \in dead THEN EMPTY ELSE with[q]]
  BY DEF Played, with
<1>8. dead = X  BY <1>5, <1>6
<1> HIDE DEF dead, X
<1>9. p \notin X  BY AfterFacts DEF X
<1>10. \A q \in Points : (IF q \in X THEN EMPTY ELSE with[q])
                           = (IF q = p THEN c ELSE IF q \in X THEN EMPTY ELSE B[q])
  BY <1>3, <1>9
<1> QED  BY <1>7, <1>8, <1>10 DEF BoardAfter, X

\* It is suicide if the block that TryMove() computes has no liberty.
LEMMA SuicideIs ==
    ASSUME NEW s, IsGoState(s), NEW h, Blocks(s, h), NEW p \in Points, s.board_state[p] = EMPTY
    PROVE  Suicide(s.board_state, s.current_player, p) <=> TryMove(s, p).liberty_state = {}
<1> DEFINE A == BoardAfter(s, p)
           M == Formed(s, p)
<1>1. Played(s.board_state, s.current_player, p) = A  BY PlayedIs
<1>2. IsChain(A, s.current_player, M)  BY FormedIsChain
<1>3. p \in M  BY DEF Formed
<1>4. Chain(A, p) = M  BY <1>2, <1>3, ChainIs
<1>5. ChainLiberties(A, M) = {r \in Around(M) : A[r] = EMPTY}  BY DEF ChainLiberties, Around
<1>6. TryMove(s, p).liberty_state = {r \in Around(M) : A[r] = EMPTY}  BY TryMoveIs
<1> QED  BY <1>1, <1>4, <1>5, <1>6 DEF Suicide

-----------------------------------------------------------------------------
(* The pool of blocks.                                                     *)

\* What a sequence holds is finite.
LEMMA ElementsFinite ==
    ASSUME NEW S, NEW l \in Seq(S)
    PROVE  ToSet(l) \subseteq S /\ IsFiniteSet(ToSet(l)) /\ Cardinality(ToSet(l)) <= Len(l)
<1>0. Len(l) \in Nat /\ DOMAIN l = 1..Len(l)  OBVIOUS
<1> DEFINE f == [i \in 1..Len(l) |-> l[i]]
<1>1. f \in Surjection(1..Len(l), ToSet(l))  BY <1>0 DEF Surjection, ToSet
<1> HIDE DEF f
<1>2. 1 \in Int /\ Len(l) \in Int  BY <1>0
<1>3. IsFiniteSet(1..Len(l)) /\ Cardinality(1..Len(l)) = IF 1 > Len(l) THEN 0 ELSE Len(l) - 1 + 1
  BY <1>2, FS_Interval
<1>4. Cardinality(1..Len(l)) = Len(l)  BY <1>0, <1>3
<1>5. ToSet(l) \subseteq S  BY <1>0 DEF ToSet
<1> QED  BY <1>1, <1>3, <1>4, <1>5, FS_Surjection

\* With one element more.
LEMMA ElementsAppend ==
    ASSUME NEW S, NEW l \in Seq(S), NEW x \in S
    PROVE  ToSet(Append(l, x)) = ToSet(l) \cup {x} /\ Len(Append(l, x)) = Len(l) + 1
<1>0. Len(l) \in Nat /\ DOMAIN l = 1..Len(l)  OBVIOUS
<1>1. /\ Len(Append(l, x)) = Len(l) + 1 /\ DOMAIN Append(l, x) = 1..Len(l) + 1
      /\ \A i \in 1..Len(l) : Append(l, x)[i] = l[i]
      /\ Append(l, x)[Len(l) + 1] = x
  OBVIOUS
<1> QED  BY <1>0, <1>1 DEF ToSet

\* Without the last one.
LEMMA ElementsFront ==
    ASSUME NEW S, NEW l \in Seq(S), l # <<>>
    PROVE  /\ Front(l) \in Seq(S) /\ Len(Front(l)) = Len(l) - 1
           /\ ToSet(l) = ToSet(Front(l)) \cup {Last(l)}
           /\ Last(l) \in S
<1>0. Len(l) \in Nat /\ DOMAIN l = 1..Len(l)  OBVIOUS
<1>1. Len(l) > 0  OBVIOUS
<1> DEFINE n == Len(l) - 1
<1>2. n \in Nat /\ Len(l) = n + 1  BY <1>0, <1>1
<1>3. Front(l) = SubSeq(l, 1, n)  BY DEF Front
<1> HIDE DEF n
<1>4. /\ Front(l) \in Seq(S)
      /\ Len(Front(l)) = IF 1 <= n THEN (n - 1) + 1 ELSE 0
      /\ \A i \in 1..(n - 1) + 1 : Front(l)[i] = l[(1 + i) - 1]
  <2>1. \A i \in 1..n : l[i] \in S  BY <1>0, <1>2
  <2> QED  BY <1>2, <1>3, <2>1, SubSeqProperties
<1>5. Len(Front(l)) = n /\ \A i \in 1..n : Front(l)[i] = l[i]  BY <1>2, <1>4
<1>6. DOMAIN Front(l) = 1..n  BY <1>4, <1>5
<1>7. Last(l) = l[Len(l)] /\ Last(l) \in S  BY <1>0, <1>1 DEF Last
<1>8. ToSet(l) = ToSet(Front(l)) \cup {Last(l)}
  <2>1. ToSet(l) = {l[i] : i \in 1..n + 1}  BY <1>0, <1>2 DEF ToSet
  <2>2. ToSet(Front(l)) = {l[i] : i \in 1..n}  BY <1>5, <1>6 DEF ToSet
  <2>3. 1..n + 1 = (1..n) \cup {n + 1}  BY <1>2
  <2> QED  BY <1>2, <1>7, <2>1, <2>2, <2>3
<1> QED  BY <1>4, <1>5, <1>7, <1>8 DEF n

\* Of two sequences.
LEMMA ElementsOfBoth ==
    ASSUME NEW S, NEW l \in Seq(S), NEW k \in Seq(S)
    PROVE  ToSet(l \o k) = ToSet(l) \cup ToSet(k)
<1>1. /\ Len(l \o k) = Len(l) + Len(k) /\ Len(k) \in Nat /\ Len(l) \in Nat
      /\ DOMAIN (l \o k) = 1..Len(l) + Len(k) /\ DOMAIN k = 1..Len(k) /\ DOMAIN l = 1..Len(l)
      /\ \A i \in 1..Len(l) : (l \o k)[i] = l[i]
      /\ \A i \in 1..Len(k) : (l \o k)[Len(l) + i] = k[i]
  OBVIOUS
<1>2. ToSet(l \o k) \subseteq ToSet(l) \cup ToSet(k)
  <2> SUFFICES ASSUME NEW i \in 1..Len(l) + Len(k)
               PROVE  (l \o k)[i] \in ToSet(l) \cup ToSet(k)
    BY <1>1 DEF ToSet
  <2>1. CASE i <= Len(l)  BY <1>1, <2>1 DEF ToSet
  <2>2. CASE i > Len(l)
    <3>1. i - Len(l) \in 1..Len(k) /\ i = Len(l) + (i - Len(l))  BY <1>1, <2>2
    <3>2. (l \o k)[i] = k[i - Len(l)]  BY <1>1, <3>1
    <3> QED  BY <1>1, <3>1, <3>2 DEF ToSet
  <2> QED  BY <1>1, <2>1, <2>2
<1>3. ToSet(l) \subseteq ToSet(l \o k)  BY <1>1 DEF ToSet
<1>4. ToSet(k) \subseteq ToSet(l \o k)
  <2> SUFFICES ASSUME NEW i \in 1..Len(k)  PROVE k[i] \in ToSet(l \o k)
    BY <1>1 DEF ToSet
  <2>1. Len(l) + i \in 1..Len(l) + Len(k)  BY <1>1
  <2> QED  BY <1>1, <2>1 DEF ToSet
<1> QED  BY <1>2, <1>3, <1>4

\* The blocks U are out of the list of those to be used again, in which no block is twice.
Accounted(s, U) ==
    LET free == ToSet(s.recycled_blocks)
    IN  /\ U \cap free = {} /\ U \cup free = 0 .. s.block_in_use - 1
        /\ Cardinality(free) = Len(s.recycled_blocks)
        /\ s.block_in_use <= Rows * Columns + 1

\* What taking a block does.
LEMMA GetNewBlockDoes ==
    ASSUME NEW s, IsGoState(s), NewBlock(s) \in BlockIds
    PROVE  LET t == GetNewBlock(s)
           IN  /\ t.block_pool = [s.block_pool EXCEPT ![NewBlock(s)] = NoBlock]
               /\ s.recycled_blocks # <<>> =>
                     /\ t.recycled_blocks = Front(s.recycled_blocks)
                     /\ t.block_in_use = s.block_in_use
               /\ s.recycled_blocks = <<>> =>
                     /\ t.recycled_blocks = <<>>
                     /\ t.block_in_use = s.block_in_use + 1
<1> DEFINE t == IF s.recycled_blocks # <<>>
                THEN [s EXCEPT !.recycled_blocks = Front(@)]
                ELSE [s EXCEPT !.block_in_use = @ + 1]
           u == [t EXCEPT !.block_pool[NewBlock(s)] = NoBlock]
<1>0. GetNewBlock(s) = u  BY DEF GetNewBlock
<1>1. IsRecord(s)  BY DEF IsGoState
<1>2. /\ IsRecord(t) /\ t.block_pool = s.block_pool
      /\ s.recycled_blocks # <<>> =>
            /\ t.recycled_blocks = Front(s.recycled_blocks)
            /\ t.block_in_use = s.block_in_use
      /\ s.recycled_blocks = <<>> =>
            /\ t.recycled_blocks = <<>>
            /\ t.block_in_use = s.block_in_use + 1
  <2>2. CASE s.recycled_blocks # <<>>
    BY <1>1, <2>2, MemberNames DEF IsRecord
  <2>3. CASE s.recycled_blocks = <<>>
    BY <1>1, <2>3, MemberNames DEF IsRecord
  <2> QED  BY <2>2, <2>3
<1> HIDE DEF t
<1>4. /\ \A f \in Members \ {"block_pool"} : u[f] = t[f]
      /\ u.block_pool = [t.block_pool EXCEPT ![NewBlock(s)] = NoBlock]
  BY <1>2, MemberNames DEF IsRecord
<1> HIDE DEF u
<1> QED  BY <1>0, <1>2, <1>4, MemberNames

\* The block that it takes is none of those in use, if there are no more than points.
LEMMA GetNewBlockAccounted ==
    ASSUME NEW s, IsGoState(s), NEW U, Accounted(s, U), Cardinality(U) <= Rows * Columns
    PROVE  /\ NewBlock(s) \in BlockIds /\ NewBlock(s) \notin U
           /\ Accounted(GetNewBlock(s), U \cup {NewBlock(s)})
<1> DEFINE l == s.recycled_blocks
           n == s.block_in_use
           free == ToSet(l)
           N == Rows * Columns
           id == NewBlock(s)
           t == GetNewBlock(s)
<1>0. /\ l \in Seq(Int) /\ n \in Nat /\ N \in Nat /\ n <= N + 1
      /\ U \cap free = {} /\ U \cup free = 0 .. n - 1 /\ Cardinality(free) = Len(l)
      /\ Cardinality(U) <= N
  BY FinitelyManyPoints DEF IsGoState, Accounted
<1>1. BlockIds = 0..N  BY DEF BlockIds
<1>2. id = IF l # <<>> THEN Last(l) ELSE n  BY DEF NewBlock
<1>3. id \in BlockIds => /\ l # <<>> => t.recycled_blocks = Front(l) /\ t.block_in_use = n
                         /\ l = <<>> => t.recycled_blocks = <<>> /\ t.block_in_use = n + 1
  BY GetNewBlockDoes
<1> HIDE DEF l, n, N, free, id, t
<1>4. CASE l # <<>>
  <2>1. /\ Front(l) \in Seq(Int) /\ Len(Front(l)) = Len(l) - 1 /\ Last(l) \in Int
        /\ free = ToSet(Front(l)) \cup {Last(l)}
    BY <1>0, <1>4, ElementsFront DEF free
  <2>2. id = Last(l) /\ id \in free  BY <1>2, <1>4, <2>1
  <2>3. id \in 0..n - 1  BY <1>0, <2>2
  <2>4. id \in BlockIds /\ id \notin U  BY <1>0, <1>1, <2>2, <2>3
  <2>5. /\ IsFiniteSet(ToSet(Front(l))) /\ Cardinality(ToSet(Front(l))) <= Len(Front(l))
    BY <2>1, ElementsFinite
  <2>6. Cardinality(ToSet(Front(l))) \in Nat  BY <2>5, FS_CardinalityType
  <2>7. Cardinality(free) = IF Last(l) \in ToSet(Front(l)) THEN Cardinality(ToSet(Front(l)))
                            ELSE Cardinality(ToSet(Front(l))) + 1
    BY <2>1, <2>5, FS_AddElement
  <2>8. Len(l) \in Nat  BY <1>0
  <2>9. Last(l) \notin ToSet(Front(l)) /\ Cardinality(ToSet(Front(l))) = Len(Front(l))
    BY <1>0, <2>1, <2>5, <2>6, <2>7, <2>8
  <2>10. t.recycled_blocks = Front(l) /\ t.block_in_use = n  BY <1>3, <1>4, <2>4
  <2>11. (U \cup {id}) \cap ToSet(Front(l)) = {}  BY <1>0, <2>1, <2>2, <2>9
  <2>12. (U \cup {id}) \cup ToSet(Front(l)) = 0..n - 1  BY <1>0, <2>1, <2>2
  <2>13. Accounted(t, U \cup {id})  BY <1>0, <2>9, <2>10, <2>11, <2>12 DEF Accounted, N
  <2> QED  BY <2>4, <2>13 DEF id, t
<1>5. CASE l = <<>>
  <2>1. free = {}  BY <1>5 DEF free, ToSet
  <2>2. U = 0..n - 1 /\ id = n  BY <1>0, <1>2, <1>5, <2>1
  <2>3. Cardinality(U) = n
    <3>1. 0 \in Int /\ n - 1 \in Int  BY <1>0
    <3>2. Cardinality(0..n - 1) = IF 0 > n - 1 THEN 0 ELSE (n - 1) - 0 + 1  BY <3>1, FS_Interval
    <3> QED  BY <1>0, <2>2, <3>2
  <2>4. id \in BlockIds /\ id \notin U  BY <1>0, <1>1, <2>2, <2>3
  <2>5. t.recycled_blocks = <<>> /\ t.block_in_use = n + 1  BY <1>3, <1>5, <2>4
  <2>6. ToSet(t.recycled_blocks) = {} /\ Len(t.recycled_blocks) = 0  BY <2>5 DEF ToSet
  <2>7. Cardinality(ToSet(t.recycled_blocks)) = Len(t.recycled_blocks)  BY <2>6, FS_EmptySet
  <2>8. U \cup {id} = 0..(n + 1) - 1  BY <1>0, <2>2
  <2>9. n + 1 <= N + 1  BY <1>0, <2>3
  <2>10. Accounted(t, U \cup {id})  BY <2>5, <2>6, <2>7, <2>8, <2>9 DEF Accounted, N
  <2> QED  BY <2>4, <2>10 DEF id, t
<1> QED  BY <1>4, <1>5

\* The blocks S are given back.
Frees(s, t, S) ==
    /\ t.block_in_use = s.block_in_use
    /\ \A i \in BlockIds : t.block_pool[i] = IF i \in S
                                             THEN [s.block_pool[i] EXCEPT !.in_use = FALSE]
                                             ELSE s.block_pool[i]
    /\ \A U : S \subseteq U /\ Accounted(s, U) => Accounted(t, U \ S)

\* Giving one back.
LEMMA RecycleBlockFrees ==
    ASSUME NEW s, IsGoState(s), NEW i \in BlockIds
    PROVE  Frees(s, RecycleBlock(s, i), {i})
<1> DEFINE pool == [s.block_pool EXCEPT ![i].in_use = FALSE]
           u == [s EXCEPT !.block_pool = pool]
           t == [u EXCEPT !.recycled_blocks = Append(s.recycled_blocks, i)]
<1>0. IsRecord(s)  BY DEF IsGoState
<1>1. IsRecord(u) /\ u.block_pool = pool /\ \A f \in Members \ {"block_pool"} : u[f] = s[f]
  <2> HIDE DEF pool
  <2> QED  BY <1>0, MemberNames DEF IsRecord
<1>2. u.recycled_blocks = s.recycled_blocks  BY <1>1, MemberNames
<1>3. RecycleBlock(s, i) = t  BY <1>2 DEF RecycleBlock
<1>4. \A j \in BlockIds : pool[j] = IF j \in {i} THEN [s.block_pool[j] EXCEPT !.in_use = FALSE]
                                    ELSE s.block_pool[j]
  BY DEF IsGoState
<1> HIDE DEF pool, u
<1>5. /\ t.recycled_blocks = Append(s.recycled_blocks, i)
      /\ \A f \in Members \ {"recycled_blocks"} : t[f] = u[f]
  BY <1>1, MemberNames DEF IsRecord
<1> HIDE DEF t
<1>6. t.block_pool = pool /\ t.block_in_use = s.block_in_use  BY <1>1, <1>5, MemberNames
<1>7. ASSUME NEW U, {i} \subseteq U, Accounted(s, U)  PROVE Accounted(t, U \ {i})
  <2> DEFINE l == s.recycled_blocks
  <2>1. l \in Seq(Int) /\ i \in Int  BY DEF IsGoState, BlockIds
  <2>2. /\ U \cap ToSet(l) = {} /\ U \cup ToSet(l) = 0 .. s.block_in_use - 1
        /\ Cardinality(ToSet(l)) = Len(l) /\ s.block_in_use <= Rows * Columns + 1
    BY <1>7 DEF Accounted
  <2>3. t.recycled_blocks = Append(l, i)  BY <1>5
  <2> HIDE DEF l
  <2>4. /\ ToSet(t.recycled_blocks) = ToSet(l) \cup {i} /\ IsFiniteSet(ToSet(l))
        /\ Len(t.recycled_blocks) = Len(l) + 1
    BY <2>1, <2>3, ElementsAppend, ElementsFinite
  <2>5. i \notin ToSet(l)  BY <1>7, <2>2
  <2>6. Cardinality(ToSet(l) \cup {i}) = Cardinality(ToSet(l)) + 1  BY <2>4, <2>5, FS_AddElement
  <2>7. (U \ {i}) \cap ToSet(t.recycled_blocks) = {}  BY <2>2, <2>4
  <2>8. (U \ {i}) \cup ToSet(t.recycled_blocks) = 0 .. t.block_in_use - 1
    BY <1>6, <1>7, <2>2, <2>4
  <2> QED  BY <1>6, <2>2, <2>4, <2>6, <2>7, <2>8 DEF Accounted
<1> QED  BY <1>3, <1>4, <1>6, <1>7 DEF Frees

\* Giving several back.
LEMMA RecycleBlocksFrees ==
    ASSUME NEW s, IsGoState(s), NEW S \in SUBSET BlockIds, IsFiniteSet(S)
    PROVE  Frees(s, RecycleBlocks(s, S), S)
<1>0. S \subseteq Int  BY DEF BlockIds
<1>1. PICK it : /\ it[{}] = s
                /\ \A x \in SUBSET S, m \in S :
                      (\A i \in x : i < m) => it[x \cup {m}] = RecycleBlock(it[x], m)
                /\ RecycleBlocks(s, S) = it[S]
  BY <1>0, RecyclingSteps
<1> DEFINE T == {x \in SUBSET S : IsGoState(it[x]) /\ Frees(s, it[x], x)}
<1>2. {} \in T
  <2>1. \A U : U \ {} = U  OBVIOUS
  <2> QED  BY <1>1, <2>1 DEF Frees
<1>3. ASSUME NEW x \in SUBSET S, NEW m \in S, x \in T, \A i \in x : i < m
      PROVE  x \cup {m} \in T
  <2> DEFINE u == it[x]
             w == it[x \cup {m}]
  <2>1. w = RecycleBlock(u, m)  BY <1>1, <1>3
  <2>2. IsGoState(u) /\ Frees(s, u, x) /\ m \in Int /\ m \in BlockIds  BY <1>0, <1>3
  <2> HIDE DEF u, w
  <2>3. IsGoState(w) /\ Frees(u, w, {m})
    BY <2>1, <2>2, RecycleBlockIsGoState, RecycleBlockFrees
  <2>4. m \notin x  BY <1>0, <1>3
  <2>5. w.block_in_use = s.block_in_use  BY <2>2, <2>3 DEF Frees
  <2>6. \A i \in BlockIds : w.block_pool[i] = IF i \in x \cup {m}
                                             THEN [s.block_pool[i] EXCEPT !.in_use = FALSE]
                                             ELSE s.block_pool[i]
    BY <2>2, <2>3, <2>4 DEF Frees
  <2>7. ASSUME NEW U, x \cup {m} \subseteq U, Accounted(s, U)
        PROVE  Accounted(w, U \ (x \cup {m}))
    <3>1. Accounted(u, U \ x)  BY <2>2, <2>7 DEF Frees
    <3>2. {m} \subseteq U \ x  BY <2>4, <2>7
    <3>3. Accounted(w, (U \ x) \ {m})  BY <2>3, <3>1, <3>2 DEF Frees
    <3>4. (U \ x) \ {m} = U \ (x \cup {m})  OBVIOUS
    <3> QED  BY <3>3, <3>4
  <2> QED  BY <2>3, <2>5, <2>6, <2>7 DEF Frees, w
<1> HIDE DEF T
<1>4. S \in T  BY <1>0, <1>2, <1>3, ByGreatest
<1> QED  BY <1>1, <1>4 DEF T

-----------------------------------------------------------------------------
(* The stones of the merged block.                                         *)

\* What MapThenFoldSet computes for MergedStones, set by set.
Merging(s, p, S, iter) ==
    iter = [x \in SUBSET S |-> IF x = {} THEN <<p>>
                                ELSE s.block_pool[Max(x)].stones \o iter[x \ {Max(x)}]]

\* MergedStones() is the value of that function at the whole set.
LEMMA MergingIter ==
    \A s, p : MergedStones(s, p) =
                 (CHOOSE iter : Merging(s, p, Joined(s, p), iter))[Joined(s, p)]
BY DEF MergedStones, MapThenFoldSet, Merging

\* The recursion is defined on every finite set.
LEMMA MergingExists ==
    ASSUME NEW S, IsFiniteSet(S), S \subseteq Int, NEW s, NEW p
    PROVE  \E iter : Merging(s, p, S, iter)
<1> DEFINE T == {x \in SUBSET S : \E iter : Merging(s, p, x, iter)}
<1>1. {} \in T
  <2> DEFINE it == [x \in SUBSET {} |-> <<p>>]
  <2>1. Merging(s, p, {}, it)  BY DEF Merging
  <2> HIDE DEF it
  <2> QED  BY <2>1
<1>2. ASSUME NEW x \in SUBSET S, NEW m \in S, x \in T, \A i \in x : i < m
      PROVE  x \cup {m} \in T
  <2>1. PICK it0 : Merging(s, p, x, it0)  BY <1>2
  <2> DEFINE it == [u \in SUBSET (x \cup {m}) |->
                      IF m \in u THEN s.block_pool[m].stones \o it0[u \ {m}] ELSE it0[u]]
             Step(u) == IF u = {} THEN <<p>>
                        ELSE s.block_pool[Max(u)].stones \o it[u \ {Max(u)}]
  <2>2. ASSUME NEW u \in SUBSET (x \cup {m})  PROVE it[u] = Step(u)
    <3>1. CASE m \in u
      <4>1. u \in SUBSET Int /\ \A i \in u : i <= m  BY <1>2, S \subseteq Int
      <4>2. Max(u) = m  BY <3>1, <4>1, MaxIsLast
      <4>3. it[u \ {m}] = it0[u \ {m}]  OBVIOUS
      <4>4. it[u] = s.block_pool[m].stones \o it0[u \ {m}]  BY <3>1
      <4> HIDE DEF it
      <4> QED  BY <3>1, <4>2, <4>3, <4>4
    <3>2. CASE m \notin u
      <4>1. u \in SUBSET x  BY <3>2
      <4>2. it[u] = it0[u]  BY <3>2
      <4>3. it[u \ {Max(u)}] = it0[u \ {Max(u)}]  BY <3>2
      <4>4. it0[u] = IF u = {} THEN <<p>>
                     ELSE s.block_pool[Max(u)].stones \o it0[u \ {Max(u)}]
        BY <2>1, <4>1 DEF Merging
      <4> HIDE DEF it
      <4> QED  BY <4>2, <4>3, <4>4
    <3> QED  BY <3>1, <3>2
  <2>3. it = [u \in SUBSET (x \cup {m}) |-> it[u]]  OBVIOUS
  <2>4. Merging(s, p, x \cup {m}, it)
    <3> HIDE DEF it
    <3> QED  BY <2>2, <2>3 DEF Merging
  <2> HIDE DEF it
  <2> QED  BY <2>4
<1> HIDE DEF T
<1>3. S \in T  BY <1>1, <1>2, ByGreatest
<1> QED  BY <1>3 DEF T

\* Stones put before a list keep its tail; no stone is twice in it.
LEMMA StonesBefore ==
    ASSUME NEW l \in Seq(Points), NEW k \in Seq(Points), k # <<>>,
           Len(l) = Cardinality(ToSet(l)), Len(k) = Cardinality(ToSet(k)),
           ToSet(l) \cap ToSet(k) = {}
    PROVE  /\ l \o k \in Seq(Points) /\ l \o k # <<>>
           /\ ToSet(l \o k) = ToSet(l) \cup ToSet(k)
           /\ Len(l \o k) = Cardinality(ToSet(l \o k))
           /\ Last(l \o k) = Last(k)
<1>1. ToSet(l \o k) = ToSet(l) \cup ToSet(k)  BY ElementsOfBoth
<1>2. /\ l \o k \in Seq(Points) /\ Len(l \o k) = Len(l) + Len(k)
      /\ Len(l) \in Nat /\ Len(k) \in Nat /\ Len(k) > 0
      /\ \A i \in 1..Len(k) : (l \o k)[Len(l) + i] = k[i]
  <2>1. l \o k \in Seq(Points) /\ Len(l \o k) = Len(l) + Len(k)  OBVIOUS
  <2>2. Len(l) \in Nat /\ Len(k) \in Nat /\ Len(k) > 0  OBVIOUS
  <2>3. \A i \in 1..Len(k) : (l \o k)[Len(l) + i] = k[i]  OBVIOUS
  <2> QED  BY <2>1, <2>2, <2>3
<1>3. l \o k # <<>> /\ Last(l \o k) = Last(k)
  <2>1. Len(l \o k) > 0 /\ Len(k) \in 1..Len(k)  BY <1>2
  <2>2. (l \o k)[Len(l \o k)] = k[Len(k)]  BY <1>2, <2>1
  <2> QED  BY <2>1, <2>2 DEF Last
<1>4. Len(l \o k) = Cardinality(ToSet(l \o k))
  <2>1. IsFiniteSet(ToSet(l)) /\ IsFiniteSet(ToSet(k))  BY ElementsFinite
  <2>2. Cardinality(ToSet(l) \cup ToSet(k)) = Cardinality(ToSet(l)) + Cardinality(ToSet(k))
    <3> DEFINE a == ToSet(l)
               b == ToSet(k)
    <3>1. IsFiniteSet(a) /\ IsFiniteSet(b) /\ a \cap b = {}  BY <2>1
    <3> HIDE DEF a, b
    <3>2. Cardinality(a \cup b) = Cardinality(a) + Cardinality(b) - Cardinality(a \cap b)
      BY <3>1, FS_Union
    <3>3. Cardinality(a \cap b) = 0  BY <3>1, FS_EmptySet
    <3>4. Cardinality(a) \in Nat /\ Cardinality(b) \in Nat  BY <3>1, FS_CardinalityType
    <3>5. Cardinality(a \cup b) = Cardinality(a) + Cardinality(b)  BY <3>2, <3>3, <3>4
    <3> QED  BY <3>5 DEF a, b
  <2> QED  BY <1>1, <1>2, <2>2
<1> QED  BY <1>1, <1>2, <1>3, <1>4

\* MergedStones() lists the stones of the block formed, each once, the new one last.
LEMMA MergedStonesAre ==
    ASSUME NEW s, IsGoState(s), NEW h, Blocks(s, h), NEW p \in Points, s.board_state[p] = EMPTY
    PROVE  LET l == MergedStones(s, p)
           IN  /\ l \in Seq(Points) /\ l # <<>> /\ ToSet(l) = Formed(s, p)
               /\ Len(l) = Cardinality(Formed(s, p)) /\ Last(l) = p
<1> DEFINE J == Joined(s, p)
           it == CHOOSE iter : Merging(s, p, J, iter)
           S(i) == s.block_pool[i].stone_state
           U(x) == {p} \cup UNION {S(i) : i \in x}
<1>1. IsFiniteSet(J) /\ J \subseteq Int
  <2>1. J \in SUBSET NeighbourBlocks(s, p)  BY DEF Joined
  <2> QED  BY <2>1, NeighbourBlocksAreNumbers
<1>2. Merging(s, p, J, it)  BY <1>1, MergingExists
<1>3. MergedStones(s, p) = it[J]  BY MergingIter
<1>4. \A i \in J : /\ i \in Used(s) /\ i \in BlockIds
                   /\ s.block_pool[i].stones \in Seq(Points)
                   /\ ToSet(s.block_pool[i].stones) = S(i)
                   /\ Len(s.block_pool[i].stones) = Cardinality(S(i))
                   /\ p \notin S(i)
  <2> SUFFICES ASSUME NEW i \in J
               PROVE  /\ i \in Used(s) /\ i \in BlockIds
                      /\ s.block_pool[i].stones \in Seq(Points)
                      /\ ToSet(s.block_pool[i].stones) = S(i)
                      /\ Len(s.block_pool[i].stones) = Cardinality(S(i))
                      /\ p \notin S(i)
    OBVIOUS
  <2>1. i \in Used(s)  BY JoinedDying
  <2>2. GoodBlock(s, i)  BY <2>1 DEF Blocks
  <2>3. p \notin S(i)  BY <2>2 DEF GoodBlock, IsChain, EMPTY, BLACK, WHITE
  <2>4. i \in BlockIds  BY <2>1 DEF Used
  <2>5. s.block_pool[i].stones \in Seq(Points)  BY <2>4, BlockTypes
  <2> QED  BY <2>1, <2>2, <2>3, <2>4, <2>5 DEF GoodBlock
<1>5. \A i, j \in J : i # j => S(i) \cap S(j) = {}  BY <1>4 DEF Blocks
<1> HIDE DEF it, J
<1> DEFINE T == {x \in SUBSET J : /\ it[x] \in Seq(Points) /\ it[x] # <<>>
                                  /\ ToSet(it[x]) = U(x)
                                  /\ Len(it[x]) = Cardinality(ToSet(it[x]))
                                  /\ Last(it[x]) = p}
<1>6. {} \in T
  <2>1. it[{}] = <<p>>  BY <1>2 DEF Merging
  <2>2. <<p>> \in Seq(Points) /\ <<p>> # <<>> /\ Len(<<p>>) = 1 /\ Last(<<p>>) = p  BY DEF Last
  <2>3. ToSet(<<p>>) = {p}  BY DEF ToSet
  <2>4. Cardinality({p}) = 1  BY FS_Singleton
  <2>5. U({}) = {p}  OBVIOUS
  <2> QED  BY <2>1, <2>2, <2>3, <2>4, <2>5
<1>7. ASSUME NEW x \in SUBSET J, NEW m \in J, x \in T, \A i \in x : i < m
      PROVE  x \cup {m} \in T
  <2> DEFINE l == s.block_pool[m].stones
             k == it[x]
  <2>1. m \notin x /\ (x \cup {m}) \ {m} = x  BY <1>1, <1>7
  <2>2. Max(x \cup {m}) = m
    <3> HIDE DEF T
    <3>1. x \cup {m} \in SUBSET Int  BY <1>1
    <3>2. \A i \in x \cup {m} : i <= m  BY <1>1, <1>7
    <3> QED  BY <3>1, <3>2, MaxIsLast
  <2>3. it[x \cup {m}] = l \o k
    <3>1. it[x \cup {m}] = s.block_pool[Max(x \cup {m})].stones \o it[(x \cup {m}) \ {Max(x \cup {m})}]
      BY <1>2 DEF Merging
    <3> QED  BY <2>1, <2>2, <3>1
  <2>4. /\ k \in Seq(Points) /\ k # <<>> /\ ToSet(k) = U(x) /\ Len(k) = Cardinality(ToSet(k))
        /\ Last(k) = p
    BY <1>7
  <2>5. l \in Seq(Points) /\ ToSet(l) = S(m) /\ Len(l) = Cardinality(ToSet(l))
    BY <1>4
  <2>6. U(x \cup {m}) = S(m) \cup U(x)  OBVIOUS
  <2>7. S(m) \cap U(x) = {}  BY <1>4, <1>5, <2>1
  <2> HIDE DEF l, k, S, U
  <2>8. /\ l \o k \in Seq(Points) /\ l \o k # <<>>
        /\ ToSet(l \o k) = ToSet(l) \cup ToSet(k)
        /\ Len(l \o k) = Cardinality(ToSet(l \o k))
        /\ Last(l \o k) = Last(k)
    BY <2>4, <2>5, <2>7, StonesBefore
  <2> QED  BY <2>3, <2>4, <2>5, <2>6, <2>8
<1> HIDE DEF T
<1>8. J \in T  BY <1>1, <1>6, <1>7, ByGreatest
<1>9. U(J) = Formed(s, p)  BY DEF Formed, J
<1> QED  BY <1>3, <1>8, <1>9 DEF T

-----------------------------------------------------------------------------
(* The blocks after a stone.                                               *)

\* The parents and their heights when the blocks that the stone joins are put under it.
Parents(s, p) ==
    [q \in Points |-> IF q \in {Last(s.block_pool[i].stones) : i \in Joined(s, p)} \cup {p}
                      THEN p ELSE s.parent_id[q]]
Heights(s, h, p) ==
    [q \in Points |-> IF q = p THEN 0 ELSE IF q \in Formed(s, p) THEN h[q] + 1 ELSE h[q]]

\* t has those parents, and the stone bears the number id.
Linked(s, p, t, id) ==
    t.parent_id = Parents(s, p) /\ t.block_id = [s.block_id EXCEPT ![p] = id]

\* The parents of the block formed lead to the stone, those of the others to their tails.
Regrown(s, h, p, t, id) ==
    /\ Heights(s, h, p) \in [Points -> Nat]
    /\ Tree(t, Heights(s, h, p), Formed(s, p), p) /\ t.block_id[p] = id
    /\ \A i \in Used(s) \ Joined(s, p) :
          LET b == s.block_pool[i]
          IN  /\ Tree(t, Heights(s, h, p), b.stone_state, Last(b.stones))
              /\ t.block_id[Last(b.stones)] = i

\* The tail of a block is one of its stones.
LEMMA TailInside ==
    ASSUME NEW s, NEW h, Blocks(s, h), NEW i \in Used(s)
    PROVE  /\ Last(s.block_pool[i].stones) \in s.block_pool[i].stone_state
           /\ s.block_pool[i].stone_state \in SUBSET Points
           /\ IsFiniteSet(s.block_pool[i].stone_state)
<1>1. Rooted(s, h, i)  BY DEF Blocks
<1>2. i \in BlockIds  BY DEF Used
<1>3. s.block_pool[i].stone_state \in SUBSET Points  BY <1>2, BlockTypes
<1> QED  BY <1>1, <1>3, CountPoints DEF Rooted, Tree

\* Then the stone is the root of the block formed, and the other blocks stay as they are.
LEMMA TreesAfter ==
    ASSUME NEW s, IsGoState(s), NEW h, Blocks(s, h), NEW p \in Points, s.board_state[p] = EMPTY,
           NEW t, NEW id, Linked(s, p, t, id)
    PROVE  Regrown(s, h, p, t, id)
<1> DEFINE M == Formed(s, p)
           J == Joined(s, p)
           S(i) == s.block_pool[i].stone_state
           tail(i) == Last(s.block_pool[i].stones)
           g == Heights(s, h, p)
<1>1. h \in [Points -> Nat]  BY DEF Blocks
<1>2. \A q \in Points : g[q] = IF q = p THEN 0 ELSE IF q \in M THEN h[q] + 1 ELSE h[q]
  BY DEF Heights
<1>3. \A q \in Points : t.parent_id[q] = IF q = p \/ \E i \in J : q = tail(i) THEN p
                                         ELSE s.parent_id[q]
  BY DEF Linked, Parents
<1>4. t.block_id[p] = id /\ \A q \in Points : q # p => t.block_id[q] = s.block_id[q]
  BY DEF IsGoState, Linked
<1>5. \A i \in Used(s) : /\ Tree(s, h, S(i), tail(i)) /\ s.block_id[tail(i)] = i
                         /\ p \notin S(i) /\ tail(i) \in S(i) /\ S(i) \subseteq Points
                         /\ IsFiniteSet(S(i))
  <2> SUFFICES ASSUME NEW i \in Used(s)
               PROVE  /\ Tree(s, h, S(i), tail(i)) /\ s.block_id[tail(i)] = i
                      /\ p \notin S(i) /\ tail(i) \in S(i) /\ S(i) \subseteq Points
                      /\ IsFiniteSet(S(i))
    OBVIOUS
  <2>1. Rooted(s, h, i) /\ GoodBlock(s, i)  BY DEF Blocks
  <2>2. p \notin S(i)  BY <2>1 DEF GoodBlock, IsChain, EMPTY, BLACK, WHITE
  <2> QED  BY <2>1, <2>2, TailInside DEF Rooted
<1>6. \A i, j \in Used(s) : S(i) \cap S(j) # {} => i = j  BY DEF Blocks
<1>7. J \subseteq Used(s)  BY JoinedDying
<1>8. /\ M \subseteq Points /\ p \in M /\ \A i \in J : S(i) \subseteq M
      /\ \A q \in M : q = p \/ \E i \in J : q \in S(i)
  BY AfterFacts DEF Formed
<1>9. IsFiniteSet(M) /\ Cardinality(M) \in Nat  BY <1>8, CountPoints
<1>10. \A i \in Used(s) : Cardinality(S(i)) \in Nat  BY <1>5, CountPoints
<1>11. \A i \in J : Cardinality(S(i)) + 1 <= Cardinality(M)
  <2> SUFFICES ASSUME NEW i \in J  PROVE Cardinality(S(i)) + 1 <= Cardinality(M)
    OBVIOUS
  <2>1. S(i) \cup {p} \subseteq M /\ p \notin S(i) /\ IsFiniteSet(S(i))  BY <1>5, <1>7, <1>8
  <2> HIDE DEF S, M
  <2>2. Cardinality(S(i) \cup {p}) = Cardinality(S(i)) + 1  BY <2>1, FS_AddElement
  <2> QED  BY <1>9, <2>1, <2>2, FS_Subset
<1>12. g \in [Points -> Nat]  BY <1>1, <1>2 DEF Heights
<1> HIDE DEF M, J, S, tail, g
<1>13. ASSUME NEW q \in M
       PROVE  /\ g[q] \in Nat /\ g[q] < Cardinality(M)
              /\ q # p => t.parent_id[q] \in M /\ g[t.parent_id[q]] < g[q]
  <2>1. CASE q = p
    <3>1. Cardinality(M) # 0  BY <1>8, <1>9, FS_EmptySet
    <3> QED  BY <1>2, <1>9, <2>1, <3>1
  <2>2. CASE q # p
    <3>1. PICK i \in J : q \in S(i)  BY <1>8, <2>2
    <3>2. i \in Used(s) /\ Tree(s, h, S(i), tail(i)) /\ q \in Points  BY <1>5, <1>7, <3>1
    <3>3. h[q] \in Nat /\ h[q] < Cardinality(S(i))  BY <3>1, <3>2 DEF Tree
    <3>4. g[q] = h[q] + 1  BY <1>2, <2>2, <3>2
    <3>5. g[q] \in Nat /\ g[q] < Cardinality(M)
      BY <1>9, <1>10, <1>11, <3>1, <3>2, <3>3, <3>4
    <3>6. CASE q = tail(i)
      <4>1. t.parent_id[q] = p  BY <1>3, <3>1, <3>2, <3>6
      <4>2. g[p] = 0  BY <1>2
      <4> QED  BY <1>8, <3>3, <3>4, <3>5, <4>1, <4>2
    <3>7. CASE q # tail(i)
      <4>1. \A j \in J : q # tail(j)
        <5> SUFFICES ASSUME NEW j \in J, q = tail(j)  PROVE FALSE
          OBVIOUS
        <5>1. j \in Used(s) /\ q \in S(j)  BY <1>5, <1>7
        <5>2. i = j  BY <1>6, <3>1, <3>2, <5>1
        <5> QED  BY <3>7, <5>2
      <4>2. t.parent_id[q] = s.parent_id[q]  BY <1>3, <2>2, <3>2, <4>1
      <4>3. s.parent_id[q] \in S(i) /\ h[s.parent_id[q]] < h[q]
        BY <3>1, <3>2, <3>7 DEF Tree
      <4>4. s.parent_id[q] \in M /\ s.parent_id[q] # p /\ s.parent_id[q] \in Points
        BY <1>5, <1>8, <3>1, <3>2, <4>3
      <4>5. g[s.parent_id[q]] = h[s.parent_id[q]] + 1 /\ h[s.parent_id[q]] \in Nat
        BY <1>1, <1>2, <4>4
      <4> QED  BY <3>3, <3>4, <3>5, <4>2, <4>3, <4>4, <4>5
    <3> QED  BY <3>6, <3>7
  <2> QED  BY <2>1, <2>2
<1>14. Tree(t, g, M, p)
  <2>1. t.parent_id[p] = p  BY <1>3
  <2> QED  BY <1>8, <1>13, <2>1 DEF Tree
<1>15. ASSUME NEW i \in Used(s) \ J  PROVE Tree(t, g, S(i), tail(i)) /\ t.block_id[tail(i)] = i
  <2>1. /\ Tree(s, h, S(i), tail(i)) /\ s.block_id[tail(i)] = i
        /\ p \notin S(i) /\ tail(i) \in S(i) /\ S(i) \subseteq Points
    BY <1>5
  <2>2. \A j \in J : S(i) \cap S(j) = {}  BY <1>6, <1>7
  <2>3. S(i) \cap M = {}  BY <1>8, <2>1, <2>2
  <2>4. \A q \in S(i) : g[q] = h[q]  BY <1>2, <2>1, <2>3
  <2>5. \A q \in S(i) : t.parent_id[q] = s.parent_id[q]  BY <1>3, <1>5, <1>7, <2>1, <2>2
  <2>6. t.block_id[tail(i)] = i  BY <1>4, <2>1
  <2>7. Tree(t, g, S(i), tail(i))  BY <2>1, <2>4, <2>5 DEF Tree
  <2> QED  BY <2>6, <2>7
<1> QED  BY <1>4, <1>12, <1>14, <1>15 DEF Regrown, M, J, S, tail, g

\* So GetBlockIdByCoord() finds them.
LEMMA BlockIdsAfter ==
    ASSUME NEW s, IsGoState(s), NEW h, Blocks(s, h), NEW p \in Points, s.board_state[p] = EMPTY,
           NEW t, NEW id, Linked(s, p, t, id)
    PROVE  /\ \A q \in Formed(s, p) : GetBlockIdByCoord(t, q) = id
           /\ \A i \in Used(s) \ Joined(s, p) : \A q \in s.block_pool[i].stone_state :
                 GetBlockIdByCoord(t, q) = i
<1> DEFINE g == Heights(s, h, p)
<1>1. /\ Tree(t, g, Formed(s, p), p) /\ t.block_id[p] = id
      /\ \A i \in Used(s) \ Joined(s, p) :
            LET b == s.block_pool[i]
            IN  /\ Tree(t, g, b.stone_state, Last(b.stones))
                /\ t.block_id[Last(b.stones)] = i
  BY TreesAfter DEF Regrown
<1> HIDE DEF g
<1>2. Formed(s, p) \in SUBSET Points  BY AfterFacts
<1>3. ASSUME NEW q \in Formed(s, p)  PROVE GetBlockIdByCoord(t, q) = id
  <2>1. FindCoord(t, q) = p  BY <1>1, <1>2, FindCoordIsRoot
  <2> QED  BY <1>1, <2>1 DEF GetBlockIdByCoord
<1>4. ASSUME NEW i \in Used(s) \ Joined(s, p), NEW q \in s.block_pool[i].stone_state
      PROVE  GetBlockIdByCoord(t, q) = i
  <2> DEFINE S == s.block_pool[i].stone_state
             root == Last(s.block_pool[i].stones)
  <2>1. S \in SUBSET Points  BY TailInside
  <2>2. Tree(t, g, S, root) /\ t.block_id[root] = i /\ q \in S  BY <1>1
  <2> HIDE DEF S, root
  <2>3. FindCoord(t, q) = root  BY <2>1, <2>2, FindCoordIsRoot
  <2> QED  BY <2>2, <2>3 DEF GetBlockIdByCoord
<1> QED  BY <1>3, <1>4

\* The block that the stone founds.
Founded(s, p) ==
    [in_use |-> TRUE, color |-> s.current_player, stones |-> MergedStones(s, p),
     stone_state |-> Formed(s, p),
     liberty_state |-> {r \in Around(Formed(s, p)) : BoardAfter(s, p)[r] = EMPTY},
     virtual_liberty_state |-> Around(Formed(s, p)) \ Formed(s, p)]

\* As MergeBlocks() makes it.
Drawn(s, p) == [TryMove(s, p) EXCEPT !.in_use = TRUE, !.stones = MergedStones(s, p)]

\* The block b with other liberties.
WithLiberties(b, liberties) == [b EXCEPT !.liberty_state = liberties]

\* Blocks with the same members are the same.
LEMMA BlocksEqual ==
    ASSUME NEW b \in GoBlocks, NEW c \in GoBlocks, b.in_use = c.in_use, b.color = c.color,
           b.stones = c.stones, b.stone_state = c.stone_state,
           b.liberty_state = c.liberty_state,
           b.virtual_liberty_state = c.virtual_liberty_state
    PROVE  b = c
BY DEF GoBlocks

\* Changing the liberties of a block, or taking it out of use, changes nothing else.
LEMMA BlockChanges ==
    ASSUME NEW b \in GoBlocks, NEW L \in SUBSET Points
    PROVE  /\ WithLiberties(b, L) \in GoBlocks
           /\ WithLiberties(b, L).liberty_state = L
           /\ WithLiberties(b, L).in_use = b.in_use /\ WithLiberties(b, L).color = b.color
           /\ WithLiberties(b, L).stones = b.stones
           /\ WithLiberties(b, L).stone_state = b.stone_state
           /\ WithLiberties(b, L).virtual_liberty_state = b.virtual_liberty_state
           /\ WithLiberties(b, b.liberty_state) = b
           /\ \A K : WithLiberties(WithLiberties(b, K), L) = WithLiberties(b, L)
           /\ [b EXCEPT !.in_use = FALSE] \in GoBlocks
           /\ ~ [b EXCEPT !.in_use = FALSE].in_use
<1>1. WithLiberties(b, L) \in GoBlocks  BY DEF WithLiberties, GoBlocks
<1>2. /\ WithLiberties(b, L).liberty_state = L
      /\ WithLiberties(b, L).in_use = b.in_use /\ WithLiberties(b, L).color = b.color
      /\ WithLiberties(b, L).stones = b.stones
      /\ WithLiberties(b, L).stone_state = b.stone_state
      /\ WithLiberties(b, L).virtual_liberty_state = b.virtual_liberty_state
  BY DEF WithLiberties, GoBlocks
<1>3. WithLiberties(b, b.liberty_state) = b  BY DEF WithLiberties, GoBlocks
<1>4. \A K : WithLiberties(WithLiberties(b, K), L) = WithLiberties(b, L)
  BY DEF WithLiberties, GoBlocks
<1>5. [b EXCEPT !.in_use = FALSE] \in GoBlocks  BY DEF GoBlocks
<1>6. ~ [b EXCEPT !.in_use = FALSE].in_use  BY DEF GoBlocks
<1> QED  BY <1>1, <1>2, <1>3, <1>4, <1>5, <1>6

\* The block founded is one of the kind, and so is one that is reset.
LEMMA FoundedIsBlock ==
    ASSUME NEW s, IsGoState(s), NEW h, Blocks(s, h), NEW p \in Points, s.board_state[p] = EMPTY
    PROVE  /\ Founded(s, p) \in GoBlocks /\ Founded(s, p).in_use
           /\ NoBlock \in GoBlocks /\ ~ NoBlock.in_use
           /\ Drawn(s, p) = Founded(s, p)
<1> DEFINE M == Formed(s, p)
           L == {r \in Around(M) : BoardAfter(s, p)[r] = EMPTY}
           V == Around(M) \ M
           c == s.current_player
           l == MergedStones(s, p)
           T == TryMove(s, p)
<1>1. M \subseteq Points /\ Around(M) \subseteq Points  BY AfterFacts, AroundFacts
<1>2. c \in {BLACK, WHITE}  BY DEF IsGoState
<1>3. l \in Seq(Points)  BY MergedStonesAre
<1>4. T = [in_use |-> FALSE, color |-> c, stones |-> <<>>, stone_state |-> M,
           virtual_liberty_state |-> V, liberty_state |-> L]
  BY TryMoveIs
<1>5. Founded(s, p) = [in_use |-> TRUE, color |-> c, stones |-> l, stone_state |-> M,
                       liberty_state |-> L, virtual_liberty_state |-> V]
  BY DEF Founded
<1>6. L \subseteq Points /\ V \subseteq Points  BY <1>1
<1> HIDE DEF M, L, V, c, l, T
<1> DEFINE F == Founded(s, p)
           D == [T EXCEPT !.in_use = TRUE, !.stones = l]
<1>7. T \in GoBlocks /\ F \in GoBlocks
  <2>1. <<>> \in Seq(Points)  OBVIOUS
  <2> QED  BY <1>1, <1>2, <1>3, <1>4, <1>5, <1>6, <2>1 DEF GoBlocks
<1>8. /\ T.color = c /\ T.stone_state = M /\ T.virtual_liberty_state = V
      /\ T.liberty_state = L
  BY <1>4
<1>9. /\ F.in_use /\ F.color = c /\ F.stones = l /\ F.stone_state = M
      /\ F.virtual_liberty_state = V /\ F.liberty_state = L
  BY <1>5
<1>10. D \in GoBlocks  BY <1>3, <1>7 DEF GoBlocks
<1>11. /\ D.in_use /\ D.color = T.color /\ D.stones = l /\ D.stone_state = T.stone_state
       /\ D.virtual_liberty_state = T.virtual_liberty_state
       /\ D.liberty_state = T.liberty_state
  BY <1>7 DEF GoBlocks
<1>12. D = Drawn(s, p)  BY DEF Drawn, T, l
<1> HIDE DEF D, F
<1>13. D = F
  <2>1. D.in_use \in BOOLEAN /\ F.in_use \in BOOLEAN  BY <1>7, <1>10 DEF GoBlocks
  <2>2. D.in_use = F.in_use  BY <1>9, <1>11, <2>1
  <2> QED  BY <1>7, <1>8, <1>9, <1>10, <1>11, <2>2, BlocksEqual
<1>14. NoBlock \in GoBlocks /\ ~ NoBlock.in_use  BY DEF NoBlock, GoBlocks
<1> QED  BY <1>7, <1>9, <1>12, <1>13, <1>14 DEF F

\* What is known of a GoState between two moves.
Sound(s, h) ==
    /\ IsGoState(s) /\ Blocks(s, h)
    /\ Accounted(s, Used(s)) /\ Cardinality(Used(s)) <= Rows * Columns

\* The blocks of t are those of s with the one that the stone has founded in place of those
\* it has joined; of its liberties p is none.
Merged(s, p, t) ==
    /\ \A i \in BlockIds :
          /\ t.block_pool[i] \in GoBlocks
          /\ t.block_pool[i].in_use <=> i = NewBlock(s) \/ i \in Used(s) \ Joined(s, p)
    /\ t.block_pool[NewBlock(s)] = Founded(s, p)
    /\ \A i \in Used(s) \ Joined(s, p) :
          t.block_pool[i] = WithLiberties(s.block_pool[i], s.block_pool[i].liberty_state \ {p})

\* Merge() does that.
LEMMA MergeDoes ==
    ASSUME NEW s, NEW h, Sound(s, h), NEW p \in Points, s.board_state[p] = EMPTY
    PROVE  /\ NewBlock(s) \in BlockIds /\ NewBlock(s) \notin Used(s)
           /\ Linked(s, p, Merge(s, p), NewBlock(s))
           /\ Merged(s, p, Merge(s, p))
           /\ Accounted(Merge(s, p), (Used(s) \cup {NewBlock(s)}) \ Joined(s, p))
<1> DEFINE n == GetNewBlock(s)
           id == NewBlock(s)
           J == Joined(s, p)
           tails == {Last(s.block_pool[i].stones) : i \in J}
           parents == [q \in Points |-> IF q \in tails \cup {p} THEN p ELSE n.parent_id[q]]
           ids == [n.block_id EXCEPT ![p] = id]
           pool == [i \in BlockIds |->
                    IF i = id
                    THEN Drawn(s, p)
                    ELSE IF i \in NeighbourBlocks(s, p)
                    THEN [n.block_pool[i] EXCEPT !.liberty_state = @ \ {p}]
                    ELSE n.block_pool[i]]
           a == [n EXCEPT !.parent_id = parents]
           b == [a EXCEPT !.block_id = ids]
           t == [b EXCEPT !.block_pool = pool]
<1>0. IsGoState(s) /\ Blocks(s, h)  BY DEF Sound
<1>1. /\ id \in BlockIds /\ id \notin Used(s)
      /\ Accounted(n, Used(s) \cup {id})
      /\ IsGoState(n) /\ SameButBlocks(s, n)
      /\ n.block_pool = [s.block_pool EXCEPT ![id] = NoBlock]
  BY <1>0, GetNewBlockAccounted, GetNewBlockIsGoState, GetNewBlockDoes DEF Sound
<1>2. parents \in [Points -> Points]  BY <1>1 DEF IsGoState
<1>3. ids \in [Points -> Int]  BY <1>1 DEF IsGoState, BlockIds
<1>4. DOMAIN pool = BlockIds /\ pool = [i \in BlockIds |-> pool[i]]  OBVIOUS
<1>5. /\ IsRecord(a) /\ a.parent_id = parents
      /\ \A f \in Members \ {"parent_id"} : a[f] = n[f]
  <2> HIDE DEF parents, n
  <2> QED  BY <1>1, MemberNames DEF IsRecord, IsGoState
<1>6. a.block_id = n.block_id /\ a.block_pool = n.block_pool  BY <1>5, MemberNames
<1>7. /\ IsRecord(b) /\ b.block_id = ids
      /\ \A f \in Members \ {"block_id"} : b[f] = a[f]
  <2> HIDE DEF ids, a
  <2> QED  BY <1>5, MemberNames DEF IsRecord
<1>8. b.block_pool = n.block_pool
  <2> HIDE DEF b, n, a
  <2> QED  BY <1>6, <1>7, MemberNames
<1>9. Merge(s, p) = RecycleBlocks(t, J)
  BY <1>6, <1>8 DEF Merge, Drawn
<1>10. /\ IsRecord(t) /\ t.block_pool = pool
       /\ \A f \in Members \ {"block_pool"} : t[f] = b[f]
  <2> HIDE DEF pool, b
  <2> QED  BY <1>7, MemberNames DEF IsRecord
<1>11. parents = Parents(s, p)
  <2>1. n.parent_id = s.parent_id  BY <1>1, MemberNames DEF SameButBlocks
  <2> QED  BY <2>1 DEF Parents
<1>12. ids = [s.block_id EXCEPT ![p] = id]
  <2>1. n.block_id = s.block_id  BY <1>1, MemberNames DEF SameButBlocks
  <2> QED  BY <2>1
<1>13. \A i \in BlockIds : pool[i] =
          IF i = id THEN Founded(s, p)
          ELSE IF i \in NeighbourBlocks(s, p)
          THEN WithLiberties(s.block_pool[i], s.block_pool[i].liberty_state \ {p})
          ELSE s.block_pool[i]
  <2>1. \A i \in BlockIds : i # id => n.block_pool[i] = s.block_pool[i]
    BY <1>0, <1>1 DEF IsGoState
  <2>2. Drawn(s, p) = Founded(s, p)  BY <1>0, FoundedIsBlock
  <2> HIDE DEF n, id
  <2> QED  BY <2>1, <2>2 DEF WithLiberties
<1> HIDE DEF n, id, tails, parents, ids, pool, a, b, t
<1>14. IsGoState(t)
  BY <1>1, <1>2, <1>3, <1>4, <1>5, <1>7, <1>10, MemberNames DEF IsGoState
<1>15. t.parent_id = parents /\ t.block_id = ids
       /\ t.recycled_blocks = n.recycled_blocks /\ t.block_in_use = n.block_in_use
  BY <1>5, <1>7, <1>10, MemberNames
<1>16. Accounted(t, Used(s) \cup {id})  BY <1>1, <1>15 DEF Accounted
<1>17. /\ J \subseteq Used(s) /\ J \subseteq BlockIds /\ IsFiniteSet(J)
       /\ \A i \in BlockIds : i \in NeighbourBlocks(s, p) <=>
                                 i \in Used(s) /\ p \in s.block_pool[i].liberty_state
  <2>1. J \in SUBSET NeighbourBlocks(s, p)  BY DEF Joined
  <2>2. IsFiniteSet(J)  BY <1>0, <2>1, NeighbourBlocksAreNumbers
  <2>3. J \subseteq Used(s)  BY <1>0, JoinedDying
  <2> QED  BY <1>0, <2>2, <2>3, NeighbourBlocksAre DEF Used
<1> DEFINE w == Merge(s, p)
<1>18. SameButBlocks(t, w) /\ Frees(t, w, J)
  BY <1>9, <1>14, <1>17, RecycleBlocksFrees, RecycleBlocksIsGoState DEF BlockIds
<1> HIDE DEF w, J
<1>19. Linked(s, p, w, id)
  <2>1. w.parent_id = parents /\ w.block_id = ids
    BY <1>15, <1>18, MemberNames DEF SameButBlocks
  <2> QED  BY <1>11, <1>12, <2>1 DEF Linked
<1>20. Accounted(w, (Used(s) \cup {id}) \ J)  BY <1>16, <1>17, <1>18 DEF Frees
<1>21. \A i \in BlockIds : w.block_pool[i] = IF i \in J THEN [pool[i] EXCEPT !.in_use = FALSE]
                                                        ELSE pool[i]
  BY <1>10, <1>18 DEF Frees
<1>22. \A i \in BlockIds : /\ s.block_pool[i] \in GoBlocks
                           /\ s.block_pool[i].liberty_state \in SUBSET Points
                           /\ s.block_pool[i].in_use <=> i \in Used(s)
  BY <1>0, BlockTypes DEF Used
<1>23. Founded(s, p) \in GoBlocks /\ Founded(s, p).in_use
  BY <1>0, FoundedIsBlock
<1>24. \A i \in BlockIds : i # id =>
          /\ pool[i] \in GoBlocks /\ (pool[i].in_use <=> i \in Used(s))
          /\ i \in Used(s) => pool[i] =
                WithLiberties(s.block_pool[i], s.block_pool[i].liberty_state \ {p})
  <2> SUFFICES ASSUME NEW i \in BlockIds, i # id
               PROVE  /\ pool[i] \in GoBlocks /\ (pool[i].in_use <=> i \in Used(s))
                      /\ i \in Used(s) => pool[i] =
                            WithLiberties(s.block_pool[i], s.block_pool[i].liberty_state \ {p})
    OBVIOUS
  <2> DEFINE r == s.block_pool[i]
             K == r.liberty_state \ {p}
  <2>1. r \in GoBlocks /\ K \in SUBSET Points /\ (r.in_use <=> i \in Used(s))  BY <1>22
  <2>2. /\ WithLiberties(r, K) \in GoBlocks /\ WithLiberties(r, K).in_use = r.in_use
        /\ WithLiberties(r, r.liberty_state) = r
    BY <2>1, BlockChanges
  <2>3. CASE i \in NeighbourBlocks(s, p)
    <3>1. pool[i] = WithLiberties(r, K)  BY <1>13, <2>3
    <3> QED  BY <2>1, <2>2, <3>1
  <2>4. CASE i \notin NeighbourBlocks(s, p)
    <3>1. pool[i] = r  BY <1>13, <2>4
    <3>2. i \in Used(s) => K = r.liberty_state  BY <1>17, <2>4
    <3> HIDE DEF r, K
    <3> QED  BY <2>1, <2>2, <3>1, <3>2 DEF r, K
  <2> QED  BY <2>3, <2>4
<1>25. Merged(s, p, w)
  <2>1. ASSUME NEW i \in BlockIds
        PROVE  /\ w.block_pool[i] \in GoBlocks
               /\ w.block_pool[i].in_use <=> i = id \/ i \in Used(s) \ J
    <3>1. CASE i = id
      <4>1. i \notin J /\ pool[i] = Founded(s, p)  BY <1>1, <1>13, <1>17, <3>1
      <4> QED  BY <1>21, <1>23, <3>1, <4>1
    <3>2. CASE i # id /\ i \in J
      <4>1. pool[i] \in GoBlocks  BY <1>24, <3>2
      <4>2. [pool[i] EXCEPT !.in_use = FALSE] \in GoBlocks /\ ~ [pool[i] EXCEPT !.in_use = FALSE].in_use
        BY <4>1, BlockChanges
      <4> QED  BY <1>21, <3>2, <4>2
    <3>3. CASE i # id /\ i \notin J  BY <1>21, <1>24, <3>3
    <3> QED  BY <3>1, <3>2, <3>3
  <2>2. w.block_pool[id] = Founded(s, p)  BY <1>1, <1>13, <1>17, <1>21
  <2>3. \A i \in Used(s) \ J : w.block_pool[i] =
           WithLiberties(s.block_pool[i], s.block_pool[i].liberty_state \ {p})
    BY <1>1, <1>21, <1>24 DEF Used
  <2> QED  BY <2>1, <2>2, <2>3 DEF Merged, id, J
<1> QED  BY <1>1, <1>19, <1>20, <1>25 DEF w, id, J

\* The liberties of a block on the board after the stone.
OpenAfter(s, p, i) ==
    {r \in Around(s.block_pool[i].stone_state) : BoardAfter(s, p)[r] = EMPTY}

Left(s, p) == (Used(s) \ Joined(s, p)) \ Dying(s, p)

\* The blocks of u are the one founded and those that are left, with their liberties.
Renewed(s, p, u) ==
    /\ \A i \in BlockIds :
          /\ u.block_pool[i] \in GoBlocks
          /\ u.block_pool[i].in_use <=> i = NewBlock(s) \/ i \in Left(s, p)
    /\ u.block_pool[NewBlock(s)] = Founded(s, p)
    /\ \A i \in Left(s, p) :
          u.block_pool[i] = WithLiberties(s.block_pool[i], OpenAfter(s, p, i))

\* What Capture() adds to the liberties of a block.
Gained(s, p, t, i) ==
    {c \in Captured(s, p) : \E q \in Neighbours(c) : /\ s.board_state[q] = s.current_player
                                                     /\ GetBlockIdByCoord(t, q) = i}

\* The captured points next to the stones of the block, if they are the player's.
LEMMA GainedAre ==
    ASSUME NEW s, NEW h, Sound(s, h), NEW p \in Points, s.board_state[p] = EMPTY,
           NEW t, Linked(s, p, t, NewBlock(s)), NewBlock(s) \notin Used(s)
    PROVE  /\ Gained(s, p, t, NewBlock(s)) \subseteq Founded(s, p).liberty_state
           /\ \A i \in Left(s, p) :
                 (s.block_pool[i].liberty_state \ {p}) \cup Gained(s, p, t, i)
                    = OpenAfter(s, p, i)
<1> DEFINE id == NewBlock(s)
           X == Captured(s, p)
           M == Formed(s, p)
           J == Joined(s, p)
           S(i) == s.block_pool[i].stone_state
           player == s.current_player
<1>0. IsGoState(s) /\ Blocks(s, h)  BY DEF Sound
<1>1. player \in {BLACK, WHITE} /\ player # EMPTY
  BY <1>0, Players DEF IsGoState
<1>2. /\ \A q \in M : GetBlockIdByCoord(t, q) = id
      /\ \A i \in Used(s) \ J : \A q \in S(i) : GetBlockIdByCoord(t, q) = i
  BY <1>0, BlockIdsAfter
<1>3. /\ X \subseteq Points /\ M \subseteq Points
      /\ \A c \in X : BoardAfter(s, p)[c] = EMPTY
  <2>1. /\ X \subseteq Points /\ p \notin X /\ M \subseteq Points
        /\ \A q \in Points : BoardAfter(s, p)[q] =
              IF q = p THEN player ELSE IF q \in X THEN EMPTY ELSE s.board_state[q]
    BY <1>0, AfterFacts
  <2> QED  BY <2>1
<1>4. \A q \in Points : s.board_state[q] = player =>
         \E i \in Used(s) : q \in S(i) /\ s.block_pool[i].color = player
  <2> SUFFICES ASSUME NEW q \in Points, s.board_state[q] = player
               PROVE  \E i \in Used(s) : q \in S(i) /\ s.block_pool[i].color = player
    OBVIOUS
  <2>1. PICK i \in Used(s) : q \in S(i)  BY <1>0, <1>1 DEF Blocks
  <2>2. s.block_pool[i].color = player  BY <1>0, <2>1 DEF Blocks, GoodBlock, IsChain
  <2> QED  BY <2>1, <2>2
<1>5. \A i \in J : S(i) \subseteq M  BY DEF Formed
<1> HIDE DEF id, X, M, J, player
<1>6. ASSUME NEW c \in Gained(s, p, t, id)  PROVE c \in Founded(s, p).liberty_state
  <2>1. PICK q \in Neighbours(c) : s.board_state[q] = player /\ GetBlockIdByCoord(t, q) = id
    BY DEF Gained, player
  <2>2. c \in X /\ c \in Points /\ q \in Points /\ c \in Neighbours(q)
    BY <1>3, NeighboursMutual DEF Gained, X
  <2>3. PICK j \in Used(s) : q \in S(j)  BY <1>4, <2>1, <2>2
  <2>4. j \in J  BY <1>2, <2>1, <2>3 DEF id
  <2>5. q \in M  BY <1>5, <2>3, <2>4
  <2>6. c \in Around(M)  BY <2>2, <2>5 DEF Around
  <2> QED  BY <1>3, <2>2, <2>6 DEF Founded, M
<1>7. ASSUME NEW i \in Left(s, p)
      PROVE  (s.block_pool[i].liberty_state \ {p}) \cup Gained(s, p, t, i) = OpenAfter(s, p, i)
  <2> DEFINE b == s.block_pool[i]
             L == b.liberty_state
             G == Gained(s, p, t, i)
             open == OpenAfter(s, p, i)
  <2>1. i \in Used(s) /\ i \notin J /\ i \notin Dying(s, p)  BY DEF Left, J
  <2>2. /\ b.color = Opponent(player) => open = L \ {p}
        /\ b.color = player => p \notin L /\ open = L \cup (X \cap Around(S(i)))
    BY <1>0, <2>1, OthersAfter DEF OpenAfter, X, J, player
  <2>3. GoodBlock(s, i)  BY <1>0, <2>1 DEF Blocks
  <2>4. /\ b.color \in {BLACK, WHITE} /\ \A q \in S(i) : s.board_state[q] = b.color
        /\ S(i) \in SUBSET Points
    BY <2>3 DEF GoodBlock, IsChain
  <2>5. b.color = player \/ b.color = Opponent(player)  BY <1>1, <2>4, Players
  <2> HIDE DEF b, L, open, S
  <2>6. ASSUME NEW c \in G  PROVE c \in X /\ c \in Around(S(i)) /\ b.color = player
    <3>1. PICK q \in Neighbours(c) : s.board_state[q] = player /\ GetBlockIdByCoord(t, q) = i
      BY DEF Gained, player
    <3>2. c \in X /\ c \in Points /\ q \in Points /\ c \in Neighbours(q)
      BY <1>3, NeighboursMutual DEF Gained, X
    <3>3. PICK j \in Used(s) : q \in S(j)  BY <1>4, <3>1, <3>2
    <3>4. j \notin J
      <4>1. j \in J => GetBlockIdByCoord(t, q) = id  BY <1>2, <1>5, <3>3
      <4> QED  BY <2>1, <3>1, <4>1 DEF id
    <3>5. j = i  BY <1>2, <3>1, <3>3, <3>4
    <3>6. c \in Around(S(i))  BY <3>2, <3>3, <3>5 DEF Around
    <3> QED  BY <2>4, <3>1, <3>2, <3>3, <3>5, <3>6
  <2>7. ASSUME b.color = player, NEW c \in X, c \in Around(S(i))  PROVE c \in G
    <3>1. PICK x \in S(i) : c \in Neighbours(x) /\ x \in Neighbours(c)
      BY <2>4, <2>7, AroundFacts
    <3>2. s.board_state[x] = player /\ GetBlockIdByCoord(t, x) = i  BY <1>2, <2>1, <2>4, <2>7, <3>1
    <3> QED  BY <3>1, <3>2 DEF Gained, X, player
  <2> HIDE DEF G
  <2>8. CASE b.color = player
    <3>1. G = X \cap Around(S(i))  BY <2>6, <2>7, <2>8
    <3> QED  BY <2>2, <2>8, <3>1 DEF L, b, G, open
  <2>9. CASE b.color = Opponent(player)
    <3>1. b.color # player  BY <1>1, <2>9, Players
    <3>2. G = {}  BY <2>6, <3>1
    <3> QED  BY <2>2, <2>9, <3>2 DEF L, b, G, open
  <2> QED  BY <2>5, <2>8, <2>9
<1> QED  BY <1>6, <1>7 DEF id

\* Capture() leaves the blocks that the rules leave.
LEMMA CaptureDoes ==
    ASSUME NEW s, NEW h, Sound(s, h), NEW p \in Points, s.board_state[p] = EMPTY
    PROVE  LET u == Capture(s, p, Merge(s, p))
           IN  /\ IsGoState(u)
               /\ Linked(s, p, u, NewBlock(s))
               /\ Renewed(s, p, u)
               /\ Accounted(u, Left(s, p) \cup {NewBlock(s)})
               /\ u.board_state =
                     [q \in Points |-> IF q \in Captured(s, p) THEN EMPTY ELSE s.board_state[q]]
<1> DEFINE t == Merge(s, p)
           id == NewBlock(s)
           D == Dying(s, p)
           X == Captured(s, p)
           board == [q \in Points |-> IF q \in X THEN EMPTY ELSE t.board_state[q]]
           pool == [i \in BlockIds |->
                      [t.block_pool[i] EXCEPT !.liberty_state = @ \cup Gained(s, p, t, i)]]
           a == [t EXCEPT !.board_state = board]
           b == [a EXCEPT !.block_pool = pool]
           u == Capture(s, p, t)
<1>0. IsGoState(s) /\ Blocks(s, h)  BY DEF Sound
<1>1. /\ id \in BlockIds /\ id \notin Used(s) /\ Linked(s, p, t, id) /\ Merged(s, p, t)
      /\ Accounted(t, (Used(s) \cup {id}) \ Joined(s, p))
  BY MergeDoes
<1>2. IsGoState(t) /\ t.board_state = s.board_state
  BY <1>0, MergeIsGoState, MemberNames
<1>3. board \in [Points -> {EMPTY, BLACK, WHITE}]  BY <1>2 DEF IsGoState
<1>4. DOMAIN pool = BlockIds /\ pool = [i \in BlockIds |-> pool[i]]  OBVIOUS
<1>5. /\ IsRecord(a) /\ a.board_state = board
      /\ \A f \in Members \ {"board_state"} : a[f] = t[f]
  <2> HIDE DEF board, t
  <2> QED  BY <1>2, MemberNames DEF IsRecord, IsGoState
<1>6. a.block_pool = t.block_pool  BY <1>5, MemberNames
<1>7. u = RecycleBlocks(b, D)
  <2>1. \A i : Gained(s, p, t, i) =
                  {c \in X : \E q \in {r \in Neighbours(c) : s.board_state[r] = s.current_player} :
                                GetBlockIdByCoord(t, q) = i}
    BY DEF Gained
  <2> HIDE DEF t
  <2> QED  BY <1>6, <2>1 DEF Capture, Captured
<1>8. /\ IsRecord(b) /\ b.block_pool = pool
      /\ \A f \in Members \ {"block_pool"} : b[f] = a[f]
  <2> HIDE DEF pool, a
  <2> QED  BY <1>5, MemberNames DEF IsRecord
<1>9. \A i \in BlockIds : pool[i] = [t.block_pool[i] EXCEPT !.liberty_state = @ \cup Gained(s, p, t, i)]
  OBVIOUS
<1> HIDE DEF t, id, D, X, board, pool, a, b, u
<1>10. IsGoState(b)  BY <1>2, <1>3, <1>4, <1>5, <1>8, MemberNames DEF IsGoState
<1>11. /\ D \subseteq Used(s) /\ D \subseteq BlockIds /\ IsFiniteSet(D)
       /\ D \cap Joined(s, p) = {}
  <2>1. D \in SUBSET NeighbourBlocks(s, p)  BY DEF D, Dying
  <2>2. IsFiniteSet(D)  BY <1>0, <2>1, NeighbourBlocksAreNumbers
  <2>3. D \subseteq Used(s)  BY <1>0, JoinedDying DEF D
  <2> QED  BY <2>2, <2>3 DEF Used, D, Dying
<1>12. IsGoState(u) /\ SameButBlocks(b, u) /\ Frees(b, u, D)
  <2>1. Frees(b, u, D)  BY <1>7, <1>10, <1>11, RecycleBlocksFrees
  <2>2. D \subseteq Int  BY <1>11 DEF BlockIds
  <2> QED  BY <1>7, <1>10, <1>11, <2>1, <2>2, RecycleBlocksIsGoState
<1>13. Linked(s, p, u, id)
  <2>1. u.parent_id = t.parent_id /\ u.block_id = t.block_id
    BY <1>5, <1>8, <1>12, MemberNames DEF SameButBlocks
  <2> QED  BY <1>1, <2>1 DEF Linked
<1>14. u.board_state = [q \in Points |-> IF q \in X THEN EMPTY ELSE s.board_state[q]]
  <2>1. u.board_state = board  BY <1>5, <1>8, <1>12, MemberNames DEF SameButBlocks
  <2> QED  BY <1>2, <2>1 DEF board
<1>15. Accounted(u, Left(s, p) \cup {id})
  <2>1. b.recycled_blocks = t.recycled_blocks /\ b.block_in_use = t.block_in_use
    BY <1>5, <1>8, MemberNames
  <2>2. Accounted(b, (Used(s) \cup {id}) \ Joined(s, p))  BY <1>1, <2>1 DEF Accounted
  <2>3. D \subseteq (Used(s) \cup {id}) \ Joined(s, p)  BY <1>11
  <2>4. Accounted(u, ((Used(s) \cup {id}) \ Joined(s, p)) \ D)  BY <1>12, <2>2, <2>3 DEF Frees
  <2>5. id \notin Joined(s, p) /\ id \notin D  BY <1>0, <1>1, <1>11, JoinedDying
  <2>6. ((Used(s) \cup {id}) \ Joined(s, p)) \ D = Left(s, p) \cup {id}
    BY <2>5 DEF Left, D
  <2> QED  BY <2>4, <2>6
<1>16. \A i \in BlockIds : u.block_pool[i] = IF i \in D THEN [pool[i] EXCEPT !.in_use = FALSE]
                                                        ELSE pool[i]
  BY <1>8, <1>12 DEF Frees
<1>17. \A i \in BlockIds : Gained(s, p, t, i) \in SUBSET Points
  <2>1. Captured(s, p) \subseteq Points  BY <1>0, AfterFacts
  <2> QED  BY <2>1 DEF Gained
<1>18. \A i \in BlockIds :
          LET r == t.block_pool[i]
          IN  /\ r \in GoBlocks /\ r.liberty_state \in SUBSET Points
              /\ pool[i] = WithLiberties(r, r.liberty_state \cup Gained(s, p, t, i))
              /\ pool[i] \in GoBlocks /\ (pool[i].in_use <=> r.in_use)
  <2> SUFFICES ASSUME NEW i \in BlockIds
               PROVE  LET r == t.block_pool[i]
                      IN  /\ r \in GoBlocks /\ r.liberty_state \in SUBSET Points
                          /\ pool[i] = WithLiberties(r, r.liberty_state \cup Gained(s, p, t, i))
                          /\ pool[i] \in GoBlocks /\ (pool[i].in_use <=> r.in_use)
    OBVIOUS
  <2> DEFINE r == t.block_pool[i]
             K == r.liberty_state \cup Gained(s, p, t, i)
  <2>1. r \in GoBlocks  BY <1>1 DEF Merged
  <2>2. r.liberty_state \in SUBSET Points  BY <2>1 DEF GoBlocks
  <2>3. K \in SUBSET Points  BY <1>17, <2>2
  <2>4. pool[i] = WithLiberties(r, K)  BY <1>9 DEF WithLiberties
  <2>5. WithLiberties(r, K) \in GoBlocks /\ WithLiberties(r, K).in_use = r.in_use
    BY <2>1, <2>3, BlockChanges
  <2> QED  BY <2>1, <2>2, <2>4, <2>5
<1>19. Renewed(s, p, u)
  <2>1. ASSUME NEW i \in BlockIds
        PROVE  /\ u.block_pool[i] \in GoBlocks
               /\ u.block_pool[i].in_use <=> i = id \/ i \in Left(s, p)
    <3>1. /\ pool[i] \in GoBlocks
          /\ pool[i].in_use <=> i = id \/ i \in Used(s) \ Joined(s, p)
      BY <1>1, <1>18 DEF Merged, id
    <3>2. CASE i \in D
      <4>1. [pool[i] EXCEPT !.in_use = FALSE] \in GoBlocks /\ ~ [pool[i] EXCEPT !.in_use = FALSE].in_use
        BY <3>1, BlockChanges
      <4>2. i # id /\ i \notin Left(s, p)  BY <1>1, <1>11, <3>2 DEF Left, D
      <4> QED  BY <1>16, <3>2, <4>1, <4>2
    <3>3. CASE i \notin D
      <4>1. i \in Left(s, p) <=> i \in Used(s) \ Joined(s, p)  BY <3>3 DEF Left, D
      <4> QED  BY <1>16, <3>1, <3>3, <4>1
    <3> QED  BY <3>2, <3>3
  <2>2. u.block_pool[id] = Founded(s, p)
    <3> DEFINE r == t.block_pool[id]
    <3>1. r = Founded(s, p)  BY <1>1 DEF Merged, id
    <3>2. Gained(s, p, t, id) \subseteq Founded(s, p).liberty_state
      BY <1>1, GainedAre DEF id
    <3>3. pool[id] = WithLiberties(r, r.liberty_state \cup Gained(s, p, t, id)) /\ r \in GoBlocks
      BY <1>1, <1>18
    <3> HIDE DEF r
    <3>4. r.liberty_state \cup Gained(s, p, t, id) = r.liberty_state  BY <3>1, <3>2
    <3>5. WithLiberties(r, r.liberty_state) = r
      <4>1. r.liberty_state \in SUBSET Points  BY <1>1, <1>18 DEF r
      <4> QED  BY <3>3, <4>1, BlockChanges
    <3>6. pool[id] = Founded(s, p)  BY <3>1, <3>3, <3>4, <3>5
    <3> QED  BY <1>1, <1>11, <1>16, <3>6
  <2>3. ASSUME NEW i \in Left(s, p)
        PROVE  u.block_pool[i] = WithLiberties(s.block_pool[i], OpenAfter(s, p, i))
    <3> DEFINE r == s.block_pool[i]
               L == r.liberty_state
               w == t.block_pool[i]
               G == Gained(s, p, t, i)
               K == L \ {p}
    <3>1. i \in Used(s) /\ i \in BlockIds /\ i \notin D /\ i \in Used(s) \ Joined(s, p)
      BY DEF Left, D, Used
    <3>2. w = WithLiberties(r, K)  BY <1>1, <3>1 DEF Merged
    <3>3. K \cup G = OpenAfter(s, p, i)  BY <1>1, GainedAre DEF id
    <3>4. r \in GoBlocks /\ L \in SUBSET Points  BY <1>0, <3>1, BlockTypes
    <3>5. pool[i] = WithLiberties(w, w.liberty_state \cup G)  BY <1>18, <3>1
    <3>6. G \in SUBSET Points  BY <1>17, <3>1
    <3>7. u.block_pool[i] = pool[i]  BY <1>16, <3>1
    <3> HIDE DEF w, G, L, r
    <3>8. K \in SUBSET Points  BY <3>4
    <3>9. w.liberty_state = K  BY <3>2, <3>4, <3>8, BlockChanges
    <3>10. K \cup G \in SUBSET Points  BY <3>6, <3>8
    <3>11. WithLiberties(WithLiberties(r, K), K \cup G) = WithLiberties(r, K \cup G)
      <4> HIDE DEF K
      <4>1. \A J : WithLiberties(WithLiberties(r, J), K \cup G) = WithLiberties(r, K \cup G)
        BY <3>4, <3>10, BlockChanges
      <4> QED  BY <4>1
    <3> HIDE DEF K
    <3> QED  BY <3>2, <3>3, <3>5, <3>7, <3>9, <3>11 DEF r
  <2> QED  BY <2>1, <2>2, <2>3 DEF Renewed, id
<1> QED  BY <1>12, <1>13, <1>14, <1>15, <1>19 DEF u, t, id, X

\* The blocks in use are those that the stones lead to, so they are not more than points.
LEMMA UsedAre ==
    ASSUME NEW s, NEW h, Blocks(s, h)
    PROVE  /\ Used(s) = {GetBlockIdByCoord(s, q) : q \in Stones(s.board_state)}
           /\ Cardinality(Used(s)) <= Rows * Columns
<1> DEFINE Q == Stones(s.board_state)
<1>1. Q \subseteq Points  BY DEF Stones
<1>2. ASSUME NEW q \in Q  PROVE GetBlockIdByCoord(s, q) \in Used(s)
  <2>1. PICK i \in Used(s) : q \in s.block_pool[i].stone_state  BY DEF Blocks, Stones
  <2> QED  BY <2>1, BlockIdIs
<1>3. ASSUME NEW i \in Used(s)  PROVE \E q \in Q : GetBlockIdByCoord(s, q) = i
  <2> DEFINE q == Last(s.block_pool[i].stones)
  <2>1. q \in s.block_pool[i].stone_state /\ s.block_pool[i].stone_state \in SUBSET Points
    BY TailInside
  <2>2. s.board_state[q] # EMPTY
    BY <2>1 DEF Blocks, GoodBlock, IsChain, EMPTY, BLACK, WHITE
  <2> QED  BY <2>1, <2>2, BlockIdIs DEF Stones
<1>4. Used(s) = {GetBlockIdByCoord(s, q) : q \in Q}  BY <1>2, <1>3
<1> DEFINE f == [q \in Q |-> GetBlockIdByCoord(s, q)]
<1>5. f \in Surjection(Q, Used(s))  BY <1>4 DEF Surjection
<1>6. IsFiniteSet(Q) /\ Cardinality(Q) <= Rows * Columns /\ Cardinality(Q) \in Nat
  BY <1>1, CountPoints
<1> HIDE DEF f, Q
<1>7. IsFiniteSet(Used(s)) /\ Cardinality(Used(s)) <= Cardinality(Q)
  BY <1>5, <1>6, FS_Surjection
<1>8. Cardinality(Used(s)) \in Nat  BY <1>7, FS_CardinalityType
<1> QED  BY <1>4, <1>6, <1>7, <1>8, FinitelyManyPoints DEF Q

\* The blocks left, and the one founded, are what the rules say they are.
LEMMA StoneKeepsBlocks ==
    ASSUME NEW s, NEW h, Sound(s, h), NEW p \in Points, s.board_state[p] = EMPTY,
           Founded(s, p).liberty_state # {},
           NEW v, IsGoState(v), Linked(s, p, v, NewBlock(s)), Renewed(s, p, v),
           v.board_state = BoardAfter(s, p)
    PROVE  /\ Blocks(v, Heights(s, h, p))
           /\ Used(v) = Left(s, p) \cup {NewBlock(s)}
           /\ NewBlock(s) \notin Used(s)
<1> DEFINE id == NewBlock(s)
           A == BoardAfter(s, p)
           M == Formed(s, p)
           g == Heights(s, h, p)
           F == Founded(s, p)
           S(i) == s.block_pool[i].stone_state
<1>0. IsGoState(s) /\ Blocks(s, h)  BY DEF Sound
<1>1. id \in BlockIds /\ id \notin Used(s)  BY MergeDoes
<1>2. Regrown(s, h, p, v, id)  BY <1>0, TreesAfter
<1>3. Left(s, p) \subseteq Used(s) /\ Left(s, p) \subseteq BlockIds  BY DEF Left, Used
<1>4. Used(v) = Left(s, p) \cup {id}  BY <1>1, <1>3 DEF Renewed, Used
<1>5. v.block_pool \in [BlockIds -> GoBlocks]  BY DEF IsGoState, Renewed
<1>6. v.block_pool[id] = F  BY DEF Renewed
<1>7. /\ F.color = s.current_player /\ F.stones = MergedStones(s, p) /\ F.stone_state = M
      /\ F.liberty_state = {r \in Around(M) : A[r] = EMPTY}
      /\ F.virtual_liberty_state = Around(M) \ M
  BY DEF Founded
<1>8. \A i \in Left(s, p) :
         LET b == s.block_pool[i]
             c == v.block_pool[i]
         IN  /\ c.color = b.color /\ c.stones = b.stones /\ c.stone_state = b.stone_state
             /\ c.virtual_liberty_state = b.virtual_liberty_state
             /\ c.liberty_state = OpenAfter(s, p, i)
  <2> SUFFICES ASSUME NEW i \in Left(s, p)
               PROVE  LET b == s.block_pool[i]
                          c == v.block_pool[i]
                      IN  /\ c.color = b.color /\ c.stones = b.stones
                          /\ c.stone_state = b.stone_state
                          /\ c.virtual_liberty_state = b.virtual_liberty_state
                          /\ c.liberty_state = OpenAfter(s, p, i)
    OBVIOUS
  <2> DEFINE b == s.block_pool[i]
             L == OpenAfter(s, p, i)
  <2>1. v.block_pool[i] = WithLiberties(b, L)  BY DEF Renewed
  <2>2. b \in GoBlocks /\ b.stone_state \in SUBSET Points  BY <1>0, <1>3, BlockTypes
  <2>3. L \in SUBSET Points  BY <2>2, AroundFacts DEF OpenAfter
  <2> HIDE DEF b, L
  <2>4. /\ WithLiberties(b, L).liberty_state = L
        /\ WithLiberties(b, L).color = b.color
        /\ WithLiberties(b, L).stones = b.stones
        /\ WithLiberties(b, L).stone_state = b.stone_state
        /\ WithLiberties(b, L).virtual_liberty_state = b.virtual_liberty_state
    BY <2>2, <2>3, BlockChanges
  <2> QED  BY <2>1, <2>4 DEF b, L
<1>9. s.current_player \in {BLACK, WHITE} /\ s.current_player # EMPTY
  BY <1>0, Players DEF IsGoState
<1>10. IsChain(A, s.current_player, M)  BY <1>0, FormedIsChain
<1>11. \A i \in Left(s, p) : /\ S(i) \cap M = {} /\ IsChain(A, s.block_pool[i].color, S(i))
                             /\ OpenAfter(s, p, i) # {}
  BY <1>0, OthersAfter DEF Left, OpenAfter
<1>12. /\ MergedStones(s, p) # <<>> /\ ToSet(MergedStones(s, p)) = M
       /\ Len(MergedStones(s, p)) = Cardinality(M) /\ Last(MergedStones(s, p)) = p
  BY <1>0, MergedStonesAre
<1>13. \A q \in Points : A[q] = IF q = p THEN s.current_player
                               ELSE IF q \in Captured(s, p) THEN EMPTY ELSE s.board_state[q]
  BY <1>0, AfterFacts
<1> HIDE DEF id, A, M, g, F
<1>14. GoodBlock(v, id) /\ Rooted(v, g, id)
  <2>1. GoodBlock(v, id)
    BY <1>6, <1>7, <1>9, <1>10, <1>12 DEF GoodBlock, A, F
  <2>2. Tree(v, g, M, p) /\ v.block_id[p] = id  BY <1>2 DEF Regrown, M, g, id
  <2>3. Rooted(v, g, id)  BY <1>6, <1>7, <1>12, <2>2 DEF Rooted
  <2> QED  BY <2>1, <2>3
<1>15. ASSUME NEW i \in Left(s, p)  PROVE GoodBlock(v, i) /\ Rooted(v, g, i)
  <2> DEFINE b == s.block_pool[i]
             c == v.block_pool[i]
  <2>1. GoodBlock(s, i)  BY <1>0, <1>3 DEF Blocks
  <2>2. /\ c.color = b.color /\ c.stones = b.stones /\ c.stone_state = b.stone_state
        /\ c.virtual_liberty_state = b.virtual_liberty_state
        /\ c.liberty_state = {r \in Around(b.stone_state) : A[r] = EMPTY}
        /\ c.liberty_state # {} /\ IsChain(A, b.color, b.stone_state)
    BY <1>8, <1>11 DEF OpenAfter, A
  <2>3. GoodBlock(v, i)
    <3> HIDE DEF b, c
    <3>1. /\ b.color \in {BLACK, WHITE}
          /\ b.virtual_liberty_state = Around(b.stone_state) \ b.stone_state
          /\ b.stones # <<>> /\ ToSet(b.stones) = b.stone_state
          /\ Len(b.stones) = Cardinality(b.stone_state)
      BY <2>1 DEF GoodBlock, b
    <3>2. v.board_state = A  BY DEF A
    <3> QED  BY <2>2, <3>1, <3>2 DEF GoodBlock, c
  <2>4. i \in Used(s) \ Joined(s, p)  BY DEF Left
  <2>5. Tree(v, g, b.stone_state, Last(b.stones)) /\ v.block_id[Last(b.stones)] = i
    BY <1>2, <2>4 DEF Regrown, g
  <2>6. Rooted(v, g, i)
    <3> HIDE DEF b
    <3> QED  BY <2>2, <2>5 DEF Rooted
  <2> QED  BY <2>3, <2>6
<1>16. ASSUME NEW q \in Points, v.board_state[q] # EMPTY
       PROVE  \E i \in Used(v) : q \in v.block_pool[i].stone_state
  <2>1. CASE q = p
    <3>1. p \in M  BY DEF M, Formed
    <3> QED  BY <1>4, <1>6, <1>7, <2>1, <3>1
  <2>2. CASE q # p
    <3>1. q \notin Captured(s, p) /\ s.board_state[q] # EMPTY  BY <1>13, <1>16, <2>2 DEF A
    <3>2. PICK i \in Used(s) : q \in S(i)  BY <1>0, <3>1 DEF Blocks
    <3>3. i \notin Dying(s, p)  BY <3>1, <3>2 DEF Captured
    <3>4. CASE i \in Joined(s, p)
      <4>1. q \in M  BY <3>2, <3>4 DEF M, Formed
      <4> QED  BY <1>4, <1>6, <1>7, <4>1
    <3>5. CASE i \notin Joined(s, p)
      <4>1. i \in Left(s, p)  BY <3>2, <3>3, <3>5 DEF Left
      <4> QED  BY <1>4, <1>8, <3>2, <4>1
    <3> QED  BY <3>4, <3>5
  <2> QED  BY <2>1, <2>2
<1>17. ASSUME NEW i \in Used(v), NEW j \in Used(v),
              v.block_pool[i].stone_state \cap v.block_pool[j].stone_state # {}
       PROVE  i = j
  <2>1. \A k, l \in Left(s, p) : S(k) \cap S(l) # {} => k = l  BY <1>0, <1>3 DEF Blocks
  <2>2. \A k \in Left(s, p) : v.block_pool[k].stone_state = S(k)  BY <1>8
  <2>3. v.block_pool[id].stone_state = M  BY <1>6, <1>7
  <2> HIDE DEF S
  <2> QED  BY <1>4, <1>11, <1>17, <2>1, <2>2, <2>3
<1>18. g \in [Points -> Nat]  BY <1>2 DEF Regrown, g
<1>19. Blocks(v, g)  BY <1>4, <1>5, <1>14, <1>15, <1>16, <1>17, <1>18 DEF Blocks
<1> QED  BY <1>1, <1>4, <1>19 DEF g, id

\* LibertyCounts() renews the counts of all the points whose block has other liberties.
LEMMA StoneKeepsCounts ==
    ASSUME NEW s, NEW h, Sound(s, h), Counts(s), NEW p \in Points, s.board_state[p] = EMPTY,
           NEW v, NEW g, Blocks(v, g), Used(v) = Left(s, p) \cup {NewBlock(s)},
           v.board_state = BoardAfter(s, p), Renewed(s, p, v),
           NEW u, u.block_pool = v.block_pool, Linked(s, p, u, NewBlock(s)),
           u.board_state =
              [q \in Points |-> IF q \in Captured(s, p) THEN EMPTY ELSE s.board_state[q]],
           v.liberty_count = LibertyCounts(s, p, u)
    PROVE  Counts(v)
<1> DEFINE id == NewBlock(s)
           X == Captured(s, p)
           captured == {q \in Points : s.board_state[q] # EMPTY /\ u.board_state[q] = EMPTY}
           near == UNION {Neighbours(c) : c \in captured}
           others == {GetBlockIdByCoord(u, q) :
                         q \in {n \in near : u.board_state[n] = s.current_player}}
           touched == NeighbourBlocks(s, p) \cup {u.block_id[p]} \cup others
           of(q) == {i \in touched : u.block_pool[i].in_use
                                       /\ q \in ToSet(u.block_pool[i].stones)}
           S(i) == v.block_pool[i].stone_state
<1>0. IsGoState(s) /\ Blocks(s, h)  BY DEF Sound
<1>1. \A q \in Points : v.liberty_count[q] =
         IF q \in captured THEN 0
         ELSE IF of(q) = {} THEN s.liberty_count[q]
         ELSE Liberties(u.block_pool[CHOOSE i \in of(q) : TRUE])
  BY DEF LibertyCounts
<1>2. s.current_player \in {BLACK, WHITE} /\ s.current_player # EMPTY
  BY <1>0, Players DEF IsGoState
<1>3. /\ X \subseteq Points /\ p \notin X /\ \A q \in X : s.board_state[q] # EMPTY
      /\ \A q \in Points : v.board_state[q] =
            IF q = p THEN s.current_player ELSE IF q \in X THEN EMPTY ELSE s.board_state[q]
  <2>1. Opponent(s.current_player) # EMPTY  BY <1>2, Players
  <2> QED  BY <1>0, <2>1, AfterFacts
<1>4. captured = X
  <2>1. \A q \in Points : u.board_state[q] = IF q \in X THEN EMPTY ELSE s.board_state[q]
    OBVIOUS
  <2> HIDE DEF X
  <2> QED  BY <1>3, <2>1
<1>5. u.block_id[p] = id  BY <1>0 DEF Linked, IsGoState
<1>6. id \in BlockIds /\ id \notin Used(s)  BY MergeDoes
<1>7. NeighbourBlocks(s, p) = {i \in Used(s) : p \in s.block_pool[i].liberty_state}
  BY <1>0, NeighbourBlocksAre
<1>8. /\ \A q \in Formed(s, p) : GetBlockIdByCoord(u, q) = id
      /\ \A i \in Used(s) \ Joined(s, p) : \A q \in s.block_pool[i].stone_state :
            GetBlockIdByCoord(u, q) = i
  BY <1>0, BlockIdsAfter
<1>9. others \subseteq BlockIds
  <2> SUFFICES ASSUME NEW n \in near, u.board_state[n] = s.current_player
               PROVE  GetBlockIdByCoord(u, n) \in BlockIds
    OBVIOUS
  <2>1. n \in Points  BY NeighboursMutual
  <2>2. s.board_state[n] # EMPTY
    <3>1. u.board_state[n] = IF n \in X THEN EMPTY ELSE s.board_state[n]  BY <2>1
    <3> QED  BY <1>2, <3>1
  <2>3. PICK i \in Used(s) : n \in s.block_pool[i].stone_state  BY <1>0, <2>1, <2>2 DEF Blocks
  <2>4. CASE i \in Joined(s, p)
    <3>1. n \in Formed(s, p)  BY <2>3, <2>4 DEF Formed
    <3> QED  BY <1>6, <1>8, <3>1
  <2>5. CASE i \notin Joined(s, p)
    <3>1. GetBlockIdByCoord(u, n) = i  BY <1>8, <2>3, <2>5
    <3> QED  BY <3>1 DEF Used
  <2> QED  BY <2>4, <2>5
<1>10. touched \subseteq BlockIds  BY <1>5, <1>6, <1>7, <1>9 DEF Used
<1>11. \A q : of(q) = {i \in Used(v) : i \in touched /\ q \in S(i)}
  <2>1. \A i \in Used(v) : ToSet(v.block_pool[i].stones) = S(i)  BY DEF Blocks, GoodBlock
  <2>2. \A i \in BlockIds : v.block_pool[i].in_use <=> i \in Used(v)  BY DEF Used
  <2>3. \A q : of(q) = {i \in touched : i \in Used(v) /\ q \in ToSet(v.block_pool[i].stones)}
    <3> HIDE DEF touched
    <3> QED  BY <1>10, <2>2
  <2> HIDE DEF of, touched, S
  <2> QED  BY <2>1, <2>3
<1> HIDE DEF id, X, captured, near, others, touched, of
<1>12. ASSUME NEW q \in Points, v.board_state[q] = EMPTY  PROVE v.liberty_count[q] = 0
  <2>1. CASE q \in X  BY <1>1, <1>4, <2>1
  <2>2. CASE q \notin X
    <3>1. q # p /\ s.board_state[q] = EMPTY  BY <1>2, <1>3, <1>12, <2>2
    <3>2. of(q) = {}
      <4> SUFFICES ASSUME NEW i \in Used(v), q \in S(i)  PROVE FALSE
        BY <1>11
      <4>1. GoodBlock(v, i)  BY DEF Blocks
      <4> QED  BY <1>12, <4>1 DEF GoodBlock, IsChain, EMPTY, BLACK, WHITE
    <3>3. v.liberty_count[q] = s.liberty_count[q]  BY <1>1, <1>4, <2>2, <3>2
    <3> QED  BY <3>1, <3>3 DEF Counts
  <2> QED  BY <2>1, <2>2
<1>13. ASSUME NEW i \in Used(v), NEW q \in S(i)
       PROVE  v.liberty_count[q] = Liberties(v.block_pool[i])
  <2>1. GoodBlock(v, i)  BY DEF Blocks
  <2>2. /\ q \in Points /\ v.board_state[q] # EMPTY
    BY <2>1 DEF GoodBlock, IsChain, EMPTY, BLACK, WHITE
  <2>3. q \notin X  BY <1>3, <2>2
  <2>4. \A j \in Used(v) : q \in S(j) => j = i  BY DEF Blocks
  <2>5. of(q) = IF i \in touched THEN {i} ELSE {}  BY <1>11, <2>4
  <2>6. CASE i \in touched
    <3>1. of(q) = {i}  BY <2>5, <2>6
    <3>2. (CHOOSE j \in of(q) : TRUE) = i  BY <3>1
    <3> QED  BY <1>1, <1>4, <2>2, <2>3, <3>1, <3>2
  <2>7. CASE i \notin touched
    <3>1. v.liberty_count[q] = s.liberty_count[q]  BY <1>1, <1>4, <2>2, <2>3, <2>5, <2>7
    <3>2. i # id /\ i \in Left(s, p)  BY <1>5, <2>7 DEF touched, id
    <3>3. i \in Used(s) /\ i \notin Joined(s, p) /\ i \notin Dying(s, p) /\ i \in BlockIds
      BY <3>2 DEF Left, Used
    <3> DEFINE b == s.block_pool[i]
               L == b.liberty_state
               O == OpenAfter(s, p, i)
    <3>4. b \in GoBlocks /\ b.stone_state \in SUBSET Points  BY <1>0, <3>3, BlockTypes
    <3>5. O \in SUBSET Points  BY <3>4, AroundFacts DEF OpenAfter
    <3>6. v.block_pool[i] = WithLiberties(b, O)  BY <3>2 DEF Renewed
    <3>7. v.block_pool[i].liberty_state = O /\ v.block_pool[i].stone_state = b.stone_state
      <4> HIDE DEF b, O
      <4>1. WithLiberties(b, O).liberty_state = O /\ WithLiberties(b, O).stone_state = b.stone_state
        BY <3>4, <3>5, BlockChanges
      <4> QED  BY <3>6, <4>1
    <3>8. p \notin L  BY <1>7, <2>7, <3>3 DEF touched
    <3>9. /\ b.stone_state \cap X = {}
          /\ b.color = Opponent(s.current_player) => O = L \ {p}
          /\ b.color = s.current_player => O = L \cup (X \cap Around(b.stone_state))
      BY <1>0, <3>3, OthersAfter DEF OpenAfter, X
    <3>10. /\ b.color \in {BLACK, WHITE} /\ \A x \in b.stone_state : s.board_state[x] = b.color
      BY <1>0, <3>3 DEF Blocks, GoodBlock, IsChain
    <3>11. O = L
      <4>1. CASE b.color = Opponent(s.current_player)  BY <3>8, <3>9, <4>1
      <4>2. CASE b.color = s.current_player
        <5>1. X \cap Around(b.stone_state) = {}
          <6> SUFFICES ASSUME NEW c \in X, c \in Around(b.stone_state)  PROVE FALSE
            OBVIOUS
          <6>1. PICK x \in b.stone_state : x \in Neighbours(c)  BY <3>4, AroundFacts
          <6>2. x \in near /\ x \in Points  BY <1>4, <3>4, <6>1 DEF near
          <6>3. x \notin X /\ s.board_state[x] = s.current_player  BY <3>9, <3>10, <4>2
          <6>4. u.board_state[x] = s.current_player  BY <6>2, <6>3 DEF X
          <6>5. GetBlockIdByCoord(u, x) = i  BY <1>8, <3>3
          <6>6. i \in others  BY <6>2, <6>4, <6>5 DEF others
          <6> QED  BY <2>7, <6>6 DEF touched
        <5> QED  BY <3>9, <4>2, <5>1
      <4> QED  BY <1>2, <3>10, <4>1, <4>2, Players
    <3>12. s.liberty_count[q] = Liberties(b)
      <4>1. q \in b.stone_state  BY <3>7
      <4> QED  BY <2>2, <3>3, <4>1 DEF Counts
    <3>13. Liberties(v.block_pool[i]) = Liberties(b)  BY <3>7, <3>11 DEF Liberties
    <3> QED  BY <3>1, <3>12, <3>13
  <2> QED  BY <2>6, <2>7
<1> QED  BY <1>12, <1>13 DEF Counts

-----------------------------------------------------------------------------
(* Whole moves.                                                            *)

\* The blocks of t in use are those of s.
SameBlocks(s, t) ==
    /\ t.board_state = s.board_state /\ t.parent_id = s.parent_id /\ t.block_id = s.block_id
    /\ t.block_pool \in [BlockIds -> GoBlocks]
    /\ Used(t) = Used(s) /\ \A i \in Used(s) : t.block_pool[i] = s.block_pool[i]

\* Then they are as good.
LEMMA SameBlocksKeep ==
    ASSUME NEW s, NEW h, Blocks(s, h), NEW t, SameBlocks(s, t)
    PROVE  /\ Blocks(t, h)
           /\ Counts(s) /\ t.liberty_count = s.liberty_count => Counts(t)
<1>1. \A i \in Used(t) : GoodBlock(t, i) /\ Rooted(t, h, i)
  <2> SUFFICES ASSUME NEW i \in Used(t)  PROVE GoodBlock(t, i) /\ Rooted(t, h, i)
    OBVIOUS
  <2>1. GoodBlock(s, i) /\ Rooted(s, h, i) /\ t.block_pool[i] = s.block_pool[i]
    BY DEF Blocks, SameBlocks
  <2>2. GoodBlock(t, i)  BY <2>1 DEF GoodBlock, SameBlocks
  <2>3. Rooted(t, h, i)  BY <2>1 DEF Rooted, Tree, SameBlocks
  <2> QED  BY <2>2, <2>3
<1>2. Blocks(t, h)  BY <1>1 DEF Blocks, SameBlocks
<1>3. Counts(s) /\ t.liberty_count = s.liberty_count => Counts(t)
  BY DEF Counts, SameBlocks
<1> QED  BY <1>2, <1>3

\* Taking a block and giving it back leaves the blocks in use.
LEMMA TakeAndGiveBack ==
    ASSUME NEW s, NEW h, Sound(s, h), NoBlock \in GoBlocks, ~ NoBlock.in_use
    PROVE  LET t == RecycleBlock(GetNewBlock(s), NewBlock(s))
           IN  SameBlocks(s, t) /\ Accounted(t, Used(s))
<1> DEFINE n == GetNewBlock(s)
           id == NewBlock(s)
           t == RecycleBlock(n, id)
<1>0. IsGoState(s) /\ Blocks(s, h)  BY DEF Sound
<1>1. /\ id \in BlockIds /\ id \notin Used(s) /\ id \in Int
      /\ Accounted(n, Used(s) \cup {id})
      /\ IsGoState(n) /\ SameButBlocks(s, n)
      /\ n.block_pool = [s.block_pool EXCEPT ![id] = NoBlock]
  BY <1>0, GetNewBlockAccounted, GetNewBlockIsGoState, GetNewBlockDoes DEF Sound
<1> HIDE DEF n, id
<1>2. IsGoState(t) /\ SameButBlocks(n, t) /\ Frees(n, t, {id})
  BY <1>1, RecycleBlockIsGoState, RecycleBlockFrees
<1> HIDE DEF t
<1>3. Accounted(t, Used(s))
  <2>1. Accounted(t, (Used(s) \cup {id}) \ {id})  BY <1>1, <1>2 DEF Frees
  <2>2. (Used(s) \cup {id}) \ {id} = Used(s)  BY <1>1
  <2> QED  BY <2>1, <2>2
<1>4. \A i \in BlockIds : i # id => t.block_pool[i] = s.block_pool[i]
  BY <1>0, <1>1, <1>2 DEF Frees, IsGoState
<1>5. t.block_pool[id] \in GoBlocks /\ ~ t.block_pool[id].in_use
  <2>1. n.block_pool[id] = NoBlock  BY <1>0, <1>1 DEF IsGoState
  <2>2. t.block_pool[id] = [NoBlock EXCEPT !.in_use = FALSE]  BY <1>1, <1>2, <2>1 DEF Frees
  <2>3. {} \in SUBSET Points  OBVIOUS
  <2> QED  BY <2>2, <2>3, BlockChanges
<1>6. \A i \in BlockIds : s.block_pool[i] \in GoBlocks  BY <1>0, BlockTypes
<1>7. t.block_pool \in [BlockIds -> GoBlocks]
  BY <1>2, <1>4, <1>5, <1>6 DEF IsGoState
<1>8. Used(t) = Used(s)
  <2>1. \A i \in BlockIds : t.block_pool[i].in_use <=> i # id /\ s.block_pool[i].in_use
    BY <1>4, <1>5
  <2> QED  BY <1>1, <2>1 DEF Used
<1>9. /\ t.board_state = s.board_state /\ t.parent_id = s.parent_id
      /\ t.block_id = s.block_id
  BY <1>1, <1>2, MemberNames DEF SameButBlocks
<1>10. \A i \in Used(s) : t.block_pool[i] = s.block_pool[i]
  BY <1>1, <1>4 DEF Used
<1> QED  BY <1>3, <1>7, <1>8, <1>9, <1>10 DEF SameBlocks, t, n, id

\* A block that is reset is a block.
LEMMA NoBlockIsBlock == NoBlock \in GoBlocks /\ ~ NoBlock.in_use
BY DEF NoBlock, GoBlocks

\* s when the other player is to move.
Turned(s) == [s EXCEPT !.current_player = Opponent(@)]

\* That changes the player only.
LEMMA TurnedIs ==
    ASSUME NEW s, NEW h, Sound(s, h)
    PROVE  /\ Sound(Turned(s), h)
           /\ Turned(s).current_player = Opponent(s.current_player)
           /\ \A f \in Members \ {"current_player"} : Turned(s)[f] = s[f]
<1> DEFINE u == Turned(s)
<1>0. IsGoState(s) /\ Blocks(s, h)  BY DEF Sound
<1>1. /\ IsRecord(u) /\ u.current_player = Opponent(s.current_player)
      /\ \A f \in Members \ {"current_player"} : u[f] = s[f]
  BY <1>0, MemberNames DEF IsRecord, IsGoState, Turned
<1> HIDE DEF u
<1>2. Opponent(s.current_player) \in {BLACK, WHITE}  BY <1>0, Players DEF IsGoState
<1>3. IsGoState(u)  BY <1>0, <1>1, <1>2, MemberNames DEF IsGoState
<1>4. /\ u.board_state = s.board_state /\ u.parent_id = s.parent_id /\ u.block_id = s.block_id
      /\ u.block_pool = s.block_pool /\ u.recycled_blocks = s.recycled_blocks
      /\ u.block_in_use = s.block_in_use
  BY <1>1, MemberNames
<1>5. SameBlocks(s, u)  BY <1>0, <1>4 DEF SameBlocks, Used, Blocks
<1>6. Blocks(u, h) /\ Used(u) = Used(s)  BY <1>0, <1>5, SameBlocksKeep DEF SameBlocks
<1>7. Accounted(u, Used(u)) /\ Cardinality(Used(u)) <= Rows * Columns
  BY <1>4, <1>6 DEF Accounted, Sound
<1>8. Sound(u, h)  BY <1>3, <1>6, <1>7 DEF Sound
<1> QED  BY <1>1, <1>8 DEF u

\* The end of a move keeps the blocks, and the other player's legal moves are those that
\* are found before the position is one of the past.
LEMMA EndMoveDoes ==
    ASSUME NEW s, NEW h, Sound(s, h)
    PROVE  LET e == EndMove(s)
           IN  /\ Sound(e, h) /\ (Counts(s) => Counts(e))
               /\ e.board_state = s.board_state
               /\ e.current_player = Opponent(s.current_player)
               /\ e.legal_move_map = LegalMoves(Turned(s))
               /\ e.board_hash_states = IF s.positional_superko
                                        THEN s.board_hash_states \cup {s.zobrist_hash}
                                        ELSE s.board_hash_states
               /\ e.ko_position = s.ko_position /\ e.zobrist_hash = s.zobrist_hash
               /\ e.positional_superko = s.positional_superko
               /\ e.last_position = s.last_position
<1> DEFINE w == Turned(s)
           u == RecycleBlock(GetNewBlock(w), NewBlock(w))
           list == w.feature_history_list \o <<StonesOf(w, BLACK), StonesOf(w, WHITE)>>
           a == [u EXCEPT !.feature_history_list = list]
           t == [a EXCEPT !.legal_move_map = LegalMoves(w)]
           hashes == IF s.positional_superko THEN t.board_hash_states \cup {s.zobrist_hash}
                                             ELSE t.board_hash_states
           e == [t EXCEPT !.board_hash_states = hashes]
<1>0. IsGoState(s) /\ Blocks(s, h) /\ Accounted(s, Used(s))
      /\ Cardinality(Used(s)) <= Rows * Columns
  BY DEF Sound
<1>1. /\ Sound(w, h) /\ w.current_player = Opponent(s.current_player)
      /\ \A f \in Members \ {"current_player"} : w[f] = s[f]
  BY TurnedIs
<1>2. IsGoState(w) /\ Blocks(w, h)  BY <1>1 DEF Sound
<1>3. IsGoState(GetNewBlock(w)) /\ SameButBlocks(w, GetNewBlock(w)) /\ NewBlock(w) \in Int
  BY <1>2, GetNewBlockIsGoState
<1>4. IsGoState(u) /\ SameButBlocks(w, u)
  BY <1>3, RecycleBlockIsGoState DEF SameButBlocks
<1>5. SameBlocks(w, u) /\ Accounted(u, Used(w))  BY <1>1, NoBlockIsBlock, TakeAndGiveBack
<1>6. GetSensibleMove(w) = t
  <2>1. u.feature_history_list = w.feature_history_list  BY <1>4, MemberNames DEF SameButBlocks
  <2> QED  BY <2>1 DEF GetSensibleMove
<1>7. EndMove(s) = e  BY <1>6 DEF EndMove, Turned
<1> HIDE DEF w, u, list
<1>8. /\ IsRecord(a) /\ \A f \in Members \ {"feature_history_list"} : a[f] = u[f]
  BY <1>4, MemberNames DEF IsRecord, IsGoState
<1> HIDE DEF a
<1>9. /\ IsRecord(t) /\ t.legal_move_map = LegalMoves(w)
      /\ \A f \in Members \ {"legal_move_map"} : t[f] = a[f]
  BY <1>8, MemberNames DEF IsRecord
<1> HIDE DEF t, hashes
<1>10. /\ e.board_hash_states = hashes
       /\ \A f \in Members \ {"board_hash_states"} : e[f] = t[f]
  BY <1>9, MemberNames DEF IsRecord
<1> HIDE DEF e
<1>11. \A f \in Members \ {"board_hash_states", "legal_move_map", "feature_history_list"} :
          e[f] = u[f]
  BY <1>8, <1>9, <1>10
<1>12. /\ e.board_state = u.board_state /\ e.parent_id = u.parent_id /\ e.block_id = u.block_id
       /\ e.block_pool = u.block_pool /\ e.recycled_blocks = u.recycled_blocks
       /\ e.block_in_use = u.block_in_use /\ e.current_player = u.current_player
       /\ e.ko_position = u.ko_position /\ e.zobrist_hash = u.zobrist_hash
       /\ e.positional_superko = u.positional_superko /\ e.last_position = u.last_position
       /\ e.liberty_count = u.liberty_count
  BY <1>11, MemberNames
<1>13. /\ u.board_state = w.board_state /\ u.current_player = w.current_player
       /\ u.ko_position = w.ko_position /\ u.zobrist_hash = w.zobrist_hash
       /\ u.positional_superko = w.positional_superko /\ u.last_position = w.last_position
       /\ u.liberty_count = w.liberty_count /\ u.board_hash_states = w.board_hash_states
  BY <1>4, MemberNames DEF SameButBlocks
<1>14. /\ w.board_state = s.board_state
       /\ w.ko_position = s.ko_position /\ w.zobrist_hash = s.zobrist_hash
       /\ w.positional_superko = s.positional_superko /\ w.last_position = s.last_position
       /\ w.liberty_count = s.liberty_count /\ w.board_hash_states = s.board_hash_states
       /\ w.parent_id = s.parent_id /\ w.block_id = s.block_id /\ w.block_pool = s.block_pool
  BY <1>1, MemberNames
<1>15. t.board_hash_states = u.board_hash_states /\ e.legal_move_map = t.legal_move_map
  BY <1>8, <1>9, <1>10, MemberNames
<1>16. hashes = IF s.positional_superko THEN s.board_hash_states \cup {s.zobrist_hash}
                ELSE s.board_hash_states
  BY <1>13, <1>14, <1>15 DEF hashes
<1>17. Used(w) = Used(s)  BY <1>14 DEF Used
<1>18. SameBlocks(s, e)
  <2>1. Used(e) = Used(u)  BY <1>12 DEF Used
  <2> QED  BY <1>5, <1>12, <1>13, <1>14, <1>17, <2>1 DEF SameBlocks
<1>19. Blocks(e, h) /\ (Counts(s) => Counts(e)) /\ Used(e) = Used(s)
  <2>1. e.liberty_count = s.liberty_count  BY <1>12, <1>13, <1>14
  <2> QED  BY <1>0, <1>18, <2>1, SameBlocksKeep DEF SameBlocks
<1>20. Accounted(e, Used(e))  BY <1>5, <1>12, <1>17, <1>19 DEF Accounted
<1>21. IsGoState(e)  BY <1>0, <1>7, EndMoveFollows DEF Follows
<1>22. Sound(e, h)  BY <1>0, <1>19, <1>20, <1>21 DEF Sound
<1> QED  BY <1>1, <1>7, <1>9, <1>10, <1>12, <1>13, <1>14, <1>15, <1>16, <1>19, <1>22 DEF w

\* e is the state after a move from s, and w the one in which its legal moves are found:
\* they differ in the history and in the past positions only.
Moved(s, e, w, h) ==
    /\ Sound(e, h) /\ Sound(w, h)
    /\ e.current_player = Opponent(s.current_player)
    /\ e.positional_superko = s.positional_superko
    /\ e.legal_move_map = LegalMoves(w)
    /\ e.board_hash_states = IF s.positional_superko
                             THEN s.board_hash_states \cup {e.zobrist_hash}
                             ELSE s.board_hash_states
    /\ w.board_hash_states = s.board_hash_states
    /\ w.board_state = e.board_state /\ w.current_player = e.current_player
    /\ w.ko_position = e.ko_position /\ w.zobrist_hash = e.zobrist_hash
    /\ w.positional_superko = e.positional_superko

\* The end of a move from s, in the state v.
LEMMA Ending ==
    ASSUME NEW s, NEW v, NEW h, Sound(v, h), v.current_player = s.current_player,
           v.positional_superko = s.positional_superko,
           v.board_hash_states = s.board_hash_states
    PROVE  /\ Moved(s, EndMove(v), Turned(v), h)
           /\ Counts(v) => Counts(EndMove(v))
           /\ EndMove(v).board_state = v.board_state
           /\ EndMove(v).ko_position = v.ko_position
           /\ EndMove(v).zobrist_hash = v.zobrist_hash
           /\ EndMove(v).last_position = v.last_position
<1> DEFINE e == EndMove(v)
           w == Turned(v)
<1>1. /\ Sound(e, h) /\ (Counts(v) => Counts(e))
      /\ e.board_state = v.board_state
      /\ e.current_player = Opponent(v.current_player)
      /\ e.legal_move_map = LegalMoves(w)
      /\ e.board_hash_states = IF v.positional_superko
                               THEN v.board_hash_states \cup {v.zobrist_hash}
                               ELSE v.board_hash_states
      /\ e.ko_position = v.ko_position /\ e.zobrist_hash = v.zobrist_hash
      /\ e.positional_superko = v.positional_superko
      /\ e.last_position = v.last_position
  BY EndMoveDoes
<1>2. /\ Sound(w, h) /\ w.current_player = Opponent(v.current_player)
      /\ \A f \in Members \ {"current_player"} : w[f] = v[f]
  BY TurnedIs
<1> HIDE DEF e, w
<1>3. /\ w.board_state = v.board_state /\ w.ko_position = v.ko_position
      /\ w.zobrist_hash = v.zobrist_hash /\ w.positional_superko = v.positional_superko
      /\ w.board_hash_states = v.board_hash_states
  BY <1>2, MemberNames
<1>4. Moved(s, e, w, h)  BY <1>1, <1>2, <1>3 DEF Moved
<1> QED  BY <1>1, <1>4 DEF e, w

\* A pass.
LEMMA PassDoes ==
    ASSUME NEW s, NEW h, Sound(s, h), Counts(s)
    PROVE  LET e == Pass(s)
           IN  /\ \E w : Moved(s, e, w, h)
               /\ Counts(e)
               /\ e.board_state = s.board_state
               /\ e.ko_position = UNSET /\ e.zobrist_hash = GetNewHashValue(s, PASS)
               /\ e.last_position = PASS
<1> DEFINE hash == GetNewHashValue(s, PASS)
           double == s.last_position = PASS
           a == [s EXCEPT !.is_double_pass = double]
           b == [a EXCEPT !.last_position = PASS]
           c == [b EXCEPT !.ko_position = UNSET]
           v == [c EXCEPT !.zobrist_hash = hash]
<1>0. IsGoState(s) /\ Blocks(s, h)  BY DEF Sound
<1>1. Pass(s) = EndMove(v)  BY DEF Pass
<1> HIDE DEF hash, double
<1>2. /\ IsRecord(v) /\ v.last_position = PASS /\ v.ko_position = UNSET
      /\ v.zobrist_hash = hash
      /\ \A f \in Members \ {"is_double_pass", "last_position", "ko_position",
                            "zobrist_hash"} : v[f] = s[f]
  <2>1. IsRecord(a) /\ \A f \in Members \ {"is_double_pass"} : a[f] = s[f]
    BY <1>0, MemberNames DEF IsRecord, IsGoState
  <2> HIDE DEF a
  <2>2. /\ IsRecord(b) /\ b.last_position = PASS
        /\ \A f \in Members \ {"last_position"} : b[f] = a[f]
    BY <2>1, MemberNames DEF IsRecord
  <2> HIDE DEF b
  <2>3. /\ IsRecord(c) /\ c.ko_position = UNSET
        /\ \A f \in Members \ {"ko_position"} : c[f] = b[f]
    BY <2>2, MemberNames DEF IsRecord
  <2> HIDE DEF c
  <2>4. /\ IsRecord(v) /\ v.zobrist_hash = hash
        /\ \A f \in Members \ {"zobrist_hash"} : v[f] = c[f]
    BY <2>3, MemberNames DEF IsRecord
  <2> HIDE DEF v
  <2>5. \A f \in Members \ {"is_double_pass", "last_position", "ko_position",
                            "zobrist_hash"} : v[f] = s[f]
    BY <2>1, <2>2, <2>3, <2>4
  <2>6. v.last_position = PASS /\ v.ko_position = UNSET
    BY <2>2, <2>3, <2>4, MemberNames
  <2> QED  BY <2>4, <2>5, <2>6
<1> HIDE DEF v
<1>3. IsGoState(v)  BY <1>0, <1>2, MemberNames DEF IsGoState
<1>4. /\ v.current_player = s.current_player /\ v.board_state = s.board_state
      /\ v.parent_id = s.parent_id /\ v.block_id = s.block_id /\ v.block_pool = s.block_pool
      /\ v.recycled_blocks = s.recycled_blocks /\ v.block_in_use = s.block_in_use
      /\ v.liberty_count = s.liberty_count /\ v.board_hash_states = s.board_hash_states
      /\ v.positional_superko = s.positional_superko
  BY <1>2, MemberNames
<1>5. SameBlocks(s, v)  BY <1>0, <1>4 DEF SameBlocks, Used, Blocks
<1>6. Blocks(v, h) /\ Counts(v) /\ Used(v) = Used(s)
  BY <1>0, <1>4, <1>5, SameBlocksKeep DEF SameBlocks
<1>7. Accounted(v, Used(v)) /\ Cardinality(Used(v)) <= Rows * Columns
  BY <1>4, <1>6 DEF Accounted, Sound
<1>8. Sound(v, h)  BY <1>3, <1>6, <1>7 DEF Sound
<1>9. /\ Moved(s, EndMove(v), Turned(v), h) /\ Counts(EndMove(v))
      /\ EndMove(v).board_state = v.board_state
      /\ EndMove(v).ko_position = v.ko_position
      /\ EndMove(v).zobrist_hash = v.zobrist_hash
      /\ EndMove(v).last_position = v.last_position
  BY <1>4, <1>6, <1>8, Ending
<1> QED  BY <1>1, <1>2, <1>4, <1>9 DEF hash

\* A stone that is no suicide.
LEMMA PlaceDoes ==
    ASSUME NEW s, NEW h, Sound(s, h), Counts(s), NEW p \in Points, s.board_state[p] = EMPTY,
           Founded(s, p).liberty_state # {}
    PROVE  LET e == Place(s, p)
           IN  /\ \E w : Moved(s, e, w, Heights(s, h, p))
               /\ Counts(e)
               /\ e.board_state = BoardAfter(s, p)
               /\ e.ko_position = KoPosition(s, p) /\ e.zobrist_hash = GetNewHashValue(s, p)
               /\ e.last_position = p
<1> DEFINE t == Capture(s, p, Merge(s, p))
           ko == KoPosition(s, p)
           hash == GetNewHashValue(s, p)
           counts == LibertyCounts(s, p, t)
           board == [t.board_state EXCEPT ![p] = s.current_player]
           a == [t EXCEPT !.is_double_pass = FALSE]
           b == [a EXCEPT !.last_position = p]
           c == [b EXCEPT !.ko_position = ko]
           d == [c EXCEPT !.zobrist_hash = hash]
           e == [d EXCEPT !.liberty_count = counts]
           v == [e EXCEPT !.board_state = board]
           id == NewBlock(s)
           g == Heights(s, h, p)
<1>0. IsGoState(s) /\ Blocks(s, h)  BY DEF Sound
<1>1. /\ IsGoState(t) /\ Linked(s, p, t, id) /\ Renewed(s, p, t)
      /\ Accounted(t, Left(s, p) \cup {id})
      /\ t.board_state = [q \in Points |-> IF q \in Captured(s, p) THEN EMPTY ELSE s.board_state[q]]
  BY CaptureDoes
<1>2. /\ t.current_player = s.current_player
      /\ t.positional_superko = s.positional_superko
      /\ t.board_hash_states = s.board_hash_states
  BY <1>0, MergeIsGoState, CaptureIsGoState, MemberNames
<1>3. board = BoardAfter(s, p)
  <2>1. \A q \in Points : board[q] = IF q = p THEN s.current_player
                                     ELSE IF q \in Captured(s, p) THEN EMPTY ELSE s.board_state[q]
    BY <1>1
  <2>2. board = [q \in Points |-> board[q]]
    BY <1>1
  <2> HIDE DEF board
  <2> QED  BY <2>1, <2>2 DEF BoardAfter
<1>4. /\ IsRecord(e) /\ e.last_position = p /\ e.ko_position = ko /\ e.zobrist_hash = hash
      /\ e.liberty_count = counts
      /\ \A f \in Members \ {"is_double_pass", "last_position", "ko_position",
                            "zobrist_hash", "liberty_count"} : e[f] = t[f]
  <2> HIDE DEF ko, hash, counts, t
  <2>1. IsRecord(a) /\ \A f \in Members \ {"is_double_pass"} : a[f] = t[f]
    BY <1>1, MemberNames DEF IsRecord, IsGoState
  <2> HIDE DEF a
  <2>2. /\ IsRecord(b) /\ b.last_position = p
        /\ \A f \in Members \ {"last_position"} : b[f] = a[f]
    BY <2>1, MemberNames DEF IsRecord
  <2> HIDE DEF b
  <2>3. /\ IsRecord(c) /\ c.ko_position = ko
        /\ \A f \in Members \ {"ko_position"} : c[f] = b[f]
    BY <2>2, MemberNames DEF IsRecord
  <2> HIDE DEF c
  <2>4. /\ IsRecord(d) /\ d.zobrist_hash = hash
        /\ \A f \in Members \ {"zobrist_hash"} : d[f] = c[f]
    BY <2>3, MemberNames DEF IsRecord
  <2> HIDE DEF d
  <2>5. /\ IsRecord(e) /\ e.liberty_count = counts
        /\ \A f \in Members \ {"liberty_count"} : e[f] = d[f]
    BY <2>4, MemberNames DEF IsRecord
  <2> HIDE DEF e
  <2>6. e.last_position = p /\ e.ko_position = ko /\ e.zobrist_hash = hash
    BY <2>2, <2>3, <2>4, <2>5, MemberNames
  <2> QED  BY <2>1, <2>2, <2>3, <2>4, <2>5, <2>6
<1>5. e.board_state = t.board_state  BY <1>4, MemberNames
<1>6. Place(s, p) = EndMove(v)  BY <1>5 DEF Place
<1> HIDE DEF e, board, t, ko, hash, counts
<1>7. /\ IsRecord(v) /\ v.board_state = board
      /\ \A f \in Members \ {"board_state"} : v[f] = e[f]
  BY <1>4, MemberNames DEF IsRecord
<1> HIDE DEF v
<1>8. /\ v.current_player = s.current_player
      /\ v.parent_id = t.parent_id /\ v.block_id = t.block_id /\ v.block_pool = t.block_pool
      /\ v.recycled_blocks = t.recycled_blocks /\ v.block_in_use = t.block_in_use
      /\ v.board_hash_states = s.board_hash_states
      /\ v.positional_superko = s.positional_superko
      /\ v.last_position = p /\ v.ko_position = ko /\ v.zobrist_hash = hash
      /\ v.liberty_count = counts
  BY <1>2, <1>4, <1>7, MemberNames
<1>9. board \in [Points -> {EMPTY, BLACK, WHITE}]  BY <1>0, <1>3, AfterFacts
<1>10. IsGoState(v)
  BY <1>1, <1>4, <1>7, <1>9, MemberNames DEF IsGoState
<1>11. Linked(s, p, v, id)  BY <1>1, <1>8 DEF Linked
<1>12. Renewed(s, p, v)  BY <1>1, <1>8 DEF Renewed
<1>13. Accounted(v, Left(s, p) \cup {id})  BY <1>1, <1>8 DEF Accounted
<1>14. v.board_state = BoardAfter(s, p)  BY <1>3, <1>7
<1>15. Blocks(v, g) /\ Used(v) = Left(s, p) \cup {id}
  BY <1>10, <1>11, <1>12, <1>14, StoneKeepsBlocks
<1>16. Counts(v)
  <2>1. t.block_pool = v.block_pool /\ v.liberty_count = LibertyCounts(s, p, t)
    BY <1>8 DEF counts
  <2> QED  BY <1>1, <1>12, <1>14, <1>15, <2>1, StoneKeepsCounts
<1>17. Sound(v, g)
  <2>1. Cardinality(Used(v)) <= Rows * Columns  BY <1>15, UsedAre
  <2> QED  BY <1>10, <1>13, <1>15, <2>1 DEF Sound
<1>18. /\ Moved(s, EndMove(v), Turned(v), g) /\ Counts(EndMove(v))
       /\ EndMove(v).board_state = v.board_state
       /\ EndMove(v).ko_position = v.ko_position
       /\ EndMove(v).zobrist_hash = v.zobrist_hash
       /\ EndMove(v).last_position = v.last_position
  BY <1>8, <1>16, <1>17, Ending
<1> QED  BY <1>6, <1>8, <1>14, <1>18 DEF g, ko, hash

-----------------------------------------------------------------------------
(* Legal moves.                                                            *)

\* On a board of more than one point every point has a neighbour.
LEMMA HasNeighbour == \A p \in Points : Neighbours(p) # {}
<1> SUFFICES ASSUME NEW p \in Points  PROVE \E q \in Points : q \in Neighbours(p)
  OBVIOUS
<1> DEFINE N == Rows * Columns
<1>1. Rows \in Nat \ {0} /\ Columns \in Nat \ {0} /\ N > 1  BY BoardAssumption
<1>2. N \in Nat  BY <1>1
<1>3. p \in Nat /\ p < N  BY <1>2 DEF Points
<1>4. CASE Rows = 1
  <2>1. N = Columns  BY <1>1, <1>4
  <2>2. p \div Columns = 0  BY <1>1, <1>3, <2>1
  <2>3. CASE p = 0
    <3>1. (p + 1) \div Columns = 0 /\ p + 1 < N  BY <1>1, <2>1, <2>3
    <3>2. p + 1 \in Points  BY <1>2, <1>3, <3>1 DEF Points
    <3>3. p + 1 \in Neighbours(p)  BY <2>2, <3>1, <3>2 DEF Neighbours
    <3> QED  BY <3>2, <3>3
  <2>4. CASE p # 0
    <3>1. (p - 1) \div Columns = 0 /\ p - 1 >= 0  BY <1>1, <1>3, <2>1, <2>4
    <3>2. p - 1 \in Points  BY <1>2, <1>3, <3>1 DEF Points
    <3>3. p - 1 \in Neighbours(p)  BY <2>2, <3>1, <3>2 DEF Neighbours
    <3> QED  BY <3>2, <3>3
  <2> QED  BY <2>3, <2>4
<1>5. CASE Rows # 1
  <2>1. PICK k \in Nat : Rows = 2 + k
    <3>1. Rows - 2 \in Nat /\ Rows = 2 + (Rows - 2)  BY <1>1, <1>5
    <3> QED  BY <3>1
  <2>2. N = 2 * Columns + k * Columns  BY <1>1, <2>1
  <2>3. k * Columns \in Nat  BY <1>1
  <2>4. N >= 2 * Columns  BY <1>1, <2>2, <2>3
  <2> HIDE DEF N
  <2>5. CASE p - Columns >= 0
    <3>1. p - Columns \in Points  BY <1>1, <1>2, <1>3, <2>5 DEF Points, N
    <3>2. p - Columns \in Neighbours(p)  BY <3>1 DEF Neighbours
    <3> QED  BY <3>1, <3>2
  <2>6. CASE p - Columns < 0
    <3>1. p + Columns >= 0 /\ p + Columns < N  BY <1>1, <1>2, <1>3, <2>4, <2>6
    <3>2. p + Columns \in Points  BY <1>1, <1>2, <1>3, <3>1 DEF Points, N
    <3>3. p + Columns \in Neighbours(p)  BY <3>2 DEF Neighbours
    <3> QED  BY <3>2, <3>3
  <2> QED  BY <1>1, <1>3, <2>5, <2>6
<1> QED  BY <1>4, <1>5

\* A stone with an empty neighbour has a liberty.
LEMMA OpenIsAlive ==
    ASSUME NEW s, NEW h, Sound(s, h), NEW p \in Points, s.board_state[p] = EMPTY,
           NEW q \in Neighbours(p), s.board_state[q] = EMPTY
    PROVE  q \in Founded(s, p).liberty_state
<1>0. IsGoState(s) /\ Blocks(s, h) /\ s.current_player \in {BLACK, WHITE}
  BY DEF Sound, IsGoState
<1>1. q \in Points /\ q # p  BY NeighboursMutual
<1>2. q \notin Captured(s, p)  BY <1>0, AfterFacts, Players
<1>3. BoardAfter(s, p)[q] = EMPTY  BY <1>0, <1>1, <1>2, AfterFacts
<1>4. q \in Around(Formed(s, p))  BY DEF Around, Formed
<1> QED  BY <1>3, <1>4 DEF Founded

\* A stone is suicide if the block it founds has no liberty.
LEMMA FoundedAlive ==
    ASSUME NEW s, NEW h, Sound(s, h), NEW p \in Points, s.board_state[p] = EMPTY
    PROVE  /\ TryMove(s, p).liberty_state = Founded(s, p).liberty_state
           /\ Suicide(s.board_state, s.current_player, p) <=> Founded(s, p).liberty_state = {}
<1>0. IsGoState(s) /\ Blocks(s, h)  BY DEF Sound
<1>1. TryMove(s, p).liberty_state = Founded(s, p).liberty_state
  BY <1>0, TryMoveIs DEF Founded
<1> QED  BY <1>0, <1>1, SuicideIs

\* No legal move is suicide or takes back a ko, and those that are not legal are one of
\* these or have the hash of a past position.
LEMMA LegalMovesAre ==
    ASSUME NEW s, NEW h, Sound(s, h), NEW p \in Points
    PROVE  /\ p \in LegalMoves(s) =>
                 /\ s.board_state[p] = EMPTY /\ p # s.ko_position
                 /\ ~ Suicide(s.board_state, s.current_player, p)
           /\ s.board_state[p] = EMPTY /\ p \notin LegalMoves(s) =>
                 \/ p = s.ko_position
                 \/ Suicide(s.board_state, s.current_player, p)
                 \/ s.positional_superko /\ GetNewHashValue(s, p) \in s.board_hash_states
<1> DEFINE open == \E q \in Neighbours(p) : s.board_state[q] = EMPTY
           alive == TryMove(s, p).liberty_state # {}
           repeats == s.positional_superko /\ GetNewHashValue(s, p) \in s.board_hash_states
           suicide == Suicide(s.board_state, s.current_player, p)
<1>1. p \in LegalMoves(s) <=> /\ s.board_state[p] = EMPTY
                              /\ p # s.ko_position
                              /\ open \/ (alive /\ ~repeats)
  BY DEF LegalMoves
<1>2. s.board_state[p] = EMPTY => (suicide <=> ~alive)  BY FoundedAlive
<1>3. s.board_state[p] = EMPTY /\ open => alive  BY FoundedAlive, OpenIsAlive
<1> HIDE DEF open, alive, suicide
<1>4. /\ p \in LegalMoves(s) => s.board_state[p] = EMPTY /\ p # s.ko_position /\ ~suicide
      /\ s.board_state[p] = EMPTY /\ p \notin LegalMoves(s) =>
            p = s.ko_position \/ suicide \/ repeats
  BY <1>1, <1>2, <1>3
<1> QED  BY <1>4 DEF suicide

\* A new game is sound, and every move is legal in it.
LEMMA NewGameIsSound ==
    ASSUME NEW superko \in BOOLEAN
    PROVE  LET s == NewGame(superko)
           IN  /\ Sound(s, [q \in Points |-> 0]) /\ Counts(s)
               /\ \A p \in s.legal_move_map : /\ s.board_state[p] = EMPTY
                                              /\ p # s.ko_position
                                              /\ ~ Suicide(s.board_state, s.current_player, p)
<1> DEFINE s == NewGame(superko)
           h == [q \in Points |-> 0]
<1>1. IsGoState(s)  BY NewGameIsGoState
<1>2. /\ \A q \in Points : s.board_state[q] = EMPTY /\ s.liberty_count[q] = 0
      /\ s.block_pool = [i \in BlockIds |-> NoBlock]
      /\ s.block_in_use = 0 /\ s.recycled_blocks = <<>>
      /\ s.ko_position = UNSET /\ s.legal_move_map = Points
  BY DEF NewGame
<1> HIDE DEF s
<1>3. Used(s) = {}  BY <1>2, NoBlockIsBlock DEF Used
<1>4. Blocks(s, h) /\ Counts(s)
  <2>1. s.block_pool \in [BlockIds -> GoBlocks]  BY <1>2, NoBlockIsBlock
  <2>2. h \in [Points -> Nat]  OBVIOUS
  <2> QED  BY <1>2, <1>3, <2>1, <2>2 DEF Blocks, Counts
<1>5. Accounted(s, Used(s)) /\ Cardinality(Used(s)) <= Rows * Columns
  <2>1. Rows * Columns \in Nat  BY FinitelyManyPoints
  <2>2. ToSet(s.recycled_blocks) = {} /\ Len(s.recycled_blocks) = 0
    BY <1>2 DEF ToSet
  <2>3. Cardinality({}) = 0  BY FS_EmptySet
  <2>4. 0 .. s.block_in_use - 1 = {}  BY <1>2
  <2>5. s.block_in_use <= Rows * Columns + 1 /\ 0 <= Rows * Columns
    <3> DEFINE N == Rows * Columns
    <3>1. N \in Nat  BY <2>1
    <3> HIDE DEF N
    <3>2. 0 <= N + 1 /\ 0 <= N  BY <3>1
    <3> QED  BY <1>2, <3>2 DEF N
  <2>6. Cardinality(Used(s)) <= Rows * Columns  BY <1>3, <2>3, <2>5
  <2>7. Accounted(s, {})  BY <2>2, <2>3, <2>4, <2>5 DEF Accounted
  <2> QED  BY <1>3, <2>6, <2>7
<1>6. Sound(s, h)  BY <1>1, <1>4, <1>5 DEF Sound
<1>7. ASSUME NEW p \in Points
      PROVE  /\ s.board_state[p] = EMPTY /\ p # s.ko_position
             /\ ~ Suicide(s.board_state, s.current_player, p)
  <2>1. PICK q \in Neighbours(p) : TRUE  BY HasNeighbour
  <2>2. q \in Points  BY <2>1, NeighboursMutual
  <2>3. Founded(s, p).liberty_state # {}  BY <1>2, <1>6, <2>1, <2>2, OpenIsAlive
  <2>4. p # UNSET  BY FinitelyManyPoints DEF Points, UNSET
  <2> HIDE DEF h
  <2> QED  BY <1>2, <1>6, <2>3, <2>4, FoundedAlive
<1> QED  BY <1>2, <1>4, <1>6, <1>7 DEF s

-----------------------------------------------------------------------------
(* Ko.                                                                     *)

\* A set with one element.
LEMMA OneElement ==
    ASSUME NEW S \in SUBSET Points, Cardinality(S) = 1, NEW x \in S
    PROVE  S = {x}
<1>1. IsFiniteSet(S)  BY CountPoints
<1>2. IsFiniteSet({x}) /\ Cardinality({x}) = 1  BY FS_Singleton
<1> QED  BY <1>1, <1>2, FS_Subset

\* The stones of a block with one of them.
LEMMA OneStone ==
    ASSUME NEW s, NEW h, Blocks(s, h), NEW i \in Used(s)
    PROVE  /\ \A x : s.block_pool[i].stone_state = {x} =>
                        Head(s.block_pool[i].stones) = x /\ Size(s.block_pool[i]) = 1
           /\ Size(s.block_pool[i]) = 1 =>
                 s.block_pool[i].stone_state = {Head(s.block_pool[i].stones)}
<1> DEFINE b == s.block_pool[i]
<1>1. /\ b.stones \in Seq(Points) /\ b.stones # <<>> /\ ToSet(b.stones) = b.stone_state
      /\ b.stone_state \in SUBSET Points
  BY BlockTypes DEF Blocks, GoodBlock, Used
<1> HIDE DEF b
<1>2. Head(b.stones) \in b.stone_state
  <2>1. 1 \in 1 .. Len(b.stones) /\ Head(b.stones) = b.stones[1]  BY <1>1
  <2> QED  BY <1>1, <2>1 DEF ToSet
<1>3. \A x : b.stone_state = {x} => Head(b.stones) = x /\ Size(b) = 1
  BY <1>2, FS_Singleton DEF Size
<1>4. Size(b) = 1 => b.stone_state = {Head(b.stones)}
  BY <1>1, <1>2, OneElement DEF Size
<1> QED  BY <1>3, <1>4 DEF b

\* What a block of s is, by its members.
LEMMA BlockFacts ==
    ASSUME NEW s, NEW h, Blocks(s, h), NEW i \in Used(s)
    PROVE  LET b == s.block_pool[i]
           IN  /\ b.color \in {BLACK, WHITE}
               /\ b.stone_state \in SUBSET Points /\ b.stone_state # {}
               /\ \A q \in b.stone_state : /\ s.board_state[q] = b.color
                                           /\ Chain(s.board_state, q) = b.stone_state
               /\ b.liberty_state = {r \in Around(b.stone_state) : s.board_state[r] = EMPTY}
               /\ b.liberty_state # {}
<1> DEFINE b == s.block_pool[i]
<1>1. /\ b.color \in {BLACK, WHITE}
      /\ IsChain(s.board_state, b.color, b.stone_state)
      /\ b.liberty_state = {r \in Around(b.stone_state) : s.board_state[r] = EMPTY}
      /\ b.liberty_state # {}
  BY DEF Blocks, GoodBlock
<1> HIDE DEF b
<1>2. \A q \in b.stone_state : Chain(s.board_state, q) = b.stone_state  BY <1>1, ChainIs
<1> QED  BY <1>1, <1>2 DEF IsChain, b

\* The stone of p captured one stone x and is alone with x as its only liberty.
Retakable(s, p, x) ==
    /\ Captured(s, p) = {x} /\ Formed(s, p) = {p}
    /\ Founded(s, p).liberty_state = {x}

\* KoPosition() is the point of which that is true.
LEMMA KoPositionIs ==
    ASSUME NEW s, NEW h, Sound(s, h), NEW p \in Points, s.board_state[p] = EMPTY,
           NEW x \in Points
    PROVE  x = KoPosition(s, p) <=> Retakable(s, p, x)
<1> DEFINE new == TryMove(s, p)
           ko == {i \in Dying(s, p) : /\ Size(s.block_pool[i]) = 1
                                      /\ Size(new) = 1 /\ Liberties(new) = 1}
           of(i) == Head(s.block_pool[i].stones)
<1>0. IsGoState(s) /\ Blocks(s, h)  BY DEF Sound
<1>1. KoPosition(s, p) = IF ko = {} THEN UNSET ELSE of(CHOOSE i \in ko : TRUE)
  BY DEF KoPosition
<1>2. new.stone_state = Formed(s, p) /\ new.liberty_state = Founded(s, p).liberty_state
  BY <1>0, TryMoveIs DEF Founded
<1>3. /\ Captured(s, p) \subseteq Points /\ Formed(s, p) \subseteq Points
      /\ p \in Formed(s, p)
      /\ \A q \in Captured(s, p) : q # p /\ BoardAfter(s, p)[q] = EMPTY
  <2>1. \A q \in Captured(s, p) : q # p /\ q \in Points  BY <1>0, AfterFacts
  <2> QED  BY <1>0, <2>1, AfterFacts DEF Formed
<1>4. Founded(s, p).liberty_state = {r \in Around(Formed(s, p)) : BoardAfter(s, p)[r] = EMPTY}
  BY DEF Founded
<1>5. Founded(s, p).liberty_state \in SUBSET Points  BY <1>3, <1>4, AroundFacts
<1> HIDE DEF new
<1>6. \A i \in Dying(s, p) : /\ i \in Used(s) /\ s.block_pool[i].liberty_state = {p}
                             /\ s.block_pool[i].stone_state \subseteq Captured(s, p)
  BY <1>0, JoinedDying DEF Captured
<1>7. \A i \in Dying(s, p) : \E q \in s.block_pool[i].stone_state :
          q \in Neighbours(p) /\ p \in Neighbours(q) /\ q \in Founded(s, p).liberty_state
  <2> TAKE i \in Dying(s, p)
  <2>1. i \in Used(s) /\ s.block_pool[i].liberty_state = {p}  BY <1>6
  <2>2. s.block_pool[i].stone_state \in SUBSET Points
        /\ p \in Around(s.block_pool[i].stone_state)
    BY <1>0, <2>1, BlockFacts
  <2>3. PICK q \in s.block_pool[i].stone_state : p \in Neighbours(q) /\ q \in Neighbours(p)
    BY <2>2, AroundFacts
  <2>4. q \in Captured(s, p)  BY <1>6
  <2>5. q \in Around(Formed(s, p))  BY <1>3, <2>3 DEF Around
  <2> QED  BY <1>3, <1>4, <2>3, <2>4, <2>5
<1>8. ASSUME x = KoPosition(s, p)  PROVE Retakable(s, p, x)
  <2>1. ko # {}
    <3>1. x # UNSET  BY FinitelyManyPoints DEF Points, UNSET
    <3> QED  BY <1>1, <1>8, <3>1
  <2>2. PICK i \in ko : x = of(i)  BY <1>1, <1>8, <2>1
  <2>3. i \in Used(s) /\ i \in Dying(s, p)  BY <1>6, <2>2
  <2>4. s.block_pool[i].stone_state = {x}  BY <1>0, <2>2, <2>3, OneStone
  <2>5. Formed(s, p) = {p}  BY <1>2, <1>3, <2>2, OneElement DEF Size
  <2>6. x \in Founded(s, p).liberty_state  BY <1>7, <2>3, <2>4
  <2>7. Founded(s, p).liberty_state = {x}
    BY <1>2, <1>5, <2>2, <2>6, OneElement DEF Liberties
  <2>8. \A j \in Dying(s, p) : j = i
    <3> TAKE j \in Dying(s, p)
    <3>1. PICK q \in s.block_pool[j].stone_state : q \in Founded(s, p).liberty_state
      BY <1>7
    <3>2. x \in s.block_pool[j].stone_state /\ j \in Used(s)  BY <1>6, <2>7, <3>1
    <3> QED  BY <1>0, <2>3, <2>4, <3>2 DEF Blocks
  <2>9. Captured(s, p) = {x}  BY <2>3, <2>4, <2>8 DEF Captured
  <2> QED  BY <2>5, <2>7, <2>9 DEF Retakable
<1>9. ASSUME Retakable(s, p, x)  PROVE x = KoPosition(s, p)
  <2>1. /\ Captured(s, p) = {x} /\ Formed(s, p) = {p}
        /\ Founded(s, p).liberty_state = {x}
    BY <1>9 DEF Retakable
  <2>2. ASSUME NEW i \in Dying(s, p)  PROVE Size(s.block_pool[i]) = 1 /\ of(i) = x
    <3>1. i \in Used(s) /\ s.block_pool[i].stone_state \subseteq {x}  BY <1>6, <2>1
    <3>2. s.block_pool[i].stone_state # {}  BY <1>0, <3>1, BlockFacts
    <3>3. s.block_pool[i].stone_state = {x}  BY <3>1, <3>2
    <3> QED  BY <1>0, <3>1, <3>3, OneStone
  <2>3. Size(new) = 1 /\ Liberties(new) = 1
    BY <1>2, <2>1, FS_Singleton DEF Size, Liberties
  <2>4. Dying(s, p) # {}  BY <2>1 DEF Captured
  <2>5. ko # {}  BY <2>2, <2>3, <2>4
  <2> QED  BY <1>1, <2>2, <2>5
<1> QED  BY <1>8, <1>9

\* The colour of every point after the stone, and where it is another.
LEMMA StoneChanges ==
    ASSUME NEW s, NEW h, Sound(s, h), NEW p \in Points, s.board_state[p] = EMPTY,
           NEW q \in Points
    PROVE  /\ BoardAfter(s, p)[q] # s.board_state[q] <=> q = p \/ q \in Captured(s, p)
           /\ q = p => BoardAfter(s, p)[q] = s.current_player
           /\ q \in Captured(s, p) => /\ BoardAfter(s, p)[q] = EMPTY
                                      /\ s.board_state[q] = Opponent(s.current_player)
<1>0. IsGoState(s) /\ Blocks(s, h) /\ s.current_player \in {BLACK, WHITE}
  BY DEF Sound, IsGoState
<1>1. /\ BoardAfter(s, p)[q] = IF q = p THEN s.current_player
                               ELSE IF q \in Captured(s, p) THEN EMPTY ELSE s.board_state[q]
      /\ p \notin Captured(s, p)
      /\ q \in Captured(s, p) => s.board_state[q] = Opponent(s.current_player)
  BY <1>0, AfterFacts
<1>2. s.current_player # EMPTY /\ Opponent(s.current_player) # EMPTY  BY <1>0, Players
<1> QED  BY <1>1, <1>2

\* If the stone is alone with one liberty x, a stone of the opponent on x captures it and
\* no other: what else has no liberty but x had none before.
LEMMA RetakesOne ==
    ASSUME NEW s, NEW h, Sound(s, h), NEW p \in Points, s.board_state[p] = EMPTY,
           NEW x \in Points, Retakable(s, p, x),
           NEW e, NEW g, Sound(e, g), e.board_state = BoardAfter(s, p),
           e.current_player = Opponent(s.current_player), e.board_state[x] = EMPTY
    PROVE  Captured(e, x) = {p}
<1>0. /\ IsGoState(s) /\ Blocks(s, h) /\ s.current_player \in {BLACK, WHITE}
      /\ IsGoState(e) /\ Blocks(e, g)
  BY DEF Sound, IsGoState
<1>1. /\ Captured(s, p) = {x} /\ Formed(s, p) = {p}
      /\ {r \in Around({p}) : e.board_state[r] = EMPTY} = {x}
  BY DEF Retakable, Founded
<1>2. /\ Opponent(e.current_player) = s.current_player
      /\ s.current_player # EMPTY /\ s.current_player # Opponent(s.current_player)
  BY <1>0, Players
<1>3. /\ e.board_state[p] = s.current_player
      /\ x # p /\ s.board_state[x] = Opponent(s.current_player)
      /\ \A q \in Points : q # p /\ q # x => e.board_state[q] = s.board_state[q]
  BY <1>1, StoneChanges
<1>4. Dying(e, x) = {k \in Used(e) : /\ e.block_pool[k].liberty_state = {x}
                                     /\ e.block_pool[k].color = s.current_player}
  BY <1>0, <1>2, JoinedDying
<1>5. Chain(e.board_state, p) = {p}
  <2>1. IsChain(e.board_state, s.current_player, {p})  BY <1>0, <1>1, FormedIsChain
  <2> QED  BY <2>1, ChainIs
<1>6. \E k \in Dying(e, x) : e.block_pool[k].stone_state = {p}
  <2>1. PICK k \in Used(e) : p \in e.block_pool[k].stone_state
    BY <1>0, <1>2, <1>3 DEF Blocks
  <2> DEFINE b == e.block_pool[k]
  <2>2. /\ \A q \in b.stone_state : /\ e.board_state[q] = b.color
                                   /\ Chain(e.board_state, q) = b.stone_state
        /\ b.liberty_state = {r \in Around(b.stone_state) : e.board_state[r] = EMPTY}
    BY <1>0, <2>1, BlockFacts
  <2> HIDE DEF b
  <2>3. b.stone_state = {p} /\ b.color = s.current_player
    BY <1>3, <1>5, <2>1, <2>2 DEF b
  <2>4. b.liberty_state = {x}  BY <1>1, <2>2, <2>3
  <2> QED  BY <1>4, <2>1, <2>3, <2>4 DEF b
<1>7. ASSUME NEW k \in Dying(e, x), NEW q \in e.block_pool[k].stone_state
      PROVE  q = p
  <2> SUFFICES ASSUME q # p  PROVE FALSE
    OBVIOUS
  <2> DEFINE K == e.block_pool[k].stone_state
  <2>1. k \in Used(e) /\ e.block_pool[k].color = s.current_player
        /\ e.block_pool[k].liberty_state = {x}
    BY <1>4
  <2>2. /\ K \in SUBSET Points /\ Chain(e.board_state, q) = K
        /\ e.board_state[q] = s.current_player
        /\ {x} = {r \in Around(K) : e.board_state[r] = EMPTY}
    BY <1>0, <2>1, BlockFacts
  <2>3. q # x /\ q \in Points /\ s.board_state[q] = s.current_player
    BY <1>2, <1>3, <2>2
  <2>4. PICK i \in Used(s) : q \in s.block_pool[i].stone_state
    BY <1>0, <1>2, <2>3 DEF Blocks
  <2>5. s.block_pool[i].color = s.current_player
    BY <1>0, <2>3, <2>4, BlockFacts
  <2>6. i \notin Joined(s, p)
    <3>1. i \in Joined(s, p) => q \in Formed(s, p)  BY <2>4 DEF Formed
    <3> QED  BY <1>1, <3>1
  <2>7. i \notin Dying(s, p)  BY <1>0, <1>2, <2>5, JoinedDying
  <2> DEFINE S == s.block_pool[i].stone_state
  <2>8. /\ IsChain(e.board_state, s.block_pool[i].color, S)
        /\ {r \in Around(S) : e.board_state[r] = EMPTY}
              = s.block_pool[i].liberty_state \cup (Captured(s, p) \cap Around(S))
    BY <1>0, <2>5, <2>6, <2>7, OthersAfter
  <2>9. S = K  BY <2>2, <2>4, <2>8, ChainIs
  <2>10. s.block_pool[i].liberty_state \subseteq {x}  BY <2>2, <2>8, <2>9
  <2>11. s.block_pool[i].liberty_state # {}
         /\ \A r \in s.block_pool[i].liberty_state : s.board_state[r] = EMPTY
    BY <1>0, BlockFacts
  <2>12. s.board_state[x] = EMPTY  BY <2>10, <2>11
  <2> QED  BY <1>0, <1>3, <2>12, Players
<1>8. ASSUME NEW k \in Dying(e, x)  PROVE e.block_pool[k].stone_state \subseteq {p}
  BY <1>7
<1> QED  BY <1>6, <1>8 DEF Captured

\* After a stone the ko position is the only point where the opponent's stone would bring
\* back the board.
LEMMA KoIsRecapture ==
    ASSUME NEW s, NEW h, Sound(s, h), NEW p \in Points, s.board_state[p] = EMPTY,
           NEW e, NEW g, Sound(e, g), e.board_state = BoardAfter(s, p),
           e.current_player = Opponent(s.current_player),
           NEW x \in Points, e.board_state[x] = EMPTY
    PROVE  Played(e.board_state, e.current_player, x) = s.board_state
              <=> x = KoPosition(s, p)
<1>0. /\ IsGoState(s) /\ Blocks(s, h) /\ s.current_player \in {BLACK, WHITE}
      /\ IsGoState(e) /\ Blocks(e, g)
  BY DEF Sound, IsGoState
<1>1. Played(e.board_state, e.current_player, x) = BoardAfter(e, x)
  BY <1>0, PlayedIs
<1>2. /\ Opponent(e.current_player) = s.current_player
      /\ s.current_player # EMPTY /\ s.current_player # e.current_player
      /\ e.current_player # EMPTY
  BY <1>0, Players
<1>3. x = KoPosition(s, p) <=> Retakable(s, p, x)  BY KoPositionIs
<1>4. \A q \in Points :
          /\ e.board_state[q] # s.board_state[q] <=> q = p \/ q \in Captured(s, p)
          /\ q = p => e.board_state[q] = s.current_player
          /\ q \in Captured(s, p) => /\ e.board_state[q] = EMPTY
                                     /\ s.board_state[q] = e.current_player
  BY StoneChanges
<1>5. \A q \in Points :
          /\ BoardAfter(e, x)[q] # e.board_state[q] <=> q = x \/ q \in Captured(e, x)
          /\ q = x => BoardAfter(e, x)[q] = e.current_player
          /\ q \in Captured(e, x) => /\ BoardAfter(e, x)[q] = EMPTY
                                     /\ e.board_state[q] = s.current_player
  BY <1>2, StoneChanges
<1>6. Captured(s, p) \subseteq Points /\ Captured(e, x) \subseteq Points
  BY <1>0, AfterFacts
<1>7. ASSUME BoardAfter(e, x) = s.board_state  PROVE Retakable(s, p, x)
  <2>1. Captured(s, p) = {x}
    <3>1. \A q \in Captured(s, p) : q = x  BY <1>2, <1>4, <1>5, <1>6, <1>7
    <3>2. x \in Captured(s, p)
      <4>1. s.board_state[x] = e.current_player  BY <1>5, <1>7
      <4>2. x # p  BY <1>2, <1>4
      <4> QED  BY <1>2, <1>4, <4>1, <4>2
    <3> QED  BY <3>1, <3>2
  <2>2. Captured(e, x) = {p}
    <3>1. \A q \in Captured(e, x) : q = p  BY <1>2, <1>4, <1>5, <1>6, <1>7
    <3>2. p \in Captured(e, x)
      <4>1. e.board_state[p] # s.board_state[p] /\ p # x  BY <1>2, <1>4
      <4> QED  BY <1>5, <1>7, <4>1
    <3> QED  BY <3>1, <3>2
  <2>3. PICK k \in Dying(e, x) : e.block_pool[k].stone_state = {p}
    <3>1. PICK k \in Dying(e, x) : p \in e.block_pool[k].stone_state
      BY <2>2 DEF Captured
    <3>2. e.block_pool[k].stone_state \subseteq {p}  BY <2>2 DEF Captured
    <3> QED  BY <3>1, <3>2
  <2>4. k \in Used(e) /\ e.block_pool[k].liberty_state = {x}
    BY <1>0, <2>3, JoinedDying
  <2>5. /\ Chain(e.board_state, p) = {p}
        /\ {x} = {r \in Around({p}) : e.board_state[r] = EMPTY}
    <3> DEFINE b == e.block_pool[k]
    <3>1. /\ \A q \in b.stone_state : Chain(e.board_state, q) = b.stone_state
          /\ b.liberty_state = {r \in Around(b.stone_state) : e.board_state[r] = EMPTY}
      BY <1>0, <2>4, BlockFacts
    <3>2. b.stone_state = {p} /\ b.liberty_state = {x}  BY <2>3, <2>4
    <3> HIDE DEF b
    <3> QED  BY <3>1, <3>2
  <2>6. Formed(s, p) = {p}
    <3>1. IsChain(e.board_state, s.current_player, Formed(s, p))
      BY <1>0, FormedIsChain
    <3>2. p \in Formed(s, p)  BY DEF Formed
    <3> QED  BY <2>5, <3>1, <3>2, ChainIs
  <2>7. Founded(s, p).liberty_state = {x}  BY <2>5, <2>6 DEF Founded
  <2> QED  BY <2>1, <2>6, <2>7 DEF Retakable
<1>8. ASSUME Retakable(s, p, x)  PROVE BoardAfter(e, x) = s.board_state
  <2>1. Captured(e, x) = {p}  BY <1>8, RetakesOne
  <2>2. Captured(s, p) = {x}  BY <1>8 DEF Retakable
  <2>3. \A q \in Points : BoardAfter(e, x)[q] = s.board_state[q]
    <3> TAKE q \in Points
    <3>1. CASE q = x  BY <1>4, <1>5, <2>2, <3>1
    <3>2. CASE q = p  BY <1>5, <2>1, <3>2
    <3>3. CASE q # x /\ q # p  BY <1>4, <1>5, <2>1, <2>2, <3>3
    <3> QED  BY <3>1, <3>2, <3>3
  <2>4. s.board_state = [q \in Points |-> s.board_state[q]]  BY <1>0 DEF IsGoState
  <2>5. BoardAfter(e, x) = [q \in Points |-> BoardAfter(e, x)[q]]  BY DEF BoardAfter
  <2> QED  BY <2>3, <2>4, <2>5
<1> QED  BY <1>1, <1>3, <1>7, <1>8

-----------------------------------------------------------------------------
(* The hash.                                                               *)

StoneWeights(board) == {<<board[q], q>> : q \in Stones(board)}

\* The hash of a position.
PosHash(pos) ==
    StoneWeights(pos.board) \cup (IF pos.player = WHITE THEN PlayerWeights ELSE {})

\* Which weights are of stones, and which of players.
LEMMA WeightsAre ==
    /\ \A board : \A c : \A q \in Points :
          <<c, q>> \in StoneWeights(board) <=> c = board[q] /\ c # EMPTY
    /\ \A board : \A w \in StoneWeights(board) :
          \E q \in Points : w = <<board[q], q>> /\ board[q] # EMPTY
    /\ \A board : \A w \in PlayerWeights : w \notin StoneWeights(board)
    /\ \A c, q : q \in Points => <<c, q>> \notin PlayerWeights
    /\ PlayerWeights # {}
<1>1. \A q \in Points : q # UNSET  BY FinitelyManyPoints DEF Points, UNSET
<1>2. \A w \in PlayerWeights : \E c : w = <<c, UNSET>>  BY DEF PlayerWeights
<1>3. \A board : \A w \in StoneWeights(board) :
          \E q \in Points : w = <<board[q], q>> /\ board[q] # EMPTY
  BY DEF StoneWeights, Stones
<1>4. \A board : \A c : \A q \in Points :
          <<c, q>> \in StoneWeights(board) <=> c = board[q] /\ c # EMPTY
  BY DEF StoneWeights, Stones
<1>5. \A board : \A w \in PlayerWeights : w \notin StoneWeights(board)
  BY <1>1, <1>2, <1>3
<1>6. \A c, q : q \in Points => <<c, q>> \notin PlayerWeights
  BY <1>1, <1>2
<1>7. PlayerWeights # {}  BY DEF PlayerWeights
<1> QED  BY <1>3, <1>4, <1>5, <1>6, <1>7

\* Two positions with one hash are the same.
LEMMA PosHashInjective ==
    ASSUME NEW a \in Positions, NEW b \in Positions, PosHash(a) = PosHash(b)
    PROVE  a = b
<1>0. /\ a.board \in [Points -> {EMPTY, BLACK, WHITE}] /\ a.player \in {BLACK, WHITE}
      /\ b.board \in [Points -> {EMPTY, BLACK, WHITE}] /\ b.player \in {BLACK, WHITE}
      /\ a = [board |-> a.board, player |-> a.player]
      /\ b = [board |-> b.board, player |-> b.player]
  BY DEF Positions
<1>1. ASSUME NEW q \in Points  PROVE a.board[q] = b.board[q]
  <2>1. \A c : <<c, q>> \in StoneWeights(a.board) <=> <<c, q>> \in StoneWeights(b.board)
    BY WeightsAre DEF PosHash
  <2>2. \A c : (c = a.board[q] /\ c # EMPTY) <=> (c = b.board[q] /\ c # EMPTY)
    <3> TAKE c
    <3>1. <<c, q>> \in StoneWeights(a.board) <=> c = a.board[q] /\ c # EMPTY
      BY WeightsAre
    <3>2. <<c, q>> \in StoneWeights(b.board) <=> c = b.board[q] /\ c # EMPTY
      BY WeightsAre
    <3> QED  BY <2>1, <3>1, <3>2
  <2> QED  BY <2>2
<1>2. a.board = b.board
  <2>1. a.board = [q \in Points |-> a.board[q]]  BY <1>0
  <2>2. b.board = [q \in Points |-> b.board[q]]  BY <1>0
  <2> QED  BY <1>1, <2>1, <2>2
<1>3. a.player = b.player
  <2>1. PICK w \in PlayerWeights : TRUE  BY WeightsAre
  <2>2. w \in PosHash(a) <=> a.player = WHITE  BY <2>1, WeightsAre DEF PosHash
  <2>3. w \in PosHash(b) <=> b.player = WHITE  BY <2>1, WeightsAre DEF PosHash
  <2> QED  BY <1>0, <2>2, <2>3
<1> QED  BY <1>0, <1>2, <1>3

\* The weights of the players change with every move.
LEMMA PlayerWeightsChange ==
    ASSUME NEW c \in {BLACK, WHITE}, NEW V, NEW W,
           V \cap PlayerWeights = {}, W \cap PlayerWeights = {}
    PROVE  Xor(V \cup (IF c = WHITE THEN PlayerWeights ELSE {}), PlayerWeights \cup W)
              = Xor(V, W) \cup (IF Opponent(c) = WHITE THEN PlayerWeights ELSE {})
<1>1. c = WHITE <=> Opponent(c) # WHITE  BY DEF Opponent, BLACK, WHITE
<1>2. CASE c = WHITE
  <2>1. Xor(V \cup PlayerWeights, PlayerWeights \cup W) = Xor(V, W)  BY DEF Xor
  <2> QED  BY <1>1, <1>2, <2>1
<1>3. CASE c # WHITE
  <2>1. Xor(V, PlayerWeights \cup W) = Xor(V, W) \cup PlayerWeights  BY DEF Xor
  <2>2. /\ (IF c = WHITE THEN PlayerWeights ELSE {}) = {}
        /\ (IF Opponent(c) = WHITE THEN PlayerWeights ELSE {}) = PlayerWeights
    BY <1>1, <1>3
  <2>3. V \cup {} = V  OBVIOUS
  <2> QED  BY <2>1, <2>2, <2>3
<1> QED  BY <1>2, <1>3

\* So do those of the stones that a move puts on the board and takes off it.
LEMMA StoneWeightsChange ==
    ASSUME NEW s, NEW h, Sound(s, h), NEW p \in Points, s.board_state[p] = EMPTY
    PROVE  Xor(StoneWeights(s.board_state),
               {<<s.current_player, p>>}
                  \cup {<<Opponent(s.current_player), c>> : c \in Captured(s, p)})
              = StoneWeights(BoardAfter(s, p))
<1> DEFINE V == StoneWeights(s.board_state)
           W == {<<s.current_player, p>>}
                  \cup {<<Opponent(s.current_player), c>> : c \in Captured(s, p)}
           A == StoneWeights(BoardAfter(s, p))
<1>0. /\ IsGoState(s) /\ Blocks(s, h) /\ s.current_player \in {BLACK, WHITE}
      /\ Captured(s, p) \subseteq Points /\ p \notin Captured(s, p)
      /\ s.current_player # EMPTY /\ Opponent(s.current_player) # EMPTY
  BY AfterFacts, Players DEF Sound, IsGoState
<1>1. ASSUME NEW d, NEW q \in Points
      PROVE  /\ <<d, q>> \in V <=> d = s.board_state[q] /\ d # EMPTY
             /\ <<d, q>> \in A <=> d = BoardAfter(s, p)[q] /\ d # EMPTY
  <2>1. <<d, q>> \in V <=> d = s.board_state[q] /\ d # EMPTY  BY WeightsAre
  <2>2. <<d, q>> \in A <=> d = BoardAfter(s, p)[q] /\ d # EMPTY  BY WeightsAre
  <2> QED  BY <2>1, <2>2
<1>2. \A c : \A q \in Points :
          <<c, q>> \in W <=> \/ c = s.current_player /\ q = p
                             \/ c = Opponent(s.current_player) /\ q \in Captured(s, p)
  OBVIOUS
<1>3. \A w \in (V \cup W) \cup A : \E c : \E q \in Points : w = <<c, q>>
  <2>1. \A w \in V \cup A : \E c : \E q \in Points : w = <<c, q>>  BY WeightsAre
  <2>2. \A w \in W : \E c : \E q \in Points : w = <<c, q>>  BY <1>0
  <2> QED  BY <2>1, <2>2
<1>4. \A q \in Points :
          /\ BoardAfter(s, p)[q] # s.board_state[q] <=> q = p \/ q \in Captured(s, p)
          /\ q = p => BoardAfter(s, p)[q] = s.current_player
          /\ q \in Captured(s, p) => /\ BoardAfter(s, p)[q] = EMPTY
                                     /\ s.board_state[q] = Opponent(s.current_player)
  BY StoneChanges
<1> HIDE DEF V, W, A
<1>5. ASSUME NEW c, NEW q \in Points
      PROVE  <<c, q>> \in Xor(V, W) <=> <<c, q>> \in A
  <2>0. <<c, q>> \in Xor(V, W) <=> ~(<<c, q>> \in V <=> <<c, q>> \in W)  BY DEF Xor
  <2>1. CASE q = p  BY <1>0, <1>1, <1>2, <1>4, <2>0, <2>1
  <2>2. CASE q \in Captured(s, p)  BY <1>0, <1>1, <1>2, <1>4, <2>0, <2>2
  <2>3. CASE q # p /\ q \notin Captured(s, p)  BY <1>1, <1>2, <1>4, <2>0, <2>3
  <2> QED  BY <2>1, <2>2, <2>3
<1>6. \A w \in Xor(V, W) : w \in (V \cup W) \cup A  BY DEF Xor
<1>7. \A w \in (V \cup W) \cup A : w \in Xor(V, W) <=> w \in A
  <2> TAKE w \in (V \cup W) \cup A
  <2>1. PICK c : \E q \in Points : w = <<c, q>>  BY <1>3
  <2>2. PICK q \in Points : w = <<c, q>>  BY <2>1
  <2>3. <<c, q>> \in Xor(V, W) <=> <<c, q>> \in A  BY <1>5
  <2> QED  BY <2>2, <2>3
<1>8. Xor(V, W) = A
  <2>1. \A w \in A : w \in Xor(V, W)  BY <1>7
  <2>2. \A w \in Xor(V, W) : w \in A  BY <1>6, <1>7
  <2> QED  BY <2>1, <2>2
<1> QED  BY <1>8 DEF V, W, A

\* GetNewHashValue() makes the hash of the next position from that of the last.
LEMMA NewHashIs ==
    ASSUME NEW s, NEW h, Sound(s, h), s.zobrist_hash = PosHash(Position(s))
    PROVE  /\ GetNewHashValue(s, PASS) =
                 PosHash([board |-> s.board_state, player |-> Opponent(s.current_player)])
           /\ \A p \in Points : s.board_state[p] = EMPTY =>
                 GetNewHashValue(s, p) =
                    PosHash([board |-> BoardAfter(s, p), player |-> Opponent(s.current_player)])
<1> DEFINE c == s.current_player
           V == StoneWeights(s.board_state)
<1>0. c \in {BLACK, WHITE}  BY DEF Sound, IsGoState
<1>1. s.zobrist_hash = V \cup (IF c = WHITE THEN PlayerWeights ELSE {})
  BY DEF PosHash, Position
<1>2. V \cap PlayerWeights = {}  BY WeightsAre
<1>3. \A board : PosHash([board |-> board, player |-> Opponent(c)]) =
          StoneWeights(board) \cup (IF Opponent(c) = WHITE THEN PlayerWeights ELSE {})
  BY DEF PosHash
<1>4. GetNewHashValue(s, PASS) = V \cup (IF Opponent(c) = WHITE THEN PlayerWeights ELSE {})
  <2> HIDE DEF V, c
  <2>1. Xor(V \cup (IF c = WHITE THEN PlayerWeights ELSE {}), PlayerWeights \cup {})
           = Xor(V, {}) \cup (IF Opponent(c) = WHITE THEN PlayerWeights ELSE {})
    BY <1>0, <1>2, PlayerWeightsChange
  <2>2. Xor(V, {}) = V /\ PlayerWeights \cup {} = PlayerWeights  BY DEF Xor
  <2> QED  BY <1>1, <2>1, <2>2 DEF GetNewHashValue
<1>5. ASSUME NEW p \in Points, s.board_state[p] = EMPTY
      PROVE  GetNewHashValue(s, p) = StoneWeights(BoardAfter(s, p))
                \cup (IF Opponent(c) = WHITE THEN PlayerWeights ELSE {})
  <2> DEFINE W == {<<s.current_player, p>>}
                    \cup {<<Opponent(s.current_player), q>> : q \in Captured(s, p)}
  <2>1. p # PASS  BY FinitelyManyPoints DEF Points, PASS
  <2>2. GetNewHashValue(s, p) = Xor(s.zobrist_hash, PlayerWeights \cup W)
    <3>1. PlayerWeights \cup W = (PlayerWeights \cup {<<s.current_player, p>>})
             \cup {<<Opponent(s.current_player), q>> : q \in Captured(s, p)}
      OBVIOUS
    <3>2. GetNewHashValue(s, p) = Xor(s.zobrist_hash,
             (PlayerWeights \cup {<<s.current_player, p>>})
                \cup {<<Opponent(s.current_player), q>> : q \in Captured(s, p)})
      BY <2>1 DEF GetNewHashValue, Captured
    <3> QED  BY <3>1, <3>2
  <2>3. Captured(s, p) \subseteq Points  BY <1>5, AfterFacts DEF Sound
  <2>4. W \cap PlayerWeights = {}  BY <2>3, WeightsAre
  <2>5. Xor(V, W) = StoneWeights(BoardAfter(s, p))  BY <1>5, StoneWeightsChange
  <2> HIDE DEF V, W, c
  <2> HIDE DEF W
  <2>6. Xor(V \cup (IF c = WHITE THEN PlayerWeights ELSE {}), PlayerWeights \cup W)
           = Xor(V, W) \cup (IF Opponent(c) = WHITE THEN PlayerWeights ELSE {})
    BY <1>0, <1>2, <2>4, PlayerWeightsChange
  <2> QED  BY <1>1, <2>2, <2>5, <2>6
<1> QED  BY <1>3, <1>4, <1>5

-----------------------------------------------------------------------------
(* The rules through a game.                                               *)

\* A move on the board of s with which s goes on.
Playable(s, p) ==
    p # PASS => /\ s.board_state[p] = EMPTY
                /\ ~ Suicide(s.board_state, s.current_player, p)

\* A player cannot bring back the last board but by the ko position.
KoTold(s, e) ==
    \A x \in Points : e.board_state[x] = EMPTY =>
        (Played(e.board_state, e.current_player, x) = s.board_state <=> x = e.ko_position)

\* What a move does to the board, the hash and the ko position.
LEMMA MoveDoes ==
    ASSUME NEW s, NEW h, Sound(s, h), Counts(s), s.zobrist_hash = PosHash(Position(s)),
           NEW p \in Points \cup {PASS}, Playable(s, p)
    PROVE  LET e == IF p = PASS THEN Pass(s) ELSE Place(s, p)
           IN  /\ \E w, g : Moved(s, e, w, g)
               /\ Counts(e)
               /\ e.zobrist_hash = PosHash(Position(e))
               /\ KoTold(s, e)
               /\ e.last_position = p
               /\ p # PASS => e.board_state = Played(s.board_state, s.current_player, p)
<1>0. IsGoState(s) /\ Blocks(s, h) /\ s.current_player \in {BLACK, WHITE}
  BY DEF Sound, IsGoState
<1>1. CASE p = PASS
  <2> DEFINE e == Pass(s)
  <2>1. PICK w : Moved(s, e, w, h)  BY PassDoes
  <2>2. /\ Counts(e) /\ e.board_state = s.board_state
        /\ e.ko_position = UNSET /\ e.zobrist_hash = GetNewHashValue(s, PASS)
        /\ e.last_position = PASS
    BY PassDoes
  <2> HIDE DEF e
  <2>3. e.current_player = Opponent(s.current_player) /\ Sound(e, h)  BY <2>1 DEF Moved
  <2>4. e.zobrist_hash = PosHash(Position(e))  BY <2>2, <2>3, NewHashIs DEF Position
  <2>5. KoTold(s, e)
    <3> SUFFICES ASSUME NEW x \in Points, e.board_state[x] = EMPTY
                 PROVE  /\ Played(e.board_state, e.current_player, x) # s.board_state
                        /\ x # UNSET
      BY <2>2 DEF KoTold
    <3>1. x # UNSET  BY FinitelyManyPoints DEF Points, UNSET
    <3>2. Played(e.board_state, e.current_player, x) = BoardAfter(e, x)
      BY <2>3, PlayedIs DEF Sound
    <3>3. BoardAfter(e, x)[x] = e.current_player  BY DEF BoardAfter
    <3>4. e.current_player # EMPTY  BY <1>0, <2>3, Players
    <3> QED  BY <2>2, <3>1, <3>2, <3>3, <3>4
  <2> QED  BY <1>1, <2>1, <2>2, <2>4, <2>5 DEF e
<1>2. CASE p # PASS
  <2> DEFINE e == Place(s, p)
             g == Heights(s, h, p)
  <2>1. p \in Points /\ s.board_state[p] = EMPTY
        /\ ~ Suicide(s.board_state, s.current_player, p)
    BY <1>2 DEF Playable
  <2>2. Founded(s, p).liberty_state # {}  BY <2>1, FoundedAlive
  <2>3. PICK w : Moved(s, e, w, g)  BY <2>1, <2>2, PlaceDoes
  <2>4. /\ Counts(e) /\ e.board_state = BoardAfter(s, p)
        /\ e.ko_position = KoPosition(s, p) /\ e.zobrist_hash = GetNewHashValue(s, p)
        /\ e.last_position = p
    BY <2>1, <2>2, PlaceDoes
  <2> HIDE DEF e, g
  <2>5. e.current_player = Opponent(s.current_player) /\ Sound(e, g)  BY <2>3 DEF Moved
  <2>6. e.zobrist_hash = PosHash(Position(e))
    BY <2>1, <2>4, <2>5, NewHashIs DEF Position
  <2>7. KoTold(s, e)
    <3> SUFFICES ASSUME NEW x \in Points, e.board_state[x] = EMPTY
                 PROVE  Played(e.board_state, e.current_player, x) = s.board_state
                           <=> x = e.ko_position
      BY DEF KoTold
    <3> QED  BY <2>1, <2>4, <2>5, KoIsRecapture
  <2>8. e.board_state = Played(s.board_state, s.current_player, p)
    BY <1>0, <2>1, <2>4, PlayedIs
  <2> QED  BY <1>2, <2>3, <2>4, <2>6, <2>7, <2>8 DEF e
<1> QED  BY <1>1, <1>2

\* The position after a stone on q.
PositionAfter(e, q) ==
    [board  |-> Played(e.board_state, e.current_player, q),
     player |-> Opponent(e.current_player)]

\* Which moves are legal after a move.
LEMMA LegalAfter ==
    ASSUME NEW s, NEW e, NEW w, NEW h, Moved(s, e, w, h),
           e.zobrist_hash = PosHash(Position(e)), NEW q \in Points
    PROVE  /\ q \in e.legal_move_map =>
                 /\ e.board_state[q] = EMPTY /\ q # e.ko_position
                 /\ ~ Suicide(e.board_state, e.current_player, q)
           /\ e.board_state[q] = EMPTY /\ q \notin e.legal_move_map =>
                 \/ q = e.ko_position
                 \/ Suicide(e.board_state, e.current_player, q)
                 \/ /\ PositionAfter(e, q) \in Positions
                    /\ PosHash(PositionAfter(e, q)) \in s.board_hash_states
<1>1. /\ Sound(w, h) /\ e.legal_move_map = LegalMoves(w)
      /\ w.board_hash_states = s.board_hash_states
      /\ w.board_state = e.board_state /\ w.current_player = e.current_player
      /\ w.ko_position = e.ko_position /\ w.zobrist_hash = e.zobrist_hash
  BY DEF Moved
<1>2. IsGoState(w) /\ Blocks(w, h) /\ w.current_player \in {BLACK, WHITE}
  BY <1>1 DEF Sound, IsGoState
<1>3. w.zobrist_hash = PosHash(Position(w))  BY <1>1 DEF Position
<1>4. w.board_state[q] = EMPTY =>
         /\ PositionAfter(e, q) \in Positions
         /\ GetNewHashValue(w, q) = PosHash(PositionAfter(e, q))
  <2> SUFFICES ASSUME w.board_state[q] = EMPTY
               PROVE  /\ PositionAfter(e, q) \in Positions
                      /\ GetNewHashValue(w, q) = PosHash(PositionAfter(e, q))
    OBVIOUS
  <2>1. Played(e.board_state, e.current_player, q) = BoardAfter(w, q)
    BY <1>1, <1>2, PlayedIs
  <2>2. BoardAfter(w, q) \in [Points -> {EMPTY, BLACK, WHITE}]  BY <1>2, AfterFacts
  <2>3. Opponent(e.current_player) \in {BLACK, WHITE}  BY <1>1, <1>2, Players
  <2>4. GetNewHashValue(w, q) =
            PosHash([board |-> BoardAfter(w, q), player |-> Opponent(w.current_player)])
    BY <1>1, <1>3, NewHashIs
  <2> QED  BY <1>1, <2>1, <2>2, <2>3, <2>4 DEF PositionAfter, Positions
<1>5. /\ q \in LegalMoves(w) =>
           /\ w.board_state[q] = EMPTY /\ q # w.ko_position
           /\ ~ Suicide(w.board_state, w.current_player, q)
      /\ w.board_state[q] = EMPTY /\ q \notin LegalMoves(w) =>
           \/ q = w.ko_position
           \/ Suicide(w.board_state, w.current_player, q)
           \/ w.positional_superko /\ GetNewHashValue(w, q) \in w.board_hash_states
  BY <1>1, LegalMovesAre
<1> QED  BY <1>1, <1>4, <1>5

\* The blocks are sound and the counts of liberties are right.
BlocksKept == \E h : Sound(state, h) /\ Counts(state)

\* The moves allowed are neither suicide nor the ko position.
LegalKept ==
    \A p \in state.legal_move_map :
        /\ state.board_state[p] = EMPTY /\ p # state.ko_position
        /\ ~ Suicide(state.board_state, state.current_player, p)

\* The ko position is the only point where a stone brings back the last board.
KoKept ==
    LET n == Len(record)
    IN  /\ n = 1 => state.ko_position = UNSET
        /\ n > 1 => \A x \in Points : state.board_state[x] = EMPTY =>
              (Played(state.board_state, state.current_player, x) = record[n - 1].board
                  <=> x = state.ko_position)

\* The hashes of the past are hashes of positions of the past.
HashesKept ==
    /\ state.zobrist_hash = PosHash(Position(state))
    /\ state.board_hash_states \subseteq {PosHash(record[i]) : i \in 1 .. Len(record)}

\* The record ends with this position, and before it the other player was to move.
RecordKept ==
    LET n == Len(record)
    IN  /\ record[n] = Position(state)
        /\ n > 1 => record[n - 1].player = Opponent(state.current_player)

RulesInv ==
    /\ IInv
    /\ BlocksKept
    /\ LegalKept
    /\ LegalMovesJustified
    /\ KoKept
    /\ NoRecapture
    /\ HashesKept
    /\ RecordKept

\* It holds of a new game.
LEMMA InitRulesInv == Init => RulesInv
<1> SUFFICES ASSUME Init  PROVE RulesInv
  OBVIOUS
<1>1. PICK superko \in BOOLEAN : state = NewGame(superko)  BY DEF Init
<1>2. IInv  BY InitIInv
<1>3. /\ Sound(state, [q \in Points |-> 0]) /\ Counts(state)
      /\ \A p \in state.legal_move_map :
            /\ state.board_state[p] = EMPTY /\ p # state.ko_position
            /\ ~ Suicide(state.board_state, state.current_player, p)
  BY <1>1, NewGameIsSound
<1>4. BlocksKept /\ LegalKept  BY <1>3 DEF BlocksKept, LegalKept
<1>5. record = <<Position(state)>> /\ Len(record) = 1 /\ record[1] = Position(state)
  BY DEF Init
<1>6. /\ state.board_state = [p \in Points |-> EMPTY] /\ state.ko_position = UNSET
      /\ state.legal_move_map = Points /\ state.zobrist_hash = {}
      /\ state.board_hash_states = {} /\ state.current_player = BLACK
  BY <1>1 DEF NewGame
<1>7. LegalMovesJustified  BY <1>3, <1>6 DEF LegalMovesJustified, Stones
<1>8. KoKept /\ NoRecapture /\ RecordKept  BY <1>5, <1>6 DEF KoKept, NoRecapture, RecordKept
<1>9. HashesKept
  <2>1. StoneWeights(state.board_state) = {}  BY <1>6 DEF StoneWeights, Stones
  <2>2. BLACK # WHITE  BY DEF BLACK, WHITE
  <2>3. PosHash(Position(state)) = {}  BY <1>6, <2>1, <2>2 DEF PosHash, Position
  <2> QED  BY <1>6, <2>3 DEF HashesKept
<1> QED  BY <1>2, <1>4, <1>7, <1>8, <1>9 DEF RulesInv

\* And every move keeps it.
LEMMA NextRulesInv == RulesInv /\ [Next]_vars => RulesInv'
<1> SUFFICES ASSUME RulesInv, [Next]_vars  PROVE RulesInv'
  OBVIOUS
<1>1. CASE UNCHANGED vars
  <2>1. state' = state /\ record' = record  BY <1>1 DEF vars
  <2>2. IInv'  BY NextIInv DEF RulesInv
  <2>3. BlocksKept' /\ LegalKept' /\ KoKept' /\ HashesKept' /\ RecordKept'
    BY <2>1 DEF RulesInv, BlocksKept, LegalKept, KoKept, HashesKept, RecordKept
  <2>4. LegalMovesJustified' /\ NoRecapture'
    BY <2>1 DEF RulesInv, LegalMovesJustified, NoRecapture, Repeats
  <2> QED  BY <2>2, <2>3, <2>4 DEF RulesInv
<1>2. ASSUME NEW p \in Points \cup {PASS}, Move(p)  PROVE RulesInv'
  <2> DEFINE n == Len(record)
             e == state'
  <2>1. IInv'  BY NextIInv DEF RulesInv
  <2>2. PICK h : Sound(state, h) /\ Counts(state)  BY DEF RulesInv, BlocksKept
  <2>3. Playable(state, p)
    BY <1>2 DEF Move, IsLegal, RulesInv, LegalKept, Playable
  <2>4. state' = IF p = PASS THEN Pass(state) ELSE Place(state, p)  BY <1>2 DEF Move
  <2>5. state.zobrist_hash = PosHash(Position(state))  BY DEF RulesInv, HashesKept
  <2>6. /\ \E w, g : Moved(state, e, w, g)
        /\ Counts(e)
        /\ e.zobrist_hash = PosHash(Position(e))
        /\ KoTold(state, e)
        /\ e.last_position = p
        /\ p # PASS => e.board_state = Played(state.board_state, state.current_player, p)
    BY <2>2, <2>3, <2>4, <2>5, MoveDoes
  <2>7. PICK w, g : Moved(state, e, w, g)  BY <2>6
  <2>8. record' = Append(record, Position(state'))  BY <1>2 DEF Move
  <2>9. /\ n \in Nat /\ n >= 1
        /\ Len(record') = n + 1 /\ record'[n + 1] = Position(e)
        /\ \A k \in 1 .. n : record'[k] = record[k] /\ record[k] \in Positions
    BY <2>8 DEF RulesInv, IInv
  <2>10. record[n] = Position(state) /\ record'[n] = Position(state)
    <3>1. n \in 1 .. n  BY <2>9
    <3> QED  BY <2>9, <3>1 DEF RulesInv, RecordKept
  <2>11. state.current_player \in {BLACK, WHITE}
         /\ e.current_player = Opponent(state.current_player)
    BY <2>2, <2>7 DEF Moved, Sound, IsGoState
  <2>12. Opponent(e.current_player) = state.current_player  BY <2>11, Players
  <2>13. BlocksKept'
    <3>1. Sound(e, g) /\ Counts(e)  BY <2>6, <2>7 DEF Moved
    <3> QED  BY <3>1 DEF BlocksKept
  <2>14. LegalKept'
    <3>1. \A q \in e.legal_move_map : q \in Points
      BY <2>1 DEF IInv, IsGoState
    <3>2. \A q \in e.legal_move_map :
             /\ e.board_state[q] = EMPTY /\ q # e.ko_position
             /\ ~ Suicide(e.board_state, e.current_player, q)
      BY <2>6, <2>7, <3>1, LegalAfter
    <3> QED  BY <3>2 DEF LegalKept
  <2>15. RecordKept'
    <3>1. record'[Len(record')] = Position(e)  BY <2>9
    <3>2. Len(record') - 1 = n /\ record'[n].player = state.current_player
      BY <2>9, <2>10 DEF Position
    <3> QED  BY <2>12, <3>1, <3>2 DEF RecordKept
  <2>16. KoKept'
    <3>1. Len(record') - 1 = n /\ Len(record') # 1 /\ record'[n].board = state.board_state
      BY <2>9, <2>10 DEF Position
    <3> QED  BY <2>6, <3>1 DEF KoKept, KoTold
  <2>17. NoRecapture'
    <3> SUFFICES ASSUME n + 1 > 2, e.last_position # PASS
                 PROVE  record'[n + 1].board # record'[n - 1].board
      BY <2>9 DEF NoRecapture
    <3>1. p # PASS /\ p \in Points  BY <2>6
    <3>2. /\ e.board_state = Played(state.board_state, state.current_player, p)
          /\ state.board_state[p] = EMPTY /\ p # state.ko_position
      BY <1>2, <2>6, <3>1 DEF Move, IsLegal, RulesInv, LegalKept
    <3>3. n > 1 /\ n - 1 \in 1 .. n  BY <2>9
    <3>4. e.board_state # record[n - 1].board
      BY <3>1, <3>2, <3>3 DEF RulesInv, KoKept
    <3> QED  BY <2>9, <3>3, <3>4 DEF Position
  <2>18. HashesKept'
    <3> DEFINE past == {PosHash(record'[i]) : i \in 1 .. Len(record')}
    <3>1. \A i \in 1 .. n : PosHash(record[i]) \in past
      <4> TAKE i \in 1 .. n
      <4>1. i \in 1 .. Len(record') /\ record'[i] = record[i]  BY <2>9
      <4> QED  BY <4>1
    <3>2. state.board_hash_states \subseteq past  BY <3>1 DEF RulesInv, HashesKept
    <3>3. e.zobrist_hash \in past
      <4>1. n + 1 \in 1 .. Len(record')  BY <2>9
      <4> QED  BY <2>6, <2>9, <4>1
    <3>4. e.board_hash_states \subseteq state.board_hash_states \cup {e.zobrist_hash}
      BY <2>7 DEF Moved
    <3>5. e.board_hash_states \subseteq past  BY <3>2, <3>3, <3>4
    <3> QED  BY <2>6, <3>5 DEF HashesKept
  <2>19. LegalMovesJustified'
    <3> SUFFICES ASSUME NEW q \in Points, e.board_state[q] = EMPTY
                 PROVE  IF q \in e.legal_move_map
                        THEN ~ Suicide(e.board_state, e.current_player, q)
                        ELSE Suicide(e.board_state, e.current_player, q) \/ Repeats(q)'
      BY DEF LegalMovesJustified, Stones
    <3>1. CASE q \in e.legal_move_map  BY <2>14, <3>1 DEF LegalKept
    <3>2. CASE q \notin e.legal_move_map /\ q = e.ko_position
      <4>1. Played(e.board_state, e.current_player, q) = state.board_state
        BY <2>6, <3>2 DEF KoTold
      <4>2. record'[n] = PositionAfter(e, q)
        BY <2>10, <2>12, <4>1 DEF Position, PositionAfter
      <4>3. n \in 1 .. Len(record')  BY <2>9
      <4>4. Repeats(q)'  BY <4>2, <4>3 DEF Repeats, PositionAfter
      <4> QED  BY <3>2, <4>4
    <3>3. CASE /\ q \notin e.legal_move_map /\ q # e.ko_position
               /\ ~ Suicide(e.board_state, e.current_player, q)
      <4>1. /\ PositionAfter(e, q) \in Positions
            /\ PosHash(PositionAfter(e, q)) \in state.board_hash_states
        BY <2>6, <2>7, <3>3, LegalAfter
      <4>2. PICK i \in 1 .. n : PosHash(PositionAfter(e, q)) = PosHash(record[i])
        BY <4>1 DEF RulesInv, HashesKept
      <4>3. record[i] \in Positions /\ record'[i] = record[i] /\ i \in 1 .. Len(record')
        BY <2>9, <4>2
      <4>4. PositionAfter(e, q) = record[i]  BY <4>1, <4>2, <4>3, PosHashInjective
      <4>5. Repeats(q)'  BY <4>3, <4>4 DEF Repeats, PositionAfter
      <4> QED  BY <3>3, <4>5
    <3> QED  BY <3>1, <3>2, <3>3
  <2> QED  BY <2>1, <2>13, <2>14, <2>15, <2>16, <2>17, <2>18, <2>19 DEF RulesInv
<1> QED  BY <1>1, <1>2 DEF Next

\* The rules hold through every game.
THEOREM RulesInvariance == Spec => []RulesInv
<1>1. Init => RulesInv  BY InitRulesInv
<1>2. RulesInv /\ [Next]_vars => RulesInv'  BY NextRulesInv
<1> QED  BY <1>1, <1>2, PTL DEF Spec

\* The blocks are the chains of the board.
LEMMA SoundBlocks ==
    ASSUME NEW s, NEW h, Sound(s, h), Counts(s), NEW p \in Points, s.board_state[p] # EMPTY
    PROVE  LET chain == Chain(s.board_state, p)
               block == s.block_pool[GetBlockIdByCoord(s, p)]
           IN  /\ block.in_use
               /\ block.color = s.board_state[p]
               /\ block.stone_state = chain
               /\ ToSet(block.stones) = chain
               /\ Len(block.stones) = Cardinality(chain)
               /\ block.liberty_state = ChainLiberties(s.board_state, chain)
               /\ s.liberty_count[p] = Liberties(block)
<1>0. Blocks(s, h)  BY DEF Sound
<1>1. PICK i \in Used(s) : p \in s.block_pool[i].stone_state  BY <1>0 DEF Blocks
<1>2. GetBlockIdByCoord(s, p) = i  BY <1>0, <1>1, BlockIdIs
<1> DEFINE b == s.block_pool[i]
<1>3. /\ b.color = s.board_state[p] /\ Chain(s.board_state, p) = b.stone_state
  BY <1>0, <1>1, BlockFacts
<1>4. /\ b.in_use /\ ToSet(b.stones) = b.stone_state
      /\ Len(b.stones) = Cardinality(b.stone_state)
      /\ b.liberty_state = {r \in Around(b.stone_state) : s.board_state[r] = EMPTY}
      /\ s.liberty_count[p] = Liberties(b)
  BY <1>0, <1>1 DEF Blocks, GoodBlock, Used, Counts
<1> HIDE DEF b
<1>5. b.liberty_state = ChainLiberties(s.board_state, b.stone_state)
  BY <1>4 DEF ChainLiberties, Around
<1> QED  BY <1>2, <1>3, <1>4, <1>5 DEF b

\* The union-find structure names for every stone a block that is its chain, with exactly
\* its liberties, and the liberty counts are right.
THEOREM BlocksCorrect == Spec => []BlocksAreChains
<1>1. RulesInv => BlocksAreChains
  <2> SUFFICES ASSUME RulesInv, NEW p \in Points
               PROVE  IF state.board_state[p] = EMPTY
                      THEN state.liberty_count[p] = 0
                      ELSE LET chain == Chain(state.board_state, p)
                               block == state.block_pool[GetBlockIdByCoord(state, p)]
                           IN  /\ block.in_use
                               /\ block.color = state.board_state[p]
                               /\ block.stone_state = chain
                               /\ ToSet(block.stones) = chain
                               /\ Len(block.stones) = Cardinality(chain)
                               /\ block.liberty_state =
                                     ChainLiberties(state.board_state, chain)
                               /\ state.liberty_count[p] = Liberties(block)
    BY DEF BlocksAreChains
  <2>1. PICK h : Sound(state, h) /\ Counts(state)  BY DEF RulesInv, BlocksKept
  <2>2. CASE state.board_state[p] = EMPTY  BY <2>1, <2>2 DEF Counts
  <2>3. CASE state.board_state[p] # EMPTY  BY <2>1, <2>3, SoundBlocks
  <2> QED  BY <2>2, <2>3
<1> QED  BY <1>1, RulesInvariance, PTL

\* Every block taken from the pool is in use for one chain or waits to be used again, once.
THEOREM BlocksAccounted == Spec => []PoolAccounted
<1>1. RulesInv => PoolAccounted
  <2> SUFFICES ASSUME RulesInv  PROVE PoolAccounted
    OBVIOUS
  <2>1. PICK h : Sound(state, h)  BY DEF RulesInv, BlocksKept
  <2>2. Accounted(state, Used(state)) /\ Blocks(state, h)  BY <2>1 DEF Sound
  <2>3. Used(state) = {GetBlockIdByCoord(state, q) : q \in Stones(state.board_state)}
    BY <2>2, UsedAre
  <2>4. Used(state) = {i \in BlockIds : state.block_pool[i].in_use}  BY DEF Used
  <2> HIDE DEF Used
  <2> QED  BY <2>2, <2>3, <2>4 DEF PoolAccounted, Accounted
<1> QED  BY <1>1, RulesInvariance, PTL

\* A legal move is no suicide, and a forbidden one is suicide or repeats a position.
THEOREM LegalMovesCorrect == Spec => []LegalMovesJustified
<1>1. RulesInv => LegalMovesJustified  BY DEF RulesInv
<1> QED  BY <1>1, RulesInvariance, PTL

\* No stone brings back the board of two moves ago.
THEOREM KoCorrect == Spec => []NoRecapture
<1>1. RulesInv => NoRecapture  BY DEF RulesInv
<1> QED  BY <1>1, RulesInvariance, PTL

\* The incremental hash is that of the position.
THEOREM HashCorrect == Spec => []HashNamesPosition
<1>1. RulesInv => HashNamesPosition
  BY DEF RulesInv, HashesKept, HashNamesPosition, PosHash, StoneWeights, Position
<1> QED  BY <1>1, RulesInvariance, PTL

-----------------------------------------------------------------------------
(* Scores.                                                                 *)

\* The point that CalcScoreWithColor() comes to, and what it does there.
Order == [k \in 1 .. Rows * Columns |-> k - 1]
Times == [k \in 1 .. Rows * Columns |-> k]

ScoreStep(s, color, acc, p) ==
    IF p \in acc.vis THEN acc
    ELSE IF s.board_state[p] = color THEN [acc EXCEPT !.cnt = @ + 1]
    ELSE IF s.board_state[p] # EMPTY THEN acc
    ELSE LET r == CalcRegionScore(s, p, color, acc.vis)
         IN  [cnt |-> acc.cnt + r.cnt, vis |-> r.vis]

RegionStart(p, vis) == [stack |-> <<p>>, vis |-> vis \cup {p}, colorSet |-> {}, cnt |-> 1]

\* What the folds compute, set by set.
Visiting(s, b, S, iter) ==
    iter = [x \in SUBSET S |-> IF x = {} THEN b ELSE RegionStep(s, iter[x \ {Max(x)}])]
Scoring(s, color, S, iter) ==
    iter = [x \in SUBSET S |-> IF x = {} THEN [cnt |-> 0, vis |-> {}]
                               ELSE ScoreStep(s, color, iter[x \ {Max(x)}], Order[Max(x)])]

VisitingEnd(s, b) == (CHOOSE iter : Visiting(s, b, DOMAIN Times, iter))[DOMAIN Times]
ScoringEnd(s, color) == (CHOOSE iter : Scoring(s, color, DOMAIN Order, iter))[DOMAIN Order]

\* CalcRegionScore() makes as many steps as there are points.
LEMMA VisitingIter ==
    \A s, p, color, vis :
        LET r == VisitingEnd(s, RegionStart(p, vis))
        IN  CalcRegionScore(s, p, color, vis) =
               [cnt |-> IF r.colorSet = {color} THEN r.cnt ELSE 0, vis |-> r.vis]
BY DEF CalcRegionScore, FoldLeft, MapThenFoldSet, Visiting, VisitingEnd, RegionStart, Times

\* CalcScoreWithColor() goes through the points.
LEMMA ScoringIter ==
    \A s, color :
        CalcScoreWithColor(s, color) = ScoringEnd(s, color).cnt
BY DEF CalcScoreWithColor, FoldLeft, MapThenFoldSet, Scoring, ScoringEnd, ScoreStep, Order

\* The recursion over the steps is defined.
LEMMA VisitingExists ==
    ASSUME NEW S, IsFiniteSet(S), S \subseteq Int, NEW s, NEW b
    PROVE  \E iter : Visiting(s, b, S, iter)
<1> DEFINE T == {x \in SUBSET S : \E iter : Visiting(s, b, x, iter)}
<1>1. {} \in T
  <2> DEFINE it == [x \in SUBSET {} |-> b]
  <2>1. Visiting(s, b, {}, it)  BY DEF Visiting
  <2> HIDE DEF it
  <2> QED  BY <2>1
<1>2. ASSUME NEW x \in SUBSET S, NEW m \in S, x \in T, \A i \in x : i < m
      PROVE  x \cup {m} \in T
  <2>1. PICK it0 : Visiting(s, b, x, it0)  BY <1>2
  <2> DEFINE it == [u \in SUBSET (x \cup {m}) |->
                      IF m \in u THEN RegionStep(s, it0[u \ {m}]) ELSE it0[u]]
             Step(u) == IF u = {} THEN b ELSE RegionStep(s, it[u \ {Max(u)}])
  <2>2. ASSUME NEW u \in SUBSET (x \cup {m})  PROVE it[u] = Step(u)
    <3>1. CASE m \in u
      <4>1. u \in SUBSET Int /\ \A i \in u : i <= m  BY <1>2, S \subseteq Int
      <4>2. Max(u) = m  BY <3>1, <4>1, MaxIsLast
      <4>3. it[u \ {m}] = it0[u \ {m}]  OBVIOUS
      <4>4. it[u] = RegionStep(s, it0[u \ {m}])  BY <3>1
      <4> HIDE DEF it
      <4> QED  BY <3>1, <4>2, <4>3, <4>4
    <3>2. CASE m \notin u
      <4>1. u \in SUBSET x  BY <3>2
      <4>2. it[u] = it0[u]  BY <3>2
      <4>3. it[u \ {Max(u)}] = it0[u \ {Max(u)}]  BY <3>2
      <4>4. it0[u] = IF u = {} THEN b ELSE RegionStep(s, it0[u \ {Max(u)}])
        BY <2>1, <4>1 DEF Visiting
      <4> HIDE DEF it
      <4> QED  BY <4>2, <4>3, <4>4
    <3> QED  BY <3>1, <3>2
  <2>3. it = [u \in SUBSET (x \cup {m}) |-> it[u]]  OBVIOUS
  <2>4. Visiting(s, b, x \cup {m}, it)
    <3> HIDE DEF it
    <3> QED  BY <2>2, <2>3 DEF Visiting
  <2> HIDE DEF it
  <2> QED  BY <2>4
<1> HIDE DEF T
<1>3. S \in T  BY <1>1, <1>2, ByGreatest
<1> QED  BY <1>3 DEF T

\* The steps of CalcRegionScore(), one after the other.
LEMMA VisitingSteps ==
    ASSUME NEW s, NEW b
    PROVE  LET N == Rows * Columns
           IN  \E at : /\ at[0] = b /\ at[N] = VisitingEnd(s, b)
                       /\ \A k \in 0 .. N - 1 : at[k + 1] = RegionStep(s, at[k])
<1> DEFINE N == Rows * Columns
           it == CHOOSE iter : Visiting(s, b, 1 .. N, iter)
           at == [k \in 0 .. N |-> it[1 .. k]]
<1>1. N \in Nat  BY FinitelyManyPoints
<1>2. DOMAIN Times = 1 .. N  BY DEF Times
<1>3. IsFiniteSet(1 .. N)
  <2> HIDE DEF N
  <2> QED  BY <1>1, FS_Interval
<1>4. Visiting(s, b, 1 .. N, it)
  <2> HIDE DEF N
  <2>1. 1 .. N \subseteq Int  BY <1>1
  <2> QED  BY <1>3, <2>1, VisitingExists
<1> HIDE DEF it
<1> HIDE DEF N
<1>5. at[0] = b
  <2>1. 1 .. 0 = {} /\ 0 \in 0 .. N  BY <1>1
  <2> QED  BY <1>4, <2>1 DEF Visiting
<1>6. ASSUME NEW k \in 0 .. N - 1  PROVE at[k + 1] = RegionStep(s, at[k])
  <2>1. k \in 0 .. N /\ k + 1 \in 0 .. N /\ 1 .. k + 1 \subseteq 1 .. N /\ k + 1 \in 1 .. k + 1
    BY <1>1
  <2>2. Max(1 .. k + 1) = k + 1
    <3>1. 1 .. k + 1 \in SUBSET Int /\ \A i \in 1 .. k + 1 : i <= k + 1  BY <2>1
    <3> QED  BY <2>1, <3>1, MaxIsLast
  <2>3. (1 .. k + 1) \ {k + 1} = 1 .. k  BY <2>1
  <2>4. it[1 .. k + 1] = RegionStep(s, it[(1 .. k + 1) \ {Max(1 .. k + 1)}])
    BY <1>4, <2>1 DEF Visiting
  <2>5. at[k + 1] = it[1 .. k + 1] /\ at[k] = it[1 .. k]  BY <2>1
  <2> HIDE DEF at
  <2> QED  BY <2>2, <2>3, <2>4, <2>5
<1>7. at[N] = it[1 .. N]
  <2>1. N \in 0 .. N  BY <1>1
  <2> QED  BY <2>1
<1> HIDE DEF at
<1>8. at[N] = VisitingEnd(s, b)  BY <1>2, <1>7 DEF it, VisitingEnd
<1> QED  BY <1>5, <1>6, <1>8 DEF N

\* That over the points is, too.
LEMMA ScoringExists ==
    ASSUME NEW S, IsFiniteSet(S), S \subseteq Int, NEW s, NEW color
    PROVE  \E iter : Scoring(s, color, S, iter)
<1> DEFINE T == {x \in SUBSET S : \E iter : Scoring(s, color, x, iter)}
<1>1. {} \in T
  <2> DEFINE it == [x \in SUBSET {} |-> [cnt |-> 0, vis |-> {}]]
  <2>1. Scoring(s, color, {}, it)  BY DEF Scoring
  <2> HIDE DEF it
  <2> QED  BY <2>1
<1>2. ASSUME NEW x \in SUBSET S, NEW m \in S, x \in T, \A i \in x : i < m
      PROVE  x \cup {m} \in T
  <2>1. PICK it0 : Scoring(s, color, x, it0)  BY <1>2
  <2> DEFINE it == [u \in SUBSET (x \cup {m}) |->
                      IF m \in u THEN ScoreStep(s, color, it0[u \ {m}], Order[m]) ELSE it0[u]]
             Step(u) == IF u = {} THEN [cnt |-> 0, vis |-> {}] ELSE ScoreStep(s, color, it[u \ {Max(u)}], Order[Max(u)])
  <2>2. ASSUME NEW u \in SUBSET (x \cup {m})  PROVE it[u] = Step(u)
    <3>1. CASE m \in u
      <4>1. u \in SUBSET Int /\ \A i \in u : i <= m  BY <1>2, S \subseteq Int
      <4>2. Max(u) = m  BY <3>1, <4>1, MaxIsLast
      <4>3. it[u \ {m}] = it0[u \ {m}]  OBVIOUS
      <4>4. it[u] = ScoreStep(s, color, it0[u \ {m}], Order[m])  BY <3>1
      <4> HIDE DEF it
      <4> QED  BY <3>1, <4>2, <4>3, <4>4
    <3>2. CASE m \notin u
      <4>1. u \in SUBSET x  BY <3>2
      <4>2. it[u] = it0[u]  BY <3>2
      <4>3. it[u \ {Max(u)}] = it0[u \ {Max(u)}]  BY <3>2
      <4>4. it0[u] = IF u = {} THEN [cnt |-> 0, vis |-> {}] ELSE ScoreStep(s, color, it0[u \ {Max(u)}], Order[Max(u)])
        BY <2>1, <4>1 DEF Scoring
      <4> HIDE DEF it
      <4> QED  BY <4>2, <4>3, <4>4
    <3> QED  BY <3>1, <3>2
  <2>3. it = [u \in SUBSET (x \cup {m}) |-> it[u]]  OBVIOUS
  <2>4. Scoring(s, color, x \cup {m}, it)
    <3> HIDE DEF it
    <3> QED  BY <2>2, <2>3 DEF Scoring
  <2> HIDE DEF it
  <2> QED  BY <2>4
<1> HIDE DEF T
<1>3. S \in T  BY <1>1, <1>2, ByGreatest
<1> QED  BY <1>3 DEF T

\* The steps of CalcScoreWithColor(): the points in ascending order.
LEMMA ScoringSteps ==
    ASSUME NEW s, NEW color
    PROVE  LET N == Rows * Columns
           IN  \E at : /\ at[0] = [cnt |-> 0, vis |-> {}] /\ at[N] = ScoringEnd(s, color)
                       /\ \A k \in 0 .. N - 1 : at[k + 1] = ScoreStep(s, color, at[k], k)
<1> DEFINE N == Rows * Columns
           it == CHOOSE iter : Scoring(s, color, 1 .. N, iter)
           at == [k \in 0 .. N |-> it[1 .. k]]
<1>1. N \in Nat  BY FinitelyManyPoints
<1>2. DOMAIN Order = 1 .. N  BY DEF Order
<1>3. IsFiniteSet(1 .. N)
  <2> HIDE DEF N
  <2> QED  BY <1>1, FS_Interval
<1>4. Scoring(s, color, 1 .. N, it)
  <2> HIDE DEF N
  <2>1. 1 .. N \subseteq Int  BY <1>1
  <2> QED  BY <1>3, <2>1, ScoringExists
<1> HIDE DEF it
<1> HIDE DEF N
<1>5. at[0] = [cnt |-> 0, vis |-> {}]
  <2>1. 1 .. 0 = {} /\ 0 \in 0 .. N  BY <1>1
  <2> QED  BY <1>4, <2>1 DEF Scoring
<1>6. ASSUME NEW k \in 0 .. N - 1  PROVE at[k + 1] = ScoreStep(s, color, at[k], k)
  <2>1. k \in 0 .. N /\ k + 1 \in 0 .. N /\ 1 .. k + 1 \subseteq 1 .. N /\ k + 1 \in 1 .. k + 1
    BY <1>1
  <2>2. Max(1 .. k + 1) = k + 1
    <3>1. 1 .. k + 1 \in SUBSET Int /\ \A i \in 1 .. k + 1 : i <= k + 1  BY <2>1
    <3> QED  BY <2>1, <3>1, MaxIsLast
  <2>3. (1 .. k + 1) \ {k + 1} = 1 .. k  BY <2>1
  <2>4. it[1 .. k + 1] = ScoreStep(s, color, it[(1 .. k + 1) \ {Max(1 .. k + 1)}],
                                      Order[Max(1 .. k + 1)])
    BY <1>4, <2>1 DEF Scoring
  <2>5. at[k + 1] = it[1 .. k + 1] /\ at[k] = it[1 .. k]  BY <2>1
  <2> HIDE DEF at
  <2>6. Order[k + 1] = k
    <3>1. k + 1 \in 1 .. Rows * Columns /\ (k + 1) - 1 = k  BY <1>1, <2>1 DEF N
    <3> QED  BY <3>1 DEF Order
  <2> QED  BY <2>6, <2>2, <2>3, <2>4, <2>5
<1>7. at[N] = it[1 .. N]
  <2>1. N \in 0 .. N  BY <1>1
  <2> QED  BY <2>1
<1> HIDE DEF at
<1>8. at[N] = ScoringEnd(s, color)  BY <1>2, <1>7 DEF it, ScoringEnd
<1> QED  BY <1>5, <1>6, <1>8 DEF N

\* A set of points as a sequence.
LEMMA SetToSeqIs ==
    ASSUME NEW S \in SUBSET Points
    PROVE  LET l == SetToSeq(S)
           IN  l \in Seq(Points) /\ ToSet(l) = S /\ Len(l) = Cardinality(S)
<1> DEFINE n == Cardinality(S)
           l == SetToSeq(S)
           Good(f) == f \in [1 .. n -> S] /\ IsInjective(f)
<1>1. IsFiniteSet(S) /\ n \in Nat  BY CountPoints
<1>2. \E f : Good(f)
  <2>1. ExistsBijection(1 .. n, S)  BY <1>1, FS_CardinalityType
  <2> QED  BY <2>1 DEF ExistsBijection, Bijection, Injection
<1>3. l \in [1 .. n -> S] /\ IsInjective(l)
  <2>1. l = CHOOSE f \in [1 .. n -> S] : IsInjective(f)  BY DEF SetToSeq
  <2> HIDE DEF l, n
  <2> QED  BY <1>2, <2>1
<1> HIDE DEF l
<1>4. DOMAIN l = 1 .. n /\ ToSet(l) \subseteq S  BY <1>3 DEF ToSet
<1>5. l \in Seq(Points) /\ Len(l) = n
  <2> HIDE DEF n
  <2>1. l \in [1 .. n -> Points]  BY <1>3
  <2>2. l \in Seq(Points)  BY <1>1, <2>1
  <2> QED  BY <1>1, <1>4, <2>2
<1>6. ToSet(l) = S
  <2> HIDE DEF n
  <2>1. l \in Bijection(1 .. n, ToSet(l))
    <3>1. l \in [1 .. n -> ToSet(l)]  BY <1>3, <1>4 DEF ToSet
    <3>2. \A y \in ToSet(l) : \E i \in 1 .. n : l[i] = y  BY <1>4 DEF ToSet
    <3> QED  BY <1>3, <3>1, <3>2 DEF Bijection, Injection, Surjection
  <2>2. ExistsBijection(1 .. n, ToSet(l))  BY <2>1 DEF ExistsBijection
  <2>3. IsFiniteSet(1 .. n) /\ Cardinality(1 .. n) = n
    <3>1. 1 \in Int /\ n \in Int  BY <1>1
    <3>2. IsFiniteSet(1 .. n) /\ Cardinality(1 .. n) = IF 1 > n THEN 0 ELSE n - 1 + 1
      BY <3>1, FS_Interval
    <3> QED  BY <1>1, <3>2
  <2>4. Cardinality(ToSet(l)) = n  BY <2>2, <2>3, FS_Bijection
  <2> QED  BY <1>1, <1>4, <2>4, FS_Subset DEF n
<1> QED  BY <1>5, <1>6 DEF l, n

\* A list without doubles, without its last element.
LEMMA FrontOnce ==
    ASSUME NEW l \in Seq(Points), l # <<>>, Len(l) = Cardinality(ToSet(l))
    PROVE  /\ Front(l) \in Seq(Points) /\ Last(l) \in ToSet(l)
           /\ ToSet(Front(l)) = ToSet(l) \ {Last(l)}
           /\ Len(Front(l)) = Cardinality(ToSet(Front(l)))
           /\ Len(Front(l)) = Len(l) - 1
<1> DEFINE f == Front(l)
           t == Last(l)
<1>1. /\ f \in Seq(Points) /\ Len(f) = Len(l) - 1 /\ ToSet(l) = ToSet(f) \cup {t}
  BY ElementsFront
<1> HIDE DEF f, t
<1>2. IsFiniteSet(ToSet(f)) /\ Cardinality(ToSet(f)) <= Len(f) /\ Cardinality(ToSet(f)) \in Nat
  BY <1>1, ElementsFinite, FS_CardinalityType
<1>3. Cardinality(ToSet(f) \cup {t}) =
         IF t \in ToSet(f) THEN Cardinality(ToSet(f)) ELSE Cardinality(ToSet(f)) + 1
  BY <1>2, FS_AddElement
<1>4. Len(l) \in Nat /\ Len(f) \in Nat  BY <1>1
<1>5. t \notin ToSet(f) /\ Len(f) = Cardinality(ToSet(f))
  BY <1>1, <1>2, <1>3, <1>4
<1> QED  BY <1>1, <1>5 DEF f, t

\* The points of the board's chain C that have been visited from p are those that r has
\* more than vis; of those on the stack the neighbours are still to be seen.
Region(s, p, vis, r, k) ==
    LET C == Chain(s.board_state, p)
        R == r.vis \ vis
    IN  /\ r.vis = vis \cup R /\ R \subseteq C /\ p \in R
        /\ r.stack \in Seq(Points) /\ ToSet(r.stack) \subseteq R
        /\ Len(r.stack) = Cardinality(ToSet(r.stack))
        /\ \A x \in R \ ToSet(r.stack) : \A q \in Neighbours(x) :
              /\ s.board_state[q] = EMPTY => q \in R
              /\ s.board_state[q] # EMPTY => s.board_state[q] \in r.colorSet
        /\ r.colorSet \subseteq {s.board_state[q] : q \in Around(C)} \ {EMPTY}
        /\ r.cnt = Cardinality(R)
        /\ r.stack # <<>> => Cardinality(R) - Len(r.stack) >= k

\* p is empty and no point of its chain has been visited.
NewRegion(s, p, vis) ==
    /\ p \in Points /\ s.board_state[p] = EMPTY
    /\ vis \in SUBSET Points /\ vis \cap Chain(s.board_state, p) = {}
    /\ \A q \in vis : s.board_state[q] = EMPTY

\* It is so at the start.
LEMMA RegionStarts ==
    ASSUME NEW s, NEW p, NEW vis, NewRegion(s, p, vis)
    PROVE  Region(s, p, vis, RegionStart(p, vis), 0)
<1> DEFINE r == RegionStart(p, vis)
           C == Chain(s.board_state, p)
<1>1. /\ p \in Points /\ p \in C /\ p \notin vis
  BY ChainGrows DEF NewRegion
<1>2. r.stack = <<p>> /\ r.vis = vis \cup {p} /\ r.colorSet = {} /\ r.cnt = 1
  BY DEF RegionStart
<1>3. r.vis \ vis = {p}  BY <1>1, <1>2
<1>4. /\ <<p>> \in Seq(Points) /\ Len(<<p>>) = 1 /\ ToSet(<<p>>) = {p}
  BY <1>1 DEF ToSet
<1>5. Cardinality({p}) = 1  BY FS_Singleton
<1> HIDE DEF r, C
<1> QED  BY <1>1, <1>2, <1>3, <1>4, <1>5 DEF Region, r, C

\* Every step keeps it.
LEMMA RegionSteps ==
    ASSUME NEW s, NEW p, NEW vis, NewRegion(s, p, vis), NEW k \in Nat,
           NEW r, Region(s, p, vis, r, k)
    PROVE  Region(s, p, vis, RegionStep(s, r), k + 1)
<1> DEFINE C == Chain(s.board_state, p)
           R == r.vis \ vis
           top == Last(r.stack)
           front == Front(r.stack)
           new == {n \in Neighbours(top) : n \notin r.vis}
           empty == {n \in new : s.board_state[n] = EMPTY}
           t == RegionStep(s, r)
<1>1. /\ r.vis = vis \cup R /\ R \subseteq C /\ p \in R
      /\ r.stack \in Seq(Points) /\ ToSet(r.stack) \subseteq R
      /\ Len(r.stack) = Cardinality(ToSet(r.stack))
      /\ \A x \in R \ ToSet(r.stack) : \A q \in Neighbours(x) :
            /\ s.board_state[q] = EMPTY => q \in R
            /\ s.board_state[q] # EMPTY => s.board_state[q] \in r.colorSet
      /\ r.colorSet \subseteq {s.board_state[q] : q \in Around(C)} \ {EMPTY}
      /\ r.cnt = Cardinality(R)
      /\ r.stack # <<>> => Cardinality(R) - Len(r.stack) >= k
  BY DEF Region
<1>2. CASE r.stack = <<>>
  <2>1. t = r  BY <1>2 DEF RegionStep
  <2> HIDE DEF t, C, R
  <2> QED  BY <1>1, <1>2, <2>1 DEF Region, C, R, t
<1>3. CASE r.stack # <<>>
  <2>1. /\ t.stack = front \o SetToSeq(empty) /\ t.vis = r.vis \cup empty
        /\ t.colorSet = r.colorSet \cup ({s.board_state[n] : n \in new} \ {EMPTY})
        /\ t.cnt = r.cnt + Cardinality(empty)
    BY <1>3 DEF RegionStep
  <2>2. /\ p \in Points /\ s.board_state[p] = EMPTY /\ vis \cap C = {}
        /\ \A q \in vis : s.board_state[q] = EMPTY
    BY DEF NewRegion
  <2>3. /\ C \subseteq Points /\ More(s.board_state, p, C) \subseteq C
        /\ \A x \in C : s.board_state[x] = EMPTY
    BY <2>2, ChainGrows
  <2>4. /\ front \in Seq(Points) /\ top \in ToSet(r.stack)
        /\ ToSet(front) = ToSet(r.stack) \ {top}
        /\ Len(front) = Cardinality(ToSet(front))
        /\ Len(front) = Len(r.stack) - 1
    BY <1>1, <1>3, FrontOnce
  <2>5. top \in R /\ top \in C /\ top \in Points  BY <1>1, <2>3, <2>4
  <2>6. \A q \in Neighbours(top) : s.board_state[q] = EMPTY => q \in C
    BY <2>2, <2>3, <2>5 DEF More
  <2>7. /\ empty \subseteq C /\ empty \cap r.vis = {} /\ empty \in SUBSET Points
        /\ \A q \in Neighbours(top) : q \in empty <=> q \notin r.vis /\ s.board_state[q] = EMPTY
        /\ empty \subseteq Neighbours(top)
    BY <2>3, <2>6
  <2>8. /\ SetToSeq(empty) \in Seq(Points) /\ ToSet(SetToSeq(empty)) = empty
        /\ Len(SetToSeq(empty)) = Cardinality(empty)
    BY <2>7, SetToSeqIs
  <2>9. \A q \in Neighbours(top) : s.board_state[q] # EMPTY => q \in new /\ q \notin r.vis
    BY <1>1, <2>2, <2>3
  <2>10. \A q \in new : q \in Around(C)  BY <2>5 DEF Around
  <2>11. t.vis \ vis = R \cup empty /\ t.vis = vis \cup (R \cup empty)
    BY <1>1, <2>1, <2>2, <2>7
  <2>12. R \cap empty = {}  BY <2>7
  <2>13. /\ t.stack \in Seq(Points) /\ ToSet(t.stack) = ToSet(front) \cup empty
         /\ Len(t.stack) = Len(front) + Cardinality(empty)
    <3> HIDE DEF front, empty
    <3>1. ToSet(front \o SetToSeq(empty)) = ToSet(front) \cup empty
      BY <2>4, <2>8, ElementsOfBoth
    <3> DEFINE l == SetToSeq(empty)
    <3>2. l \in Seq(Points) /\ Len(l) = Cardinality(empty)  BY <2>8
    <3>3. t.stack = front \o l  BY <2>1
    <3> HIDE DEF l, t
    <3>4. front \o l \in Seq(Points) /\ Len(front \o l) = Len(front) + Len(l)
      BY <2>4, <3>2
    <3> QED  BY <3>1, <3>2, <3>3, <3>4 DEF l
  <2>14. t.colorSet \subseteq {s.board_state[q] : q \in Around(C)} \ {EMPTY}
    <3>1. {s.board_state[n] : n \in new} \subseteq {s.board_state[q] : q \in Around(C)}
      BY <2>10
    <3> HIDE DEF new, C
    <3> QED  BY <1>1, <2>1, <3>1
  <2>15. \A q \in new : s.board_state[q] # EMPTY => s.board_state[q] \in t.colorSet
    BY <2>1
  <2> HIDE DEF new, empty, front, top, t, C, R
  <2>16. \A x \in (R \cup empty) \ ToSet(t.stack) : \A q \in Neighbours(x) :
            /\ s.board_state[q] = EMPTY => q \in R \cup empty
            /\ s.board_state[q] # EMPTY => s.board_state[q] \in t.colorSet
    <3> TAKE x \in (R \cup empty) \ ToSet(t.stack)
    <3> TAKE q \in Neighbours(x)
    <3>1. x \in R /\ (x = top \/ x \notin ToSet(r.stack))  BY <2>4, <2>13
    <3>2. CASE x = top
      <4>1. s.board_state[q] = EMPTY => q \in R \cup empty
        <5>1. s.board_state[q] = EMPTY => q \in C  BY <2>6, <3>2
        <5>2. s.board_state[q] = EMPTY /\ q \notin empty => q \in r.vis  BY <2>7, <3>2
        <5> QED  BY <1>1, <2>2, <5>1, <5>2
      <4>2. s.board_state[q] # EMPTY => s.board_state[q] \in t.colorSet
        BY <2>9, <2>15, <3>2
      <4> QED  BY <4>1, <4>2
    <3>3. CASE x \notin ToSet(r.stack)  BY <1>1, <2>1, <3>1, <3>3
    <3> QED  BY <3>1, <3>2, <3>3
  <2>17. /\ Cardinality(R \cup empty) = Cardinality(R) + Cardinality(empty)
         /\ Cardinality(R) \in Nat /\ Cardinality(empty) \in Nat
    <3>1. IsFiniteSet(R) /\ IsFiniteSet(empty) /\ Cardinality(R) \in Nat
          /\ Cardinality(empty) \in Nat
      BY <1>1, <2>3, <2>7, CountPoints
    <3>2. Cardinality(R \cup empty) =
             Cardinality(R) + Cardinality(empty) - Cardinality(R \cap empty)
      BY <3>1, FS_Union
    <3>3. Cardinality(R \cap empty) = 0  BY <2>12, FS_EmptySet
    <3> QED  BY <3>1, <3>2, <3>3
  <2>18. t.cnt = Cardinality(R \cup empty)  BY <1>1, <2>1, <2>17
  <2>19. Len(t.stack) = Cardinality(ToSet(t.stack))
    <3>1. ToSet(front) \cap empty = {}  BY <1>1, <2>4, <2>12
    <3>2. IsFiniteSet(ToSet(front)) /\ IsFiniteSet(empty)
      BY <2>4, <2>7, CountPoints, ElementsFinite
    <3>3. Cardinality(ToSet(front) \cup empty) =
             Cardinality(ToSet(front)) + Cardinality(empty) - Cardinality(ToSet(front) \cap empty)
      BY <3>2, FS_Union
    <3>4. Cardinality(ToSet(front) \cap empty) = 0  BY <3>1, FS_EmptySet
    <3>5. Cardinality(ToSet(front)) \in Nat  BY <3>2, FS_CardinalityType
    <3> QED  BY <2>4, <2>13, <2>17, <3>3, <3>4, <3>5
  <2>20. Cardinality(R \cup empty) - Len(t.stack) >= k + 1
    <3>1. Len(r.stack) \in Nat  BY <1>1
    <3> QED  BY <1>1, <1>3, <2>4, <2>13, <2>17, <3>1
  <2>21. R \cup empty \subseteq C /\ p \in R \cup empty  BY <1>1, <2>7
  <2>22. ToSet(t.stack) \subseteq R \cup empty  BY <1>1, <2>4, <2>13
  <2> DEFINE Q == R \cup empty
  <2>23. /\ t.vis \ vis = Q /\ t.vis = vis \cup Q /\ Q \subseteq C /\ p \in Q
         /\ t.stack \in Seq(Points) /\ ToSet(t.stack) \subseteq Q
         /\ Len(t.stack) = Cardinality(ToSet(t.stack))
         /\ \A x \in Q \ ToSet(t.stack) : \A q \in Neighbours(x) :
               /\ s.board_state[q] = EMPTY => q \in Q
               /\ s.board_state[q] # EMPTY => s.board_state[q] \in t.colorSet
         /\ t.colorSet \subseteq {s.board_state[q] : q \in Around(C)} \ {EMPTY}
         /\ t.cnt = Cardinality(Q)
         /\ Cardinality(Q) - Len(t.stack) >= k + 1
    BY <2>11, <2>13, <2>14, <2>16, <2>18, <2>19, <2>20, <2>21, <2>22
  <2> HIDE DEF Q
  <2>24. Region(s, p, vis, t, k + 1)  BY <2>23 DEF Region, C
  <2> QED  BY <2>24 DEF t
<1> QED  BY <1>2, <1>3

\* The colours next to the chain of p.
Reached(board, p) == {board[q] : q \in Around(Chain(board, p))}

\* CalcRegionScore() visits the chain of an empty point, and counts it if it comes to stones
\* of that colour only.
LEMMA RegionScoreIs ==
    ASSUME NEW s, NEW p, NEW vis, NewRegion(s, p, vis), NEW color
    PROVE  LET C == Chain(s.board_state, p)
           IN  CalcRegionScore(s, p, color, vis) =
                  [cnt |-> IF Reached(s.board_state, p) \ {EMPTY} = {color}
                           THEN Cardinality(C) ELSE 0,
                   vis |-> vis \cup C]
<1> DEFINE C == Chain(s.board_state, p)
           N == Rows * Columns
           b == RegionStart(p, vis)
           r == VisitingEnd(s, b)
<1>1. CalcRegionScore(s, p, color, vis) =
         [cnt |-> IF r.colorSet = {color} THEN r.cnt ELSE 0, vis |-> r.vis]
  BY VisitingIter
<1>2. PICK at : /\ at[0] = b /\ at[N] = r
                /\ \A k \in 0 .. N - 1 : at[k + 1] = RegionStep(s, at[k])
  BY VisitingSteps
<1>3. N \in Nat  BY FinitelyManyPoints
<1> HIDE DEF N, r, b
<1> DEFINE T == {k \in Nat : k <= N => Region(s, p, vis, at[k], k)}
<1>4. 0 \in T  BY <1>2, RegionStarts DEF b
<1>5. ASSUME NEW k \in Nat, k \in T  PROVE k + 1 \in T
  <2> SUFFICES ASSUME k + 1 <= N  PROVE Region(s, p, vis, at[k + 1], k + 1)
    OBVIOUS
  <2>1. k \in 0 .. N - 1 /\ k <= N  BY <1>3
  <2>2. at[k + 1] = RegionStep(s, at[k]) /\ Region(s, p, vis, at[k], k)
    BY <1>2, <1>5, <2>1
  <2> QED  BY <2>2, RegionSteps
<1> HIDE DEF T
<1>6. Nat \subseteq T  BY <1>4, <1>5, AllNaturals
<1>7. Region(s, p, vis, r, N)  BY <1>2, <1>3, <1>6 DEF T
<1> DEFINE R == r.vis \ vis
<1>8. /\ r.vis = vis \cup R /\ R \subseteq C /\ p \in R
      /\ r.stack \in Seq(Points) /\ ToSet(r.stack) \subseteq R
      /\ Len(r.stack) = Cardinality(ToSet(r.stack))
      /\ \A x \in R \ ToSet(r.stack) : \A q \in Neighbours(x) :
            /\ s.board_state[q] = EMPTY => q \in R
            /\ s.board_state[q] # EMPTY => s.board_state[q] \in r.colorSet
      /\ r.colorSet \subseteq {s.board_state[q] : q \in Around(C)} \ {EMPTY}
      /\ r.cnt = Cardinality(R)
      /\ r.stack # <<>> => Cardinality(R) - Len(r.stack) >= N
  BY <1>7 DEF Region
<1>9. /\ p \in Points /\ s.board_state[p] = EMPTY
      /\ C \subseteq Points /\ \A x \in C : s.board_state[x] = EMPTY
      /\ \A D : p \in D /\ (\A x \in D : \A q \in Neighbours(x) :
                               s.board_state[q] = s.board_state[p] => q \in D) => C \subseteq D
  BY ChainGrows DEF NewRegion
<1> HIDE DEF R, C
<1>10. r.stack = <<>>
  <2>1. Cardinality(R) \in Nat /\ Cardinality(R) <= N
    <3>1. R \in SUBSET Points  BY <1>8, <1>9
    <3> QED  BY <3>1, CountPoints DEF N
  <2>2. Len(r.stack) \in Nat /\ (r.stack # <<>> => Len(r.stack) > 0)  BY <1>8
  <2> QED  BY <1>3, <1>8, <2>1, <2>2
<1>11. ToSet(r.stack) = {}  BY <1>10 DEF ToSet
<1>12. R = C  BY <1>8, <1>9, <1>11
<1>13. r.colorSet = Reached(s.board_state, p) \ {EMPTY}
  <2>1. \A q \in Around(C) : s.board_state[q] # EMPTY => s.board_state[q] \in r.colorSet
    <3> SUFFICES ASSUME NEW q \in Around(C), s.board_state[q] # EMPTY
                 PROVE  s.board_state[q] \in r.colorSet
      OBVIOUS
    <3>1. PICK x \in C : q \in Neighbours(x)  BY <1>9, AroundFacts
    <3> QED  BY <1>8, <1>11, <1>12, <3>1
  <2>2. Reached(s.board_state, p) = {s.board_state[q] : q \in Around(C)}
    BY DEF Reached, C
  <2>3. Reached(s.board_state, p) \ {EMPTY} \subseteq r.colorSet  BY <2>1, <2>2
  <2> QED  BY <1>8, <2>2, <2>3
<1> QED  BY <1>1, <1>8, <1>12, <1>13 DEF C

\* Every point of a chain has the same chain.
LEMMA ChainsSame ==
    ASSUME NEW board, NEW p \in Points, NEW q \in Chain(board, p)
    PROVE  Chain(board, q) = Chain(board, p)
<1> DEFINE C == Chain(board, p)
           E == Chain(board, q)
<1>1. /\ C \subseteq Points /\ p \in C
      /\ \A x \in C : board[x] = board[p]
      /\ More(board, p, C) \subseteq C
      /\ \A D : p \in D /\ (\A x \in D : \A y \in Neighbours(x) :
                               board[y] = board[p] => y \in D) => C \subseteq D
  BY ChainGrows
<1>2. /\ E \subseteq Points /\ q \in E
      /\ \A x \in E : board[x] = board[q]
      /\ More(board, q, E) \subseteq E
      /\ \A D : q \in D /\ (\A x \in D : \A y \in Neighbours(x) :
                               board[y] = board[q] => y \in D) => E \subseteq D
  BY <1>1, ChainGrows
<1>3. board[q] = board[p] /\ q \in C  BY <1>1
<1> HIDE DEF C, E
<1>4. \A x \in C : \A y \in Neighbours(x) : board[y] = board[p] => y \in C
  BY <1>1 DEF More
<1>5. \A x \in E : \A y \in Neighbours(x) : board[y] = board[p] => y \in E
  BY <1>2, <1>3 DEF More
<1>6. E \subseteq C  BY <1>2, <1>3, <1>4
<1>7. p \in E
  <2> SUFFICES ASSUME p \notin E  PROVE FALSE
    OBVIOUS
  <2> DEFINE D == C \ E
  <2>1. \A x \in D : \A y \in Neighbours(x) : board[y] = board[p] => y \in D
    <3> SUFFICES ASSUME NEW x \in D, NEW y \in Neighbours(x), board[y] = board[p], y \in E
                 PROVE  FALSE
      BY <1>4
    <3>1. x \in Neighbours(y)  BY <1>1, NeighboursMutual
    <3>2. board[x] = board[p]  BY <1>1
    <3> QED  BY <1>5, <3>1, <3>2
  <2>2. p \in D  BY <1>1
  <2> HIDE DEF D
  <2>3. C \subseteq D  BY <1>1, <2>1, <2>2
  <2> QED  BY <1>2, <1>3, <2>3 DEF D
<1>8. C \subseteq E  BY <1>1, <1>5, <1>7
<1> QED  BY <1>6, <1>8 DEF C, E

\* When the points below k are done, their regions have been visited, and of the area what
\* is visited or below k has been counted.
Counted(s, color, acc, k) ==
    /\ acc \in [cnt : Nat, vis : SUBSET Points]
    /\ acc.vis = {q \in Points : /\ s.board_state[q] = EMPTY
                                 /\ \E x \in Chain(s.board_state, q) : x < k}
    /\ acc.cnt = Cardinality({q \in Area(s.board_state, color) :
                                  \/ s.board_state[q] = color /\ q < k
                                  \/ q \in acc.vis})

\* Which points are in the area.
LEMMA AreaIs ==
    \A board, color : \A q \in Points :
        q \in Area(board, color) <=>
            \/ board[q] = color
            \/ board[q] = EMPTY /\ Reached(board, q) \ {EMPTY} = {color}
BY DEF Area, Reached, Around

\* Every point keeps that, in the order of the points.
LEMMA ScoreSteps ==
    ASSUME NEW s, s.board_state \in [Points -> {EMPTY, BLACK, WHITE}],
           NEW color \in {BLACK, WHITE}, NEW p \in Points, NEW acc, Counted(s, color, acc, p)
    PROVE  Counted(s, color, ScoreStep(s, color, acc, p), p + 1)
<1> DEFINE B == s.board_state
           A == Area(B, color)
           t == ScoreStep(s, color, acc, p)
           Done == {q \in A : (B[q] = color /\ q < p) \/ q \in acc.vis}
           Vis == {q \in Points : B[q] = EMPTY /\ \E x \in Chain(B, q) : x < p + 1}
           Next1 == {q \in A : (B[q] = color /\ q < p + 1) \/ q \in t.vis}
<1>1. /\ acc \in [cnt : Nat, vis : SUBSET Points]
      /\ acc.vis = {q \in Points : B[q] = EMPTY /\ \E x \in Chain(B, q) : x < p}
      /\ acc.cnt = Cardinality(Done)
  BY DEF Counted
<1>2. SUFFICES /\ t \in [cnt : Nat, vis : SUBSET Points] /\ t.vis = Vis
               /\ t.cnt = Cardinality(Next1)
  BY DEF Counted
<1>3. /\ \A q \in Points : q \in Int
      /\ color # EMPTY /\ A \subseteq Points /\ IsFiniteSet(Done) /\ Done \subseteq Points
  <2>1. \A q \in Points : q \in Int  BY FinitelyManyPoints
  <2>2. color # EMPTY  BY Players
  <2>3. A \subseteq Points  BY DEF Area
  <2>4. Done \in SUBSET Points  BY <2>3
  <2> QED  BY <2>1, <2>2, <2>3, <2>4, CountPoints
<1>4. \A q \in Points : q \in A <=> \/ B[q] = color
                                    \/ B[q] = EMPTY /\ Reached(B, q) \ {EMPTY} = {color}
  BY AreaIs
<1>5. \A q \in Points : /\ Chain(B, q) \subseteq Points /\ q \in Chain(B, q)
                        /\ \A x \in Chain(B, q) : B[x] = B[q] /\ Chain(B, x) = Chain(B, q)
  BY ChainGrows, ChainsSame
<1>6. \A q \in Points : q < p + 1 <=> q < p \/ q = p  BY <1>3
<1>7. \A q \in Points : q \in Vis <=> /\ B[q] = EMPTY
                                      /\ q \in acc.vis \/ p \in Chain(B, q)
  <2> TAKE q \in Points
  <2>1. Chain(B, q) \subseteq Points  BY <1>5
  <2>2. (\E x \in Chain(B, q) : x < p + 1) <=> (\E x \in Chain(B, q) : x < p) \/ p \in Chain(B, q)
    BY <1>6, <2>1
  <2> QED  BY <1>1, <2>2
<1> HIDE DEF A, t, Vis
<1>8. CASE p \in acc.vis
  <2>1. t = acc  BY <1>8 DEF ScoreStep, t
  <2>2. B[p] = EMPTY /\ \E x \in Chain(B, p) : x < p  BY <1>1, <1>8
  <2>3. \A q \in Points : p \in Chain(B, q) => q \in acc.vis
    <3> TAKE q \in Points
    <3> HAVE p \in Chain(B, q)
    <3>1. Chain(B, p) = Chain(B, q) /\ B[q] = EMPTY  BY <1>5, <2>2
    <3> QED  BY <1>1, <2>2, <3>1
  <2>4. Vis = acc.vis
    <3>1. \A q \in acc.vis : q \in Points /\ B[q] = EMPTY  BY <1>1
    <3>2. Vis \subseteq Points  BY DEF Vis
    <3> QED  BY <1>7, <2>3, <3>1, <3>2
  <2>5. Next1 = Done
    <3>1. \A q \in A : B[q] = color => q # p  BY <1>3, <2>2
    <3> QED  BY <1>3, <1>6, <2>1, <3>1
  <2> HIDE DEF Next1, Done
  <2> QED  BY <1>1, <2>1, <2>4, <2>5
<1>9. CASE p \notin acc.vis /\ B[p] # EMPTY
  <2>1. \A q \in Points : B[q] = EMPTY => p \notin Chain(B, q)  BY <1>5, <1>9
  <2>2. Vis = acc.vis
    <3>1. \A q \in acc.vis : q \in Points /\ B[q] = EMPTY  BY <1>1
    <3>2. Vis \subseteq Points  BY DEF Vis
    <3> QED  BY <1>7, <2>1, <3>1, <3>2
  <2>3. CASE B[p] = color
    <3>1. t = [acc EXCEPT !.cnt = @ + 1]  BY <1>9, <2>3 DEF ScoreStep, t
    <3>2. t.cnt = acc.cnt + 1 /\ t.vis = acc.vis /\ t \in [cnt : Nat, vis : SUBSET Points]
      BY <1>1, <3>1
    <3>3. Next1 = Done \cup {p}
      <4>1. p \in A  BY <1>4, <2>3
      <4> QED  BY <1>3, <1>6, <2>3, <3>2, <4>1
    <3>4. p \notin Done
      <4>1. ~(p < p)  BY <1>3
      <4> QED  BY <1>9, <4>1
    <3> HIDE DEF Next1, Done
    <3>5. Cardinality(Next1) = Cardinality(Done) + 1  BY <1>3, <3>3, <3>4, FS_AddElement
    <3> QED  BY <1>1, <2>2, <3>2, <3>5
  <2>4. CASE B[p] # color
    <3>1. t = acc  BY <1>9, <2>4 DEF ScoreStep, t
    <3>2. Next1 = Done
      <4>1. \A q \in A : B[q] = color => q # p  BY <2>4
      <4> QED  BY <1>3, <1>6, <3>1, <4>1
    <3> HIDE DEF Next1, Done
    <3> QED  BY <1>1, <2>2, <3>1, <3>2
  <2> QED  BY <2>3, <2>4
<1>10. CASE p \notin acc.vis /\ B[p] = EMPTY
  <2> DEFINE C == Chain(B, p)
             new == IF Reached(B, p) \ {EMPTY} = {color} THEN Cardinality(C) ELSE 0
  <2>1. NewRegion(s, p, acc.vis)
    <3>1. acc.vis \cap C = {}
      <4> SUFFICES ASSUME NEW y \in acc.vis, y \in C  PROVE FALSE
        OBVIOUS
      <4>1. Chain(B, y) = C  BY <1>5
      <4>2. \E x \in C : x < p  BY <1>1, <4>1
      <4> QED  BY <1>1, <1>10, <4>2
    <3>2. \A q \in acc.vis : B[q] = EMPTY  BY <1>1
    <3> QED  BY <1>1, <1>10, <3>1, <3>2 DEF NewRegion
  <2>2. CalcRegionScore(s, p, color, acc.vis) = [cnt |-> new, vis |-> acc.vis \cup C]
    BY <2>1, RegionScoreIs
  <2>3. t = [cnt |-> acc.cnt + CalcRegionScore(s, p, color, acc.vis).cnt,
             vis |-> CalcRegionScore(s, p, color, acc.vis).vis]
    BY <1>3, <1>10 DEF ScoreStep, t
  <2>4. t = [cnt |-> acc.cnt + new, vis |-> acc.vis \cup C]
    <3> HIDE DEF new
    <3> QED  BY <2>2, <2>3
  <2>5. /\ C \subseteq Points /\ IsFiniteSet(C) /\ Cardinality(C) \in Nat
        /\ acc.vis \cap C = {}
    BY <1>5, <2>1, CountPoints DEF NewRegion
  <2>6. new \in Nat  BY <2>5
  <2>7. t.cnt = acc.cnt + new /\ t.vis = acc.vis \cup C
        /\ t \in [cnt : Nat, vis : SUBSET Points]
    <3> HIDE DEF new
    <3> QED  BY <1>1, <2>4, <2>5, <2>6
  <2>8. \A q \in Points : p \in Chain(B, q) <=> q \in C
    <3> TAKE q \in Points
    <3>1. p \in Chain(B, q) => Chain(B, p) = Chain(B, q)  BY <1>5
    <3>2. q \in C => Chain(B, q) = C  BY <1>5
    <3> QED  BY <1>5, <3>1, <3>2
  <2>9. \A q \in C : B[q] = EMPTY /\ q \in Points /\ Reached(B, q) = Reached(B, p)
    <3> TAKE q \in C
    <3>1. B[q] = EMPTY /\ q \in Points /\ Chain(B, q) = Chain(B, p)  BY <1>5, <1>10
    <3> QED  BY <3>1 DEF Reached
  <2>10. Vis = acc.vis \cup C
    <3>1. \A q \in acc.vis : q \in Points /\ B[q] = EMPTY  BY <1>1
    <3>2. Vis \subseteq Points  BY DEF Vis
    <3> HIDE DEF C
    <3> QED  BY <1>7, <2>5, <2>8, <2>9, <3>1, <3>2
  <2>11. Next1 = Done \cup (C \cap A)
    <3>1. \A q \in A : B[q] = color => q # p  BY <1>3, <1>10
    <3> HIDE DEF C
    <3> QED  BY <1>3, <1>6, <2>7, <3>1
  <2>12. Done \cap (C \cap A) = {}
    <3>1. \A q \in C : B[q] # color /\ q \notin acc.vis  BY <1>3, <2>5, <2>9
    <3> HIDE DEF C
    <3> QED  BY <3>1
  <2>13. C \cap A = IF Reached(B, p) \ {EMPTY} = {color} THEN C ELSE {}
    <3>1. \A q \in C : q \in A <=> Reached(B, p) \ {EMPTY} = {color}
      BY <1>3, <1>4, <2>9
    <3> HIDE DEF C
    <3> QED  BY <3>1
  <2>14. Cardinality(C \cap A) = new /\ IsFiniteSet(C \cap A)
    BY <2>5, <2>13, FS_EmptySet
  <2>15. Cardinality(Next1) = Cardinality(Done) + new
    <3> HIDE DEF Next1, Done, new, C
    <3>1. Cardinality(Done \cup (C \cap A)) =
             Cardinality(Done) + Cardinality(C \cap A) - Cardinality(Done \cap (C \cap A))
      BY <1>3, <2>14, FS_Union
    <3>2. Cardinality(Done \cap (C \cap A)) = 0  BY <2>12, FS_EmptySet
    <3>3. Cardinality(Done) \in Nat  BY <1>3, FS_CardinalityType
    <3> QED  BY <2>6, <2>11, <2>14, <3>1, <3>2, <3>3
  <2> HIDE DEF Next1, Done, new, C
  <2> QED  BY <1>1, <2>7, <2>10, <2>15
<1> QED  BY <1>8, <1>9, <1>10

\* So CalcScoreWithColor() counts the area.
LEMMA ScoreCountsArea ==
    ASSUME NEW s, s.board_state \in [Points -> {EMPTY, BLACK, WHITE}],
           NEW color \in {BLACK, WHITE}
    PROVE  /\ CalcScoreWithColor(s, color) = Cardinality(Area(s.board_state, color))
           /\ Cardinality(Area(s.board_state, color)) \in Nat
<1> DEFINE N == Rows * Columns
           r == ScoringEnd(s, color)
           b == [cnt |-> 0, vis |-> {}]
           A == Area(s.board_state, color)
<1>1. CalcScoreWithColor(s, color) = r.cnt  BY ScoringIter
<1>2. PICK at : /\ at[0] = b /\ at[N] = r
                /\ \A k \in 0 .. N - 1 : at[k + 1] = ScoreStep(s, color, at[k], k)
  BY ScoringSteps
<1>3. N \in Nat /\ Points = 0 .. N - 1  BY FinitelyManyPoints DEF Points
<1>4. A \subseteq Points  BY DEF Area
<1>5. \A q \in Points : /\ Chain(s.board_state, q) \subseteq Points
                        /\ q \in Chain(s.board_state, q)
  BY ChainGrows
<1> HIDE DEF N, r
<1> DEFINE T == {k \in Nat : k <= N => Counted(s, color, at[k], k)}
<1>6. 0 \in T
  <2>1. b \in [cnt : Nat, vis : SUBSET Points] /\ b.cnt = 0 /\ b.vis = {}  OBVIOUS
  <2>2. \A x \in Points : ~(x < 0)  BY <1>3
  <2>3. {q \in Points : /\ s.board_state[q] = EMPTY
                        /\ \E x \in Chain(s.board_state, q) : x < 0} = {}
    BY <1>5, <2>2
  <2>4. {q \in A : (s.board_state[q] = color /\ q < 0) \/ q \in b.vis} = {}
    BY <1>4, <2>1, <2>2
  <2> HIDE DEF b, A
  <2>5. Cardinality({q \in A : (s.board_state[q] = color /\ q < 0) \/ q \in b.vis}) = 0
    BY <2>4, FS_EmptySet
  <2>6. Counted(s, color, b, 0)  BY <2>1, <2>3, <2>5 DEF Counted, A
  <2> QED  BY <1>2, <2>6
<1>7. ASSUME NEW k \in Nat, k \in T  PROVE k + 1 \in T
  <2> SUFFICES ASSUME k + 1 <= N  PROVE Counted(s, color, at[k + 1], k + 1)
    OBVIOUS
  <2>1. k \in 0 .. N - 1 /\ k <= N /\ k \in Points  BY <1>3
  <2>2. at[k + 1] = ScoreStep(s, color, at[k], k) /\ Counted(s, color, at[k], k)
    BY <1>2, <1>7, <2>1
  <2> QED  BY <2>1, <2>2, ScoreSteps
<1> HIDE DEF T
<1>8. Nat \subseteq T  BY <1>6, <1>7, AllNaturals
<1>9. Counted(s, color, r, N)  BY <1>2, <1>3, <1>8 DEF T
<1>10. /\ r.vis = {q \in Points : /\ s.board_state[q] = EMPTY
                                  /\ \E x \in Chain(s.board_state, q) : x < N}
       /\ r.cnt = Cardinality({q \in A : (s.board_state[q] = color /\ q < N) \/ q \in r.vis})
  BY <1>9 DEF Counted
<1>11. \A q \in Points : q < N  BY <1>3
<1>12. {q \in A : (s.board_state[q] = color /\ q < N) \/ q \in r.vis} = A
  <2>1. \A q \in A : s.board_state[q] = color \/ s.board_state[q] = EMPTY  BY <1>4, AreaIs
  <2>2. \A q \in Points : s.board_state[q] = EMPTY => q \in r.vis  BY <1>5, <1>10, <1>11
  <2> QED  BY <1>4, <1>11, <2>1, <2>2
<1>13. Cardinality(A) \in Nat
  <2>1. A \in SUBSET Points  BY <1>4
  <2> HIDE DEF A
  <2> QED  BY <2>1, CountPoints
<1> QED  BY <1>1, <1>10, <1>12, <1>13

\* The score is the difference of the areas, and black wins with more of it than the komi,
\* for boards of every size.
THEOREM ScoreCorrect == Spec => []ScoreIsArea
<1>1. RulesInv => ScoreIsArea
  <2> SUFFICES ASSUME RulesInv  PROVE ScoreIsArea
    OBVIOUS
  <2> DEFINE area(color) == Cardinality(Area(state.board_state, color))
  <2>1. state.board_state \in [Points -> {EMPTY, BLACK, WHITE}]
    BY DEF RulesInv, IInv, IsGoState
  <2>2. \A color \in {BLACK, WHITE} :
           CalcScoreWithColor(state, color) = area(color) /\ area(color) \in Nat
    BY <2>1, ScoreCountsArea
  <2>3. CalcScore(state) = area(BLACK) - area(WHITE)  BY <2>2 DEF CalcScore
  <2>4. BLACK # WHITE  BY DEF BLACK, WHITE
  <2>5. (GetWinner(state) = BLACK) = (area(BLACK) - area(WHITE) > Komi)
    BY <2>3, <2>4 DEF GetWinner
  <2> QED  BY <2>2, <2>5 DEF ScoreIsArea
<1> QED  BY <1>1, RulesInvariance, PTL
=============================================================================
