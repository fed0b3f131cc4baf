--------------------------- MODULE SelfPlay_proofs ---------------------------
(***************************************************************************)
(* Proofs about the game record, for the three ways main() runs the        *)
(* program: the record is the game on the board, it changes by one move at *)
(* a time, the clock belongs to the player the record says, and a reloaded *)
(* configuration is taken by the next move.                                *)
(*                                                                         *)
(* Undo and clear_board replay a record, and every move follows one, so    *)
(* that what is needed of the board is what Replay does with one move more *)
(* and one move less (Boards, by induction on the number of moves) and     *)
(* that it makes GoStates whose players alternate (from GoRules_proofs).   *)
(* A move of the record that the board does not allow leaves it as it is,  *)
(* so that the moves on the board are counted by its history; as many as   *)
(* the record has are on it only if every shorter record has all of its.   *)
(* The results of self-play have an invariant of their own, which relates  *)
(* the last sample of a game to the board after its last move.             *)
(*                                                                         *)
(* At the end, the names of the moves of a record: every name of a move    *)
(* names the same move, and symmetries are undone.                         *)
(***************************************************************************)
EXTENDS SelfPlay, Coordinates, SequenceTheorems, TLAPS

\* The lemmas about GoStates.
GP == INSTANCE GoRules_proofs WITH state <- m_board, record <- m_moves_str

-----------------------------------------------------------------------------
(* The engine's board is a GoState of GoRules_proofs: the operators that   *)
(* are named here of the one are those of the other.                       *)

\* Colours and points.
LEMMA SameNames ==
    /\ Go!BLACK = GP!BLACK /\ Go!WHITE = GP!WHITE /\ Go!PASS = GP!PASS
    /\ Go!UNSET = GP!UNSET /\ Go!Points = GP!Points
    /\ \A c : Go!Opponent(c) = GP!Opponent(c)
BY DEF Go!BLACK, GP!BLACK, Go!WHITE, GP!WHITE, Go!PASS, GP!PASS, Go!UNSET, GP!UNSET,
       Go!Points, GP!Points, Go!Opponent, GP!Opponent

\* The constructor.
LEMMA SameNewGame == \A superko : Go!NewGame(superko) = GP!NewGame(superko)
BY DEF Go!NewGame, GP!NewGame, Go!Points, GP!Points, Go!BlockIds, GP!BlockIds,
       Go!NoBlock, GP!NoBlock, Go!EMPTY, GP!EMPTY, Go!UNSET, GP!UNSET, Go!BLACK, GP!BLACK

\* The list of legal moves.
LEMMA SameGetSensibleMove == \A s : Go!GetSensibleMove(s) = GP!GetSensibleMove(s)
BY DEF Go!GetSensibleMove, GP!GetSensibleMove, Go!WHITE, GP!WHITE, Go!BLACK, GP!BLACK,
       Go!LegalMoves, GP!LegalMoves, Go!GetNewHashValue, GP!GetNewHashValue,
       Go!Opponent, GP!Opponent, Go!Dying, GP!Dying, Go!Liberties, GP!Liberties,
       Go!Cardinality, GP!Cardinality, Go!Joined, GP!Joined, Go!NeighbourBlocks,
       GP!NeighbourBlocks, Go!EMPTY, GP!EMPTY, Go!Neighbours, GP!Neighbours, Go!Points,
       GP!Points, Go!GetBlockIdByCoord, GP!GetBlockIdByCoord, Go!FindCoord,
       GP!FindCoord, Go!PlayerWeights, GP!PlayerWeights, Go!UNSET, GP!UNSET, Go!Xor,
       GP!Xor, Go!PASS, GP!PASS, Go!TryMove, GP!TryMove, Go!StonesOf, GP!StonesOf,
       Go!NewBlock, GP!NewBlock, Go!Last, GP!Last, Go!GetNewBlock, GP!GetNewBlock,
       Go!Front, GP!Front, Go!NoBlock, GP!NoBlock, Go!RecycleBlock, GP!RecycleBlock

\* The hash of a move.
LEMMA SameGetNewHashValue == \A s, p : Go!GetNewHashValue(s, p) = GP!GetNewHashValue(s, p)
BY DEF Go!GetNewHashValue, GP!GetNewHashValue, Go!Opponent, GP!Opponent, Go!WHITE,
       GP!WHITE, Go!BLACK, GP!BLACK, Go!Dying, GP!Dying, Go!Liberties, GP!Liberties,
       Go!Cardinality, GP!Cardinality, Go!Joined, GP!Joined, Go!NeighbourBlocks,
       GP!NeighbourBlocks, Go!EMPTY, GP!EMPTY, Go!Neighbours, GP!Neighbours, Go!Points,
       GP!Points, Go!GetBlockIdByCoord, GP!GetBlockIdByCoord, Go!FindCoord,
       GP!FindCoord, Go!PlayerWeights, GP!PlayerWeights, Go!UNSET, GP!UNSET, Go!Xor,
       GP!Xor, Go!PASS, GP!PASS

\* The stone and the blocks it joins.
LEMMA SameMerge == \A s, p : Go!Merge(s, p) = GP!Merge(s, p)
BY DEF Go!Merge, GP!Merge, Go!RecycleBlocks, GP!RecycleBlocks, Go!Max, GP!Max,
       Go!MapThenFoldSet, GP!MapThenFoldSet, Go!RecycleBlock, GP!RecycleBlock, Go!Last,
       GP!Last, Go!NeighbourBlocks, GP!NeighbourBlocks, Go!EMPTY, GP!EMPTY,
       Go!Neighbours, GP!Neighbours, Go!Points, GP!Points, Go!GetBlockIdByCoord,
       GP!GetBlockIdByCoord, Go!FindCoord, GP!FindCoord, Go!MergedStones,
       GP!MergedStones, Go!Joined, GP!Joined, Go!TryMove, GP!TryMove, Go!Dying,
       GP!Dying, Go!Liberties, GP!Liberties, Go!Cardinality, GP!Cardinality,
       Go!BlockIds, GP!BlockIds, Go!GetNewBlock, GP!GetNewBlock, Go!Front, GP!Front,
       Go!NoBlock, GP!NoBlock, Go!NewBlock, GP!NewBlock

\* The blocks it captures.
LEMMA SameCapture == \A s, p, t : Go!Capture(s, p, t) = GP!Capture(s, p, t)
BY DEF Go!Capture, GP!Capture, Go!EMPTY, GP!EMPTY, Go!BlockIds, GP!BlockIds, Go!Points,
       GP!Points, Go!RecycleBlocks, GP!RecycleBlocks, Go!Max, GP!Max, Go!MapThenFoldSet,
       GP!MapThenFoldSet, Go!RecycleBlock, GP!RecycleBlock, Go!GetBlockIdByCoord,
       GP!GetBlockIdByCoord, Go!FindCoord, GP!FindCoord, Go!Neighbours, GP!Neighbours,
       Go!Dying, GP!Dying, Go!Liberties, GP!Liberties, Go!Cardinality, GP!Cardinality,
       Go!Joined, GP!Joined, Go!NeighbourBlocks, GP!NeighbourBlocks

\* The point a ko forbids.
LEMMA SameKoPosition == \A s, p : Go!KoPosition(s, p) = GP!KoPosition(s, p)
BY DEF Go!KoPosition, GP!KoPosition, Go!UNSET, GP!UNSET, Go!Liberties, GP!Liberties,
       Go!Cardinality, GP!Cardinality, Go!Size, GP!Size, Go!Dying, GP!Dying, Go!Joined,
       GP!Joined, Go!NeighbourBlocks, GP!NeighbourBlocks, Go!EMPTY, GP!EMPTY,
       Go!Neighbours, GP!Neighbours, Go!Points, GP!Points, Go!GetBlockIdByCoord,
       GP!GetBlockIdByCoord, Go!FindCoord, GP!FindCoord, Go!TryMove, GP!TryMove

\* The liberties that are stored for the features.
LEMMA SameLibertyCounts == \A s, p, t : Go!LibertyCounts(s, p, t) = GP!LibertyCounts(s, p, t)
BY DEF Go!LibertyCounts, GP!LibertyCounts, Go!ToSet, GP!ToSet, Go!Liberties,
       GP!Liberties, Go!Cardinality, GP!Cardinality, Go!GetBlockIdByCoord,
       GP!GetBlockIdByCoord, Go!FindCoord, GP!FindCoord, Go!NeighbourBlocks,
       GP!NeighbourBlocks, Go!EMPTY, GP!EMPTY, Go!Neighbours, GP!Neighbours, Go!Points,
       GP!Points

\* The end of a move.
LEMMA SameEndMove == \A s : Go!EndMove(s) = GP!EndMove(s)
BY SameGetSensibleMove, SameNames DEF Go!EndMove, GP!EndMove

\* A pass.
LEMMA SamePass == \A s : Go!Pass(s) = GP!Pass(s)
<1> SUFFICES ASSUME NEW s  PROVE Go!Pass(s) = GP!Pass(s)
  OBVIOUS
<1> DEFINE passed(pass, unset, hash) ==
             [s EXCEPT !.is_double_pass = s.last_position = pass, !.last_position = pass,
                       !.ko_position = unset, !.zobrist_hash = hash]
<1>1. Go!Pass(s) = Go!EndMove(passed(Go!PASS, Go!UNSET, Go!GetNewHashValue(s, Go!PASS)))
  BY DEF Go!Pass
<1>2. GP!Pass(s) = GP!EndMove(passed(GP!PASS, GP!UNSET, GP!GetNewHashValue(s, GP!PASS)))
  BY DEF GP!Pass
<1> HIDE DEF passed
<1> QED  BY <1>1, <1>2, SameEndMove, SameGetNewHashValue, SameNames

\* A stone.
LEMMA SamePlace == \A s, p : Go!Place(s, p) = GP!Place(s, p)
<1> SUFFICES ASSUME NEW s, NEW p  PROVE Go!Place(s, p) = GP!Place(s, p)
  OBVIOUS
<1> DEFINE placed(t, ko, hash, counts) ==
             [t EXCEPT !.is_double_pass = FALSE, !.last_position = p, !.ko_position = ko,
                       !.zobrist_hash = hash, !.liberty_count = counts,
                       !.board_state[p] = s.current_player]
           t == Go!Capture(s, p, Go!Merge(s, p))
           u == GP!Capture(s, p, GP!Merge(s, p))
<1>1. Go!Place(s, p) = Go!EndMove(placed(t, Go!KoPosition(s, p), Go!GetNewHashValue(s, p),
                                         Go!LibertyCounts(s, p, t)))
  BY DEF Go!Place
<1>2. GP!Place(s, p) = GP!EndMove(placed(u, GP!KoPosition(s, p), GP!GetNewHashValue(s, p),
                                         GP!LibertyCounts(s, p, u)))
  BY DEF GP!Place
<1> HIDE DEF placed
<1>3. t = u  BY SameCapture, SameMerge
<1> HIDE DEF t, u
<1> QED
  BY <1>1, <1>2, <1>3, SameEndMove, SameGetNewHashValue, SameKoPosition, SameLibertyCounts

\* Two planes more in the history are one move more on the board.
LEMMA OneMoreMove ==
    ASSUME NEW S, NEW l \in Seq(S), NEW black \in S, NEW white \in S
    PROVE  /\ Len(l) \div 2 \in Nat
           /\ Len(l \o <<black, white>>) \div 2 = (Len(l) \div 2) + 1
<1>1. <<black, white>> \in Seq(S) /\ Len(<<black, white>>) = 2  OBVIOUS
<1>2. Len(l) \in Nat /\ Len(l \o <<black, white>>) = Len(l) + 2  BY <1>1
<1>3. \A n \in Nat : n \div 2 \in Nat /\ (n + 2) \div 2 = (n \div 2) + 1  OBVIOUS
<1> QED  BY <1>2, <1>3

\* What follows a GoState has one move more.
LEMMA FollowsPlayed ==
    ASSUME NEW s, GP!IsGoState(s), NEW t, GP!Follows(s, t)
    PROVE  MovesPlayed(s) \in Nat /\ MovesPlayed(t) = MovesPlayed(s) + 1
<1>1. t.board_state \in [GP!Points -> {GP!EMPTY, GP!BLACK, GP!WHITE}]
  BY DEF GP!Follows, GP!IsGoState
<1> DEFINE l == s.feature_history_list
           black == GP!StonesOf(t, GP!BLACK)
           white == GP!StonesOf(t, GP!WHITE)
<1>2. l \in Seq(SUBSET GP!Points)  BY DEF GP!IsGoState
<1>3. black \in SUBSET GP!Points /\ white \in SUBSET GP!Points  BY DEF GP!StonesOf
<1>4. t.feature_history_list = l \o <<black, white>>  BY DEF GP!Follows
<1> HIDE DEF black, white, l
<1>5. Len(l) \div 2 \in Nat /\ Len(l \o <<black, white>>) \div 2 = (Len(l) \div 2) + 1
  BY <1>2, <1>3, OneMoreMove
<1> QED  BY <1>4, <1>5 DEF MovesPlayed, l

\* A move of the record leads from GoState to GoState, under the same rules.  If the board
\* allows it, the players alternate and there is one move more; if not, nothing happens.
LEMMA MoveOnFollows ==
    ASSUME NEW s, GP!IsGoState(s), NEW p \in Go!Points \cup {Go!PASS}
    PROVE  LET t == MoveOn(s, p)
           IN  /\ GP!IsGoState(t)
               /\ t.positional_superko = s.positional_superko
               /\ MovesPlayed(s) \in Nat
               /\ ~Go!IsLegal(s, p) => t = s
               /\ Go!IsLegal(s, p) =>
                     /\ MovesPlayed(t) = MovesPlayed(s) + 1
                     /\ t.current_player = Go!Opponent(s.current_player)
<1> DEFINE t == IF p = Go!PASS THEN Go!Pass(s) ELSE Go!Place(s, p)
<1>1. GP!Follows(s, t)
  <2>1. CASE p = Go!PASS
    <3>1. GP!Follows(s, GP!Pass(s))  BY GP!PassFollows, GtpAssumption
    <3> QED  BY <2>1, <3>1, SamePass
  <2>2. CASE p # Go!PASS
    <3>1. p \in GP!Points  BY <2>2, SameNames
    <3>2. GP!Follows(s, GP!Place(s, p))  BY <3>1, GP!PlaceFollows, GtpAssumption
    <3> QED  BY <2>2, <3>2, SamePlace
  <2> QED  BY <2>1, <2>2
<1>2. MoveOn(s, p) = IF Go!IsLegal(s, p) THEN t ELSE s  BY DEF MoveOn
<1> HIDE DEF t
<1>3. MovesPlayed(s) \in Nat /\ MovesPlayed(t) = MovesPlayed(s) + 1  BY <1>1, FollowsPlayed
<1>4. /\ GP!IsGoState(t) /\ t.positional_superko = s.positional_superko
      /\ t.current_player = Go!Opponent(s.current_player)
  BY <1>1, SameNames DEF GP!Follows
<1> QED  BY <1>2, <1>3, <1>4

\* What holds of a GoState's members.
LEMMA GoStateMembers ==
    ASSUME NEW s, GP!IsGoState(s)
    PROVE  s.current_player \in {Go!BLACK, Go!WHITE} /\ s.legal_move_map \in SUBSET Go!Points
BY SameNames DEF GP!IsGoState

-----------------------------------------------------------------------------
(* Replaying a record.                                                     *)

RecordedMoves == Go!Points \cup {Go!PASS}

\* The boards after the first k moves.
Boards(superko, moves, k, f) ==
    f = [n \in 0..k |-> IF n = 0 THEN Go!NewGame(superko) ELSE MoveOn(f[n - 1], moves[n])]

\* There are boards after any number of moves.
LEMMA BoardsExist == \A superko, moves : \A k \in Nat : \E f : Boards(superko, moves, k, f)
<1> SUFFICES ASSUME NEW superko, NEW moves  PROVE \A k \in Nat : \E f : Boards(superko, moves, k, f)
  OBVIOUS
<1> DEFINE T == {k \in Nat : \E f : Boards(superko, moves, k, f)}
<1>1. 0 \in T
  <2>1. Boards(superko, moves, 0, [n \in 0..0 |-> Go!NewGame(superko)])  BY DEF Boards
  <2> QED  BY <2>1
<1>2. ASSUME NEW k \in Nat, k \in T  PROVE k + 1 \in T
  <2>1. PICK f : Boards(superko, moves, k, f)  BY <1>2
  <2> DEFINE g == [n \in 0..k + 1 |-> IF n = k + 1 THEN MoveOn(f[k], moves[k + 1]) ELSE f[n]]
  <2>2. \A n \in 0..k : f[n] = IF n = 0 THEN Go!NewGame(superko) ELSE MoveOn(f[n - 1], moves[n])
    BY <2>1 DEF Boards
  <2>3. ASSUME NEW n \in 0..k + 1
        PROVE  g[n] = IF n = 0 THEN Go!NewGame(superko) ELSE MoveOn(g[n - 1], moves[n])
    <3>1. CASE n = k + 1
      <4>1. g[n - 1] = f[k] /\ n # 0  BY <3>1
      <4> QED  BY <3>1, <4>1
    <3>2. CASE n \in 0..k
      <4>1. g[n] = f[n]  BY <3>2
      <4>2. n # 0 => g[n - 1] = f[n - 1]  BY <3>2
      <4> HIDE DEF g
      <4> QED  BY <2>2, <3>2, <4>1, <4>2
    <3>3. n = k + 1 \/ n \in 0..k  OBVIOUS
    <3> HIDE DEF g
    <3> QED  BY <3>1, <3>2, <3>3
  <2>4. g = [n \in 0..k + 1 |-> g[n]]  OBVIOUS
  <2> HIDE DEF g
  <2>5. Boards(superko, moves, k + 1, g)  BY <2>3, <2>4 DEF Boards
  <2> QED  BY <2>5
<1> HIDE DEF T
<1>3. Nat \subseteq T  BY <1>1, <1>2, GP!AllNaturals, GtpAssumption
<1> QED  BY <1>3 DEF T

\* Replay(superko, ) by its boards.
LEMMA ReplayBoards ==
    ASSUME NEW superko, NEW moves, Len(moves) \in Nat
    PROVE  \E f : Boards(superko, moves, Len(moves), f) /\ Replay(superko, moves) = f[Len(moves)]
<1> DEFINE f == CHOOSE f : Boards(superko, moves, Len(moves), f)
<1>1. Boards(superko, moves, Len(moves), f)  BY BoardsExist
<1>2. Replay(superko, moves) = f[Len(moves)]  BY DEF Replay, Boards
<1> HIDE DEF f
<1> QED  BY <1>1, <1>2

\* Records that are alike but for a last move have the same boards before it.
LEMMA BoardsAgree ==
    ASSUME NEW superko, NEW m1, NEW m2, NEW k \in Nat, \A n \in 1..k : m1[n] = m2[n],
           NEW f1, Boards(superko, m1, k, f1), NEW f2, Boards(superko, m2, k + 1, f2)
    PROVE  f1[k] = f2[k]
<1> DEFINE T == {n \in Nat : n <= k => f1[n] = f2[n]}
<1>1. 0 \in T  BY DEF Boards
<1>2. ASSUME NEW n \in Nat, n \in T  PROVE n + 1 \in T
  <2> SUFFICES ASSUME n + 1 <= k  PROVE f1[n + 1] = f2[n + 1]
    OBVIOUS
  <2>1. f1[n] = f2[n]  BY <1>2
  <2>2. m1[n + 1] = m2[n + 1]  OBVIOUS
  <2>3. n + 1 \in 0..k /\ n + 1 \in 0..k + 1 /\ n + 1 # 0 /\ (n + 1) - 1 = n  OBVIOUS
  <2>4. f1[n + 1] = MoveOn(f1[n], m1[n + 1])
    BY <2>3 DEF Boards
  <2>5. f2[n + 1] = MoveOn(f2[n], m2[n + 1])
    BY <2>3 DEF Boards
  <2> QED  BY <2>1, <2>2, <2>4, <2>5
<1> HIDE DEF T
<1>3. Nat \subseteq T  BY <1>1, <1>2, GP!AllNaturals, GtpAssumption
<1> QED  BY <1>3 DEF T

\* Replaying one move more is the move on the replayed board.
LEMMA ReplayAppend ==
    ASSUME NEW superko, NEW moves \in Seq(RecordedMoves), NEW p \in RecordedMoves
    PROVE  Replay(superko, Append(moves, p)) = MoveOn(Replay(superko, moves), p)
<1> DEFINE more == Append(moves, p)
           L == Len(moves)
<1>1. /\ L \in Nat /\ Len(more) = L + 1 /\ more[L + 1] = p
      /\ \A n \in 1..L : more[n] = moves[n]
  OBVIOUS
<1> HIDE DEF more, L
<1>2. PICK f : Boards(superko, moves, L, f) /\ Replay(superko, moves) = f[L]
  BY <1>1, ReplayBoards DEF L
<1>3. PICK g : Boards(superko, more, L + 1, g) /\ Replay(superko, more) = g[L + 1]
  BY <1>1, ReplayBoards
<1>4. f[L] = g[L]
  <2>1. \A n \in 1..L : moves[n] = more[n]  BY <1>1
  <2> QED  BY <1>1, <1>2, <1>3, <2>1, BoardsAgree
<1>5. L + 1 \in 0..L + 1 /\ L + 1 # 0 /\ (L + 1) - 1 = L  BY <1>1
<1>6. g[L + 1] = MoveOn(g[L], more[L + 1])
  BY <1>3, <1>5 DEF Boards
<1> QED  BY <1>1, <1>2, <1>3, <1>4, <1>6 DEF more

\* A record without moves.
LEMMA ReplayEmpty == \A superko : Replay(superko, <<>>) = Go!NewGame(superko)
<1> SUFFICES ASSUME NEW superko  PROVE Replay(superko, <<>>) = Go!NewGame(superko)
  OBVIOUS
<1>1. Len(<<>>) = 0  OBVIOUS
<1>2. PICK f : Boards(superko, <<>>, 0, f) /\ Replay(superko, <<>>) = f[0]  BY <1>1, ReplayBoards
<1> QED  BY <1>2 DEF Boards

\* The player to move on a board after n moves.
ToMove(n) == IF n % 2 = 0 THEN Go!BLACK ELSE Go!WHITE

\* Replaying gives a GoState with the rules it was asked for, with no more moves than the
\* record has, and with the player to move that the number of its moves says.
LEMMA ReplayIsGoState ==
    ASSUME NEW superko \in BOOLEAN, NEW moves \in Seq(RecordedMoves)
    PROVE  LET board == Replay(superko, moves)
           IN  /\ GP!IsGoState(board)
               /\ board.positional_superko = superko
               /\ MovesPlayed(board) \in 0 .. Len(moves)
               /\ board.current_player = ToMove(MovesPlayed(board))
<1> DEFINE L == Len(moves)
           Good(board, n) ==
             /\ GP!IsGoState(board)
             /\ board.positional_superko = superko
             /\ MovesPlayed(board) \in 0..n
             /\ board.current_player = ToMove(MovesPlayed(board))
<1>1. L \in Nat /\ \A n \in 1..L : moves[n] \in RecordedMoves  OBVIOUS
<1>2. PICK f : Boards(superko, moves, L, f) /\ Replay(superko, moves) = f[L]
  BY <1>1, ReplayBoards
<1> HIDE DEF L
<1> DEFINE T == {n \in Nat : n <= L => Good(f[n], n)}
<1>3. 0 \in T
  <2>1. f[0] = GP!NewGame(superko)  BY <1>1, <1>2, SameNewGame DEF Boards
  <2>2. GP!IsGoState(f[0])  BY <2>1, GP!NewGameIsGoState, GtpAssumption
  <2>3. /\ f[0].current_player = Go!BLACK /\ f[0].positional_superko = superko
        /\ f[0].feature_history_list = <<>>
    BY <2>1, SameNames DEF GP!NewGame
  <2>4. Len(<<>>) = 0 /\ 0 \div 2 = 0 /\ 0 % 2 = 0  OBVIOUS
  <2>5. MovesPlayed(f[0]) = 0  BY <2>3, <2>4 DEF MovesPlayed
  <2> QED  BY <2>2, <2>3, <2>4, <2>5 DEF ToMove
<1>4. ASSUME NEW n \in Nat, n \in T  PROVE n + 1 \in T
  <2> SUFFICES ASSUME n + 1 <= L  PROVE Good(f[n + 1], n + 1)
    OBVIOUS
  <2>1. Good(f[n], n)  BY <1>1, <1>4
  <2>2. n + 1 \in 0..L /\ n + 1 # 0 /\ (n + 1) - 1 = n /\ n + 1 \in 1..L  BY <1>1
  <2>3. f[n + 1] = MoveOn(f[n], moves[n + 1])
    BY <1>2, <2>2 DEF Boards
  <2>4. moves[n + 1] \in Go!Points \cup {Go!PASS}  BY <1>1, <2>2 DEF RecordedMoves
  <2>5. /\ GP!IsGoState(f[n + 1])
        /\ f[n + 1].positional_superko = f[n].positional_superko
        /\ \/ f[n + 1] = f[n]
           \/ /\ MovesPlayed(f[n + 1]) = MovesPlayed(f[n]) + 1
              /\ f[n + 1].current_player = Go!Opponent(f[n].current_player)
    BY <2>1, <2>3, <2>4, MoveOnFollows
  <2>6. ASSUME NEW k \in Nat  PROVE Go!Opponent(ToMove(k)) = ToMove(k + 1)
    BY DEF ToMove, Go!Opponent, Go!BLACK, Go!WHITE
  <2>7. CASE f[n + 1] = f[n]
    <3>1. MovesPlayed(f[n]) \in 0..n + 1  BY <2>1
    <3> QED  BY <2>1, <2>7, <3>1
  <2>8. CASE /\ MovesPlayed(f[n + 1]) = MovesPlayed(f[n]) + 1
             /\ f[n + 1].current_player = Go!Opponent(f[n].current_player)
    <3>1. MovesPlayed(f[n]) \in Nat /\ MovesPlayed(f[n]) + 1 \in 0..n + 1  BY <2>1
    <3>2. f[n + 1].current_player = ToMove(MovesPlayed(f[n + 1]))
      BY <2>1, <2>6, <2>8, <3>1
    <3> QED  BY <2>1, <2>5, <2>8, <3>1, <3>2
  <2> QED  BY <2>5, <2>7, <2>8
<1> HIDE DEF T
<1>5. Nat \subseteq T  BY <1>3, <1>4, GP!AllNaturals, GtpAssumption
<1>6. L \in T  BY <1>1, <1>5
<1> QED  BY <1>1, <1>2, <1>6 DEF T, L

\* If all moves of a record are on the board, then so are those of the record without the
\* last.
LEMMA ShorterRecordPlayed ==
    ASSUME NEW superko \in BOOLEAN, NEW moves \in Seq(RecordedMoves), NEW p \in RecordedMoves,
           MovesPlayed(Replay(superko, Append(moves, p))) = Len(Append(moves, p))
    PROVE  MovesPlayed(Replay(superko, moves)) = Len(moves)
<1> DEFINE board == Replay(superko, moves)
<1>1. Len(moves) \in Nat /\ Len(Append(moves, p)) = Len(moves) + 1  OBVIOUS
<1>2. Replay(superko, Append(moves, p)) = MoveOn(board, p)  BY ReplayAppend
<1>3. GP!IsGoState(board) /\ MovesPlayed(board) \in 0 .. Len(moves)  BY ReplayIsGoState
<1>4. \/ MovesPlayed(MoveOn(board, p)) = MovesPlayed(board)
      \/ MovesPlayed(MoveOn(board, p)) = MovesPlayed(board) + 1
  BY <1>3, MoveOnFollows DEF RecordedMoves
<1> HIDE DEF board
<1>5. \A k, n \in Nat : (k <= n /\ (n + 1 = k \/ n + 1 = k + 1)) => k = n  OBVIOUS
<1> QED  BY <1>1, <1>2, <1>3, <1>4, <1>5 DEF board

-----------------------------------------------------------------------------
(* The inductive invariant.                                                *)

\* What the GTP thread does between two commands and within one.
Between == [at : {"idle", "hung", "aborted", "thinking"}]
Within == [at : {"reload", "parse", "compare", "moving"},
           todo : Seq(RecordedMoves \cup {RESIGN}), genmove : BOOLEAN]

Types ==
    /\ m_config \in Fields
    /\ g_config \in Fields \cup {NULL}
    /\ m_pending_config \in Fields \cup {NULL}
    /\ m_board.positional_superko \in BOOLEAN
    /\ m_moves_str \in Seq(RecordedMoves)
    /\ m_byo_yomi_timer \in [enable : BOOLEAN, curr_player : {Go!BLACK, Go!WHITE}]
    /\ replayed \in Nat
    /\ gtp \in Between \cup Within

\* There is a move to come after a reload, and so a Move() that takes what is pending.
PendingHasMove ==
    /\ gtp.at \in {"reload", "parse", "compare"} => gtp.todo # <<>> \/ gtp.genmove
    /\ ~resigned =>
          /\ gtp.at = "idle" => m_pending_config = NULL
          /\ gtp.at = "moving" /\ gtp.todo = <<>> /\ ~gtp.genmove => m_pending_config = NULL

IInv == Types /\ RecordIsGame /\ ClockOfPlayerToMove /\ PendingHasMove

\* The player to move, from the moves on the board.
LEMMA PlayerToMove ==
    IInv => /\ GP!IsGoState(m_board)
            /\ m_board.current_player \in {Go!BLACK, Go!WHITE}
            /\ MovesPlayed(m_board) \in Nat
            /\ m_board.current_player = ToMove(MovesPlayed(m_board))
            /\ m_board.legal_move_map \in SUBSET Go!Points
BY ReplayIsGoState, GoStateMembers DEF IInv, Types, RecordIsGame

\* Two letters a move and commas between them: so many moves are read back, ...
LEMMA LengthOfText == \A n \in Nat : MovesIn(TextLength(n)) = n
BY DEF MovesIn, TextLength

\* ... and three characters less are one move less, unless it is the only one.
LEMMA CutOne ==
    ASSUME NEW moves \in Seq(RecordedMoves), moves # <<>>
    PROVE  LET cut == Cut(moves, TextLength(Len(moves)) - 3)
           IN  /\ cut \in Seq(RecordedMoves)
               /\ cut = moves \/ moves = Append(cut, moves[Len(moves)])
               /\ moves[Len(moves)] \in RecordedMoves
<1> DEFINE n == Len(moves)
           cut == SubSeq(moves, 1, n - 1)
<1>1. n \in Nat /\ n # 0 /\ moves[n] \in RecordedMoves  OBVIOUS
<1>2. CASE n = 1
  <2>1. TextLength(n) - 3 < 0  BY <1>2 DEF TextLength
  <2> QED  BY <1>1, <2>1 DEF Cut
<1>3. CASE n # 1
  <2>1. TextLength(n) - 3 = 3 * (n - 1) - 1 /\ TextLength(n) = 3 * n - 1
    BY <1>1 DEF TextLength
  <2>2. MovesIn(TextLength(n) - 3) = n - 1  BY <1>1, <2>1 DEF MovesIn
  <2>3. ~(TextLength(n) - 3 < 0 \/ TextLength(n) - 3 >= TextLength(n))
    <3> HIDE DEF n
    <3>1. n - 1 >= 1  BY <1>1, <1>3
    <3>2. 3 * (n - 1) - 1 >= 0 /\ ~(3 * (n - 1) - 1 >= 3 * n - 1)  BY <1>1, <3>1
    <3>3. ~(3 * (n - 1) - 1 < 0)  BY <1>1, <3>2
    <3> QED  BY <2>1, <3>2, <3>3
  <2>4. Cut(moves, TextLength(n) - 3) = cut  BY <2>2, <2>3 DEF Cut
  <2>5. cut \in Seq(RecordedMoves)  BY <1>1
  <2>6. moves = Append(cut, moves[n])
    <3>1. Len(cut) = n - 1 /\ \A k \in 1..n - 1 : cut[k] = moves[k]
      <4>1. 1 \in 1..n + 1 /\ n - 1 \in 0..n  BY <1>1
      <4>2. /\ Len(cut) = IF 1 <= n - 1 THEN (n - 1) - 1 + 1 ELSE 0
            /\ \A k \in 1..(n - 1) - 1 + 1 : cut[k] = moves[1 + k - 1]
        BY <4>1, SubSeqProperties
      <4> HIDE DEF cut, n
      <4> QED  BY <1>1, <1>3, <4>2
    <3>2. Len(Append(cut, moves[n])) = n /\ Append(cut, moves[n])[n] = moves[n]
      BY <1>1, <2>5, <3>1
    <3>3. \A k \in 1..n - 1 : Append(cut, moves[n])[k] = moves[k]  BY <1>1, <2>5, <3>1
    <3>4. \A k \in 1..n : Append(cut, moves[n])[k] = moves[k]
      <4>1. \A k \in 1..n : k = n \/ k \in 1..n - 1  BY <1>1
      <4> HIDE DEF cut
      <4> QED  BY <3>2, <3>3, <4>1
    <3>5. Append(cut, moves[n]) \in Seq(RecordedMoves)  BY <1>1, <2>5
    <3> HIDE DEF cut
    <3> QED  BY <3>2, <3>4, <3>5
  <2> QED  BY <1>1, <2>4, <2>5, <2>6
<1> QED  BY <1>2, <1>3
-----------------------------------------------------------------------------
(* The steps.                                                              *)

\* What a step may do to the record.
RecordStep ==
    \/ m_moves_str' \in {<<>>, m_moves_str}
    \/ \E p \in Go!Points \cup {Go!PASS} :
          m_moves_str' = Append(m_moves_str, p) \/ m_moves_str = Append(m_moves_str', p)

\* Reset() makes the board from the record, and the clock black's.
LEMMA ResetStep ==
    ASSUME IInv, NEW moves \in Seq(RecordedMoves), Reset(moves), gtp.at = "idle",
           \/ moves \in {<<>>, m_moves_str}
           \/ \E p \in RecordedMoves : m_moves_str = Append(moves, p)
    PROVE  IInv' /\ m_moves_str' = moves
<1> DEFINE superko == ~m_config.disable_positional_superko
<1>1. /\ m_board' = Replay(superko, moves) /\ m_moves_str' = moves
      /\ replayed' = MovesPlayed(m_board')
      /\ m_byo_yomi_timer' = TimerReset
      /\ gtp' \in Between /\ gtp'.at \in {"idle", "hung"}
      /\ UNCHANGED <<configs, resigned>>
      /\ clean' = (moves = <<>> \/ (clean /\ m_board'.positional_superko = m_board.positional_superko))
  BY DEF Reset, Between, Idle
<1>2. superko \in BOOLEAN  BY DEF IInv, Types, Fields
<1> HIDE DEF superko
<1>3. /\ m_board'.positional_superko = superko
      /\ MovesPlayed(m_board') \in 0 .. Len(moves)
      /\ m_board'.current_player = ToMove(MovesPlayed(m_board'))
  BY <1>1, <1>2, ReplayIsGoState
<1>4. Len(moves) \in Nat  OBVIOUS
<1>5. m_num_moves' = Len(m_moves_str')
  <2>1. m_num_moves' = MovesIn(TextLength(Len(moves)))  BY DEF Reset
  <2> QED  BY <1>1, <1>4, <2>1, LengthOfText
<1>6. Types'
  <2>1. m_byo_yomi_timer' \in [enable : BOOLEAN, curr_player : {Go!BLACK, Go!WHITE}]
    BY <1>1 DEF TimerReset
  <2>2. replayed' \in Nat  BY <1>1, <1>3, <1>4
  <2> QED  BY <1>1, <1>2, <1>3, <2>1, <2>2 DEF IInv, Types, configs
<1>7. ASSUME clean'  PROVE MovesPlayed(m_board') = Len(moves)
  <2>1. CASE moves = <<>>
    <3>1. Len(moves) = 0  BY <2>1
    <3> QED  BY <1>3, <3>1
  <2>2. CASE clean /\ m_board'.positional_superko = m_board.positional_superko
    <3>1. MovesPlayed(Replay(superko, m_moves_str)) = Len(m_moves_str)
      BY <1>3, <2>2 DEF IInv, RecordIsGame
    <3>2. CASE moves = m_moves_str  BY <1>1, <3>1, <3>2
    <3>3. CASE \E p \in RecordedMoves : m_moves_str = Append(moves, p)
      BY <1>1, <1>2, <3>1, <3>3, ShorterRecordPlayed
    <3> QED  BY <2>1, <3>2, <3>3
  <2> QED  BY <1>1, <1>7, <2>1, <2>2
<1>8. RecordIsGame'  BY <1>1, <1>3, <1>5, <1>7 DEF RecordIsGame
<1>9. ClockOfPlayerToMove'
  <2>1. m_board'.current_player = ToMove(replayed')  BY <1>1, <1>3
  <2>2. m_byo_yomi_timer'.curr_player = Go!BLACK  BY <1>1 DEF TimerReset
  <2> QED  BY <2>1, <2>2 DEF ClockOfPlayerToMove, ToMove, Go!BLACK, Go!WHITE
<1>10. PendingHasMove'
  BY <1>1 DEF IInv, PendingHasMove, configs
<1> QED  BY <1>1, <1>6, <1>8, <1>9, <1>10 DEF IInv

\* A step that leaves the game and the player of the clock alone.
LEMMA QuietStep ==
    ASSUME IInv, UNCHANGED <<m_board, m_moves_str, m_num_moves, replayed, clean>>,
           m_config' \in Fields, g_config' \in Fields \cup {NULL},
           m_pending_config' \in Fields \cup {NULL},
           m_byo_yomi_timer' \in [enable : BOOLEAN, curr_player : {Go!BLACK, Go!WHITE}],
           m_byo_yomi_timer'.curr_player = m_byo_yomi_timer.curr_player,
           gtp' \in Between \cup Within, PendingHasMove'
    PROVE  IInv' /\ RecordStep
<1>1. Types'  BY DEF IInv, Types
<1>2. RecordIsGame'  BY DEF IInv, RecordIsGame
<1>3. ClockOfPlayerToMove'  BY DEF IInv, ClockOfPlayerToMove
<1> QED  BY <1>1, <1>2, <1>3 DEF IInv, RecordStep

\* Starting the clocks leaves the player.
LEMMA TimerStartedIsTimer ==
    ASSUME IInv
    PROVE  LET timer == TimerStarted(m_byo_yomi_timer)
           IN  /\ timer \in [enable : BOOLEAN, curr_player : {Go!BLACK, Go!WHITE}]
               /\ timer.curr_player = m_byo_yomi_timer.curr_player
BY DEF IInv, Types, TimerStarted, Fields

\* A move appends itself to the record and hands the clock over.
LEMMA MakeMoveStep ==
    ASSUME IInv, NEW move \in RecordedMoves, MakeMove(move), Go!IsLegal(m_board, move),
           gtp \in Within, gtp.at = "moving", gtp.todo # <<>>
    PROVE  IInv' /\ RecordStep
<1>1. /\ m_board' = MoveOn(m_board, move)
      /\ m_moves_str' = Append(m_moves_str, move)
      /\ m_num_moves' = m_num_moves + 1
      /\ m_byo_yomi_timer' = HandOff(TimerStarted(m_byo_yomi_timer))
      /\ m_config' = Taken /\ m_pending_config' = NULL
      /\ gtp' = [gtp EXCEPT !.todo = Tail(gtp.todo)]
      /\ UNCHANGED <<g_config, replayed, clean>>
  BY DEF MakeMove, TakePending
<1>2. /\ GP!IsGoState(m_board) /\ m_board.current_player \in {Go!BLACK, Go!WHITE}
  BY PlayerToMove
<1>3. /\ m_board'.current_player = Go!Opponent(m_board.current_player)
      /\ m_board'.positional_superko = m_board.positional_superko
      /\ MovesPlayed(m_board') = MovesPlayed(m_board) + 1
  BY <1>1, <1>2, MoveOnFollows DEF RecordedMoves
<1>4. /\ m_byo_yomi_timer' \in [enable : BOOLEAN, curr_player : {Go!BLACK, Go!WHITE}]
      /\ m_byo_yomi_timer'.curr_player = Go!Opponent(m_byo_yomi_timer.curr_player)
  BY <1>1, TimerStartedIsTimer DEF HandOff, Go!Opponent, Go!BLACK, Go!WHITE
<1>5. m_moves_str \in Seq(RecordedMoves)  BY DEF IInv, Types
<1>6. RecordIsGame'
  <2>1. Replay(m_board.positional_superko, Append(m_moves_str, move))
          = MoveOn(Replay(m_board.positional_superko, m_moves_str), move)
    BY <1>5, ReplayAppend
  <2>2. Len(Append(m_moves_str, move)) = Len(m_moves_str) + 1  BY <1>5
  <2>3. /\ m_board = Replay(m_board.positional_superko, m_moves_str)
        /\ m_num_moves = Len(m_moves_str)
        /\ clean => MovesPlayed(m_board) = Len(m_moves_str)
    BY DEF IInv, RecordIsGame
  <2>4. m_board' = Replay(m_board'.positional_superko, m_moves_str')
    BY <1>1, <1>3, <2>1, <2>3
  <2>5. m_num_moves' = Len(m_moves_str')  BY <1>1, <2>2, <2>3
  <2>6. clean' => MovesPlayed(m_board') = Len(m_moves_str')  BY <1>1, <1>3, <2>2, <2>3
  <2> QED  BY <2>4, <2>5, <2>6 DEF RecordIsGame
<1>7. ClockOfPlayerToMove'
  <2>1. m_byo_yomi_timer.curr_player \in {Go!BLACK, Go!WHITE}  BY DEF IInv, Types
  <2> QED
    BY <1>1, <1>2, <1>3, <1>4, <2>1
    DEF IInv, ClockOfPlayerToMove, Go!Opponent, Go!BLACK, Go!WHITE
<1>8. gtp' \in Within /\ gtp'.at = "moving"
  <2>1. Tail(gtp.todo) \in Seq(RecordedMoves \cup {RESIGN})  BY DEF Within
  <2> QED  BY <1>1, <2>1 DEF Within
<1>9. Types'
  <2>1. m_moves_str' \in Seq(RecordedMoves)  BY <1>1, <1>5
  <2>2. m_config' \in Fields  BY <1>1 DEF Taken, IInv, Types
  <2> QED  BY <1>1, <1>3, <1>4, <1>8, <2>1, <2>2 DEF IInv, Types
<1>10. PendingHasMove'  BY <1>1, <1>8 DEF PendingHasMove
<1>11. RecordStep  BY <1>1 DEF RecordStep, RecordedMoves
<1> QED  BY <1>6, <1>7, <1>9, <1>10, <1>11 DEF IInv
\* What is left to do of a command is known wherever the thread is within one.
LEMMA WithinCommand ==
    IInv => /\ gtp.at \in {"reload", "parse", "compare", "moving"} => gtp \in Within
            /\ gtp.at \in {"idle", "hung", "aborted", "thinking"} => gtp \in Between
BY DEF IInv, Types, Between, Within

\* What is not changed needs no proof.
LEMMA TypesHold ==
    IInv => /\ m_config \in Fields /\ g_config \in Fields \cup {NULL}
            /\ m_pending_config \in Fields \cup {NULL}
            /\ m_byo_yomi_timer \in [enable : BOOLEAN, curr_player : {Go!BLACK, Go!WHITE}]
            /\ gtp \in Between \cup Within
BY DEF IInv, Types

\* Move(): a resignation, a move on the board, or the end of the process.
LEMMA MoveStep == ASSUME IInv, Move  PROVE IInv' /\ RecordStep
<1> DEFINE move == Head(gtp.todo)
<1>1. /\ gtp.at = "moving" /\ gtp.todo # <<>> /\ gtp \in Within
  BY WithinCommand DEF Move
<1>2. /\ move \in RecordedMoves \cup {RESIGN}
      /\ Tail(gtp.todo) \in Seq(RecordedMoves \cup {RESIGN})
  BY <1>1 DEF Within
<1>3. CASE Resign
  <2>1. /\ UNCHANGED <<m_board, m_moves_str, m_num_moves, replayed, clean>>
        /\ UNCHANGED <<m_config, g_config, m_pending_config>>
        /\ m_byo_yomi_timer' = TimerStarted(m_byo_yomi_timer)
        /\ gtp' = [gtp EXCEPT !.todo = Tail(gtp.todo)] /\ resigned' = TRUE
    BY <1>3 DEF Resign, configs, game
  <2>2. gtp' \in Within /\ gtp'.at = "moving"  BY <1>1, <1>2, <2>1 DEF Within
  <2>3. PendingHasMove'  BY <2>1, <2>2 DEF PendingHasMove
  <2> QED  BY <2>1, <2>2, <2>3, TimerStartedIsTimer, TypesHold, QuietStep
<1>4. CASE Abort
  <2>1. /\ UNCHANGED <<m_board, m_moves_str, m_num_moves, replayed, clean>>
        /\ UNCHANGED <<m_config, g_config, m_pending_config>>
        /\ m_byo_yomi_timer' = TimerStarted(m_byo_yomi_timer)
        /\ gtp' = [at |-> "aborted"]
    BY <1>4 DEF Abort, configs, game
  <2>2. gtp' \in Between /\ gtp'.at = "aborted"  BY <2>1 DEF Between
  <2>3. PendingHasMove'  BY <2>2 DEF PendingHasMove
  <2> QED  BY <2>1, <2>2, <2>3, TimerStartedIsTimer, TypesHold, QuietStep
<1>5. CASE move # RESIGN /\ Go!IsLegal(m_board, move) /\ MakeMove(move)
  <2>1. move \in RecordedMoves  BY <1>2, <1>5
  <2> HIDE DEF move
  <2> QED  BY <1>1, <1>5, <2>1, MakeMoveStep
<1> QED  BY <1>3, <1>4, <1>5 DEF Move

\* A move has been chosen.
LEMMA ChosenStep ==
    ASSUME NEW move \in RecordedMoves \cup {RESIGN}, Chosen(move)
    PROVE  gtp' \in Within /\ gtp'.at = "moving" /\ gtp'.todo # <<>>
BY DEF Chosen, Within

\* GenMove() passes, searches, or does not return.
LEMMA GenMoveStep == ASSUME IInv, GenMove  PROVE IInv' /\ RecordStep
<1>1. /\ UNCHANGED <<m_board, m_moves_str, m_num_moves, replayed, clean>>
      /\ UNCHANGED <<m_config, g_config, m_pending_config>>
      /\ m_byo_yomi_timer' = TimerStarted(m_byo_yomi_timer)
  BY DEF GenMove, configs
<1>2. \/ gtp' \in Within /\ gtp'.at = "moving" /\ gtp'.todo # <<>>
      \/ gtp' \in Between /\ gtp'.at \in {"hung", "thinking"}
  <2>1. CASE Chosen(Go!PASS)
    BY <2>1, ChosenStep DEF RecordedMoves
  <2>2. CASE gtp' = [at |-> IF Hangs(m_board) THEN "hung" ELSE "thinking"]
    BY <2>2 DEF Between
  <2> QED  BY <2>1, <2>2 DEF GenMove
<1>3. PendingHasMove'  BY <1>2 DEF PendingHasMove
<1> QED  BY <1>1, <1>2, <1>3, TimerStartedIsTimer, TypesHold, QuietStep

\* The search returns a move of the board.
LEMMA GenMoveReturnStep == ASSUME IInv, GenMoveReturn  PROVE IInv' /\ RecordStep
<1>1. /\ UNCHANGED <<m_board, m_moves_str, m_num_moves, replayed, clean>>
      /\ UNCHANGED <<m_config, g_config, m_pending_config, m_byo_yomi_timer>>
  BY DEF GenMoveReturn, configs
<1>2. PICK move \in BestMoves(m_board) : Chosen(move)  BY DEF GenMoveReturn
<1>3. move \in RecordedMoves \cup {RESIGN}
  BY PlayerToMove DEF BestMoves, RecordedMoves
<1>4. gtp' \in Within /\ gtp'.at = "moving" /\ gtp'.todo # <<>>  BY <1>2, <1>3, ChosenStep
<1>5. PendingHasMove'  BY <1>4 DEF PendingHasMove
<1> QED  BY <1>1, <1>4, <1>5, TypesHold, QuietStep

\* The evaluation threads change nothing that concerns the game.
LEMMA EvalStep == ASSUME IInv, EvalTask \/ EvalRead  PROVE IInv' /\ RecordStep
<1>1. /\ UNCHANGED <<m_board, m_moves_str, m_num_moves, replayed, clean>>
      /\ UNCHANGED <<m_config, g_config, m_pending_config, m_byo_yomi_timer, gtp, resigned>>
  BY DEF EvalTask, EvalRead, configs, game
<1>2. PendingHasMove'  BY <1>1 DEF IInv, PendingHasMove
<1> QED  BY <1>1, <1>2, TypesHold, QuietStep

\* A command ends when no move of it is left.
LEMMA IdleStep ==
    ASSUME IInv, gtp.at = "moving", gtp.todo = <<>>, ~gtp.genmove, gtp' = Idle,
           UNCHANGED <<configs, game, m_byo_yomi_timer, resigned>>
    PROVE  IInv' /\ RecordStep
<1>1. /\ UNCHANGED <<m_board, m_moves_str, m_num_moves, replayed, clean>>
      /\ UNCHANGED <<m_config, g_config, m_pending_config>>
  BY DEF configs, game
<1>2. gtp' \in Between /\ gtp'.at = "idle"  BY DEF Idle, Between
<1>3. PendingHasMove'  BY <1>1, <1>2 DEF IInv, PendingHasMove
<1> QED  BY <1>1, <1>2, <1>3, TypesHold, QuietStep

\* A command that begins with moves, a reload, or a search.
LEMMA BeginStep ==
    ASSUME IInv, gtp.at = "idle", gtp' \in Within,
           gtp'.at \in {"reload", "moving"}, gtp'.todo # <<>> \/ gtp'.genmove,
           UNCHANGED <<configs, game, m_byo_yomi_timer, resigned>>
    PROVE  IInv' /\ RecordStep
<1>1. /\ UNCHANGED <<m_board, m_moves_str, m_num_moves, replayed, clean>>
      /\ UNCHANGED <<m_config, g_config, m_pending_config>>
  BY DEF configs, game
<1>2. PendingHasMove'  BY DEF PendingHasMove
<1> QED  BY <1>1, <1>2, TypesHold, QuietStep

\* The configuration is loaded again in three steps.
LEMMA ReloadStep ==
    ASSUME IInv, ReloadReset \/ ReloadParse \/ ReloadCompare
    PROVE  IInv' /\ RecordStep
<1>1. /\ UNCHANGED <<m_board, m_moves_str, m_num_moves, replayed, clean>>
      /\ UNCHANGED <<m_config, m_byo_yomi_timer>>
  BY DEF ReloadReset, ReloadParse, ReloadCompare, game
<1>2. g_config' \in Fields \cup {NULL}
  BY GtpAssumption DEF ReloadReset, ReloadParse, ReloadCompare, IInv, Types
<1>3. m_pending_config' \in Fields \cup {NULL}
  BY DEF ReloadReset, ReloadParse, ReloadCompare, IInv, Types
<1>4. gtp \in Within /\ gtp.at \in {"reload", "parse", "compare"}
  BY WithinCommand DEF ReloadReset, ReloadParse, ReloadCompare
<1>5. /\ gtp' \in Within /\ gtp'.at \in {"parse", "compare", "moving"}
      /\ gtp'.todo = gtp.todo /\ gtp'.genmove = gtp.genmove
  BY <1>4 DEF ReloadReset, ReloadParse, ReloadCompare, Within
<1>6. PendingHasMove'
  BY <1>4, <1>5 DEF IInv, PendingHasMove, Within
<1> QED  BY <1>1, <1>2, <1>3, <1>5, <1>6, TypesHold, QuietStep
\* The commands that replay a record.
LEMMA ReplayStep == ASSUME IInv, ClearBoard \/ Undo  PROVE IInv' /\ RecordStep
<1>1. CASE ClearBoard
  <2>1. Reset(<<>>) /\ gtp.at = "idle"  BY <1>1 DEF ClearBoard, Command
  <2>2. <<>> \in Seq(RecordedMoves)  OBVIOUS
  <2> QED  BY <2>1, <2>2, ResetStep DEF RecordStep
<1>2. CASE Undo
  <2> DEFINE cut == Cut(m_moves_str, TextLength(Len(m_moves_str)) - 3)
  <2>1. Reset(cut) /\ gtp.at = "idle" /\ m_num_moves # 0  BY <1>2 DEF Undo, Command
  <2>2. m_moves_str \in Seq(RecordedMoves) /\ m_moves_str # <<>>
    BY <2>1 DEF IInv, Types, RecordIsGame
  <2>3. /\ cut \in Seq(RecordedMoves)
        /\ cut = m_moves_str \/ m_moves_str = Append(cut, m_moves_str[Len(m_moves_str)])
        /\ m_moves_str[Len(m_moves_str)] \in RecordedMoves
    BY <2>2, CutOne
  <2> HIDE DEF cut
  <2>4. IInv' /\ m_moves_str' = cut  BY <2>1, <2>3, ResetStep
  <2> QED  BY <2>3, <2>4 DEF RecordStep, RecordedMoves
<1> QED  BY <1>1, <1>2

\* The commands that make moves or ask for one.
LEMMA CommandStep ==
    ASSUME IInv, TimeSettings \/ Handicap \/ Play \/ GenMoveCommand
    PROVE  IInv' /\ RecordStep
<1>1. CASE TimeSettings
  <2>1. /\ UNCHANGED <<m_board, m_moves_str, m_num_moves, replayed, clean>>
        /\ UNCHANGED <<m_config, g_config, m_pending_config, gtp, resigned>>
        /\ m_byo_yomi_timer' = [m_byo_yomi_timer EXCEPT !.enable = TRUE]
    BY <1>1 DEF TimeSettings, configs, game
  <2>2. /\ m_byo_yomi_timer' \in [enable : BOOLEAN, curr_player : {Go!BLACK, Go!WHITE}]
        /\ m_byo_yomi_timer'.curr_player = m_byo_yomi_timer.curr_player
    BY <2>1 DEF IInv, Types
  <2>3. PendingHasMove'  BY <2>1 DEF IInv, PendingHasMove
  <2> QED  BY <2>1, <2>2, <2>3, TypesHold, QuietStep
<1>2. CASE Handicap
  <2>1. PICK p, q \in Go!Points :
          gtp' = [at |-> "moving", genmove |-> FALSE,
                  todo |-> IF p = q THEN <<p>> ELSE <<p, Go!PASS, q>>]
    BY <1>2 DEF Handicap
  <2> DEFINE todo == IF p = q THEN <<p>> ELSE <<p, Go!PASS, q>>
  <2>2. todo \in Seq(RecordedMoves \cup {RESIGN}) /\ todo # <<>>
    <3>1. {p, Go!PASS, q} \subseteq RecordedMoves \cup {RESIGN}  BY DEF RecordedMoves
    <3> DEFINE S == RecordedMoves \cup {RESIGN}
    <3> HIDE DEF S
    <3>2. p \in S /\ Go!PASS \in S /\ q \in S  BY <3>1 DEF S
    <3>3. <<p>> \in Seq(S) /\ <<p>> # <<>>  BY <3>2
    <3>4. <<p, Go!PASS, q>> \in Seq(S) /\ <<p, Go!PASS, q>> # <<>>  BY <3>2
    <3> QED  BY <3>3, <3>4 DEF S
  <2> HIDE DEF todo
  <2>3. gtp' \in Within /\ gtp'.at = "moving" /\ gtp'.todo # <<>>
    BY <2>1, <2>2 DEF Within, todo
  <2> QED  BY <1>2, <2>3, BeginStep DEF Handicap, Command
<1>3. CASE Play
  <2>1. PICK color \in {Go!BLACK, Go!WHITE}, move \in Go!Points \cup {Go!PASS, RESIGN} :
          gtp' = [at |-> "reload", todo |-> Turn(color, <<move>>), genmove |-> FALSE]
    BY <1>3 DEF Play
  <2>2. /\ Turn(color, <<move>>) \in Seq(RecordedMoves \cup {RESIGN})
        /\ Turn(color, <<move>>) # <<>>
    <3>1. <<move>> \in Seq(RecordedMoves \cup {RESIGN}) /\ <<move>> # <<>>
      BY DEF RecordedMoves
    <3>2. <<Go!PASS>> \in Seq(RecordedMoves \cup {RESIGN})  BY DEF RecordedMoves
    <3>3. /\ <<Go!PASS>> \o <<move>> \in Seq(RecordedMoves \cup {RESIGN})
          /\ <<Go!PASS>> \o <<move>> # <<>>
      BY <3>1, <3>2
    <3> QED  BY <3>1, <3>3 DEF Turn
  <2>3. gtp' \in Within /\ gtp'.at = "reload" /\ gtp'.todo # <<>>
    BY <2>1, <2>2 DEF Within
  <2> QED  BY <1>3, <2>3, BeginStep DEF Play, Command
<1>4. CASE GenMoveCommand
  <2>1. PICK color \in {Go!BLACK, Go!WHITE} :
          gtp' = [at |-> "reload", todo |-> Turn(color, <<>>), genmove |-> TRUE]
    BY <1>4 DEF GenMoveCommand
  <2>2. Turn(color, <<>>) \in Seq(RecordedMoves \cup {RESIGN})
    <3>1. <<Go!PASS>> \in Seq(RecordedMoves \cup {RESIGN})  BY DEF RecordedMoves
    <3>2. <<>> \in Seq(RecordedMoves \cup {RESIGN})  OBVIOUS
    <3>3. <<Go!PASS>> \o <<>> \in Seq(RecordedMoves \cup {RESIGN})  BY <3>1, <3>2
    <3> QED  BY <3>2, <3>3 DEF Turn
  <2>3. gtp' \in Within /\ gtp'.at = "reload" /\ gtp'.genmove
    BY <2>1, <2>2 DEF Within
  <2> QED  BY <1>4, <2>3, BeginStep DEF GenMoveCommand, Command
<1> QED  BY <1>1, <1>2, <1>3, <1>4

\* The end of a command.
LEMMA AnswerStep == ASSUME IInv, Answer  PROVE IInv' /\ RecordStep
BY IdleStep DEF Answer

\* The engine is asked for a move, by self-play or once.
LEMMA AskMoveStep == ASSUME IInv, AskMove  PROVE IInv' /\ RecordStep
<1>1. gtp' = [at |-> "moving", todo |-> <<>>, genmove |-> TRUE] /\ gtp.at = "idle"
  BY DEF AskMove, Idle
<1>2. gtp' \in Within /\ gtp'.at = "moving" /\ gtp'.genmove  BY <1>1 DEF Within
<1> QED  BY <1>1, <1>2, BeginStep DEF AskMove

\* A game of self-play goes on or ends.
LEMMA RunOnceReturnStep == ASSUME IInv, RunOnceReturn  PROVE IInv' /\ RecordStep
<1>1. gtp.at = "moving" /\ gtp.todo = <<>> /\ ~gtp.genmove  BY DEF RunOnceReturn
<1> QED  BY <1>1, IdleStep DEF RunOnceReturn

\* The start: the initial moves of the configuration, or an empty board.
LEMMA MainInitIInv == MainInit => IInv
<1> SUFFICES ASSUME MainInit  PROVE IInv
  OBVIOUS
<1>1. \E superko \in BOOLEAN, moves \in Seq(RecordedMoves) :
        /\ m_board = Replay(superko, moves) /\ m_moves_str = moves /\ m_num_moves = Len(moves)
        /\ replayed = MovesPlayed(m_board)
        /\ clean => replayed = Len(moves)
  <2>0. ASSUME NEW config \in Configs \cup {DefaultConfig}
        PROVE  (~config.disable_positional_superko) \in BOOLEAN
    BY GtpAssumption DEF Fields
  <2>1. CASE flag # "selfplay"
    <3>1. m_config \in Configs /\ Init  BY <2>1 DEF MainInit, Init
    <3>2. PICK moves \in InitMoves :
            /\ m_board = Replay(~m_config.disable_positional_superko, moves)
            /\ m_moves_str = moves /\ m_num_moves = Len(moves)
            /\ replayed = MovesPlayed(m_board) /\ clean = (replayed = Len(moves))
      BY <3>1 DEF Init
    <3>3. moves \in Seq(RecordedMoves)
      <4>1. RecordedMoves = 0 .. Rows * Columns - 1 \cup {-1}
        BY DEF RecordedMoves, Go!Points, Go!PASS
      <4> QED  BY <4>1, GtpAssumption
    <3> QED  BY <2>0, <3>1, <3>2, <3>3
  <2>2. CASE flag = "selfplay"
    <3>1. <<>> \in Seq(RecordedMoves) /\ Len(<<>>) = 0  OBVIOUS
    <3>2. g_config \in Configs \cup {DefaultConfig}  BY <2>2 DEF MainInit
    <3> DEFINE superko == ~g_config.disable_positional_superko
    <3>3. superko \in BOOLEAN  BY <2>0, <3>2
    <3>4. m_board = Go!NewGame(superko) /\ m_moves_str = <<>> /\ m_num_moves = 0 /\ replayed = 0
      BY <2>2 DEF MainInit
    <3> HIDE DEF superko
    <3>5. m_board = Replay(superko, <<>>)  BY <3>4, ReplayEmpty
    <3>6. MovesPlayed(m_board) = 0
      <4>1. MovesPlayed(m_board) \in 0..0  BY <3>1, <3>3, <3>5, ReplayIsGoState
      <4> QED  BY <4>1
    <3> QED  BY <3>1, <3>3, <3>4, <3>5, <3>6
  <2> QED  BY <2>1, <2>2
<1>2. PICK superko \in BOOLEAN, moves \in Seq(RecordedMoves) :
        /\ m_board = Replay(superko, moves) /\ m_moves_str = moves /\ m_num_moves = Len(moves)
        /\ replayed = MovesPlayed(m_board)
        /\ clean => replayed = Len(moves)
  BY <1>1
<1>2a. /\ m_board.positional_superko = superko
      /\ MovesPlayed(m_board) \in Nat
      /\ m_board.current_player = ToMove(MovesPlayed(m_board))
  BY <1>2, ReplayIsGoState
<1>3. /\ m_config \in Fields /\ g_config \in Fields /\ m_pending_config = NULL
      /\ m_byo_yomi_timer = TimerReset
      /\ gtp \in Between /\ gtp.at \in {"idle", "hung"}
  <2>1. Configs \subseteq Fields /\ DefaultConfig \in Fields  BY GtpAssumption
  <2>2. [at |-> "idle"] \in Between /\ [at |-> "hung"] \in Between  BY DEF Between
  <2>3. CASE flag # "selfplay"
    <3>1. Init  BY <2>3 DEF MainInit
    <3>2. m_config \in Fields /\ g_config \in Fields  BY <3>1, <2>1 DEF Init
    <3>3. m_pending_config = NULL /\ m_byo_yomi_timer = TimerReset  BY <3>1 DEF Init
    <3>4. gtp = [at |-> "idle"] \/ gtp = [at |-> "hung"]  BY <3>1 DEF Init, Idle
    <3>5. gtp \in Between /\ gtp.at \in {"idle", "hung"}  BY <3>4, <2>2
    <3> QED  BY <3>2, <3>3, <3>5
  <2>4. CASE flag = "selfplay"
    <3>1. m_config \in Fields /\ g_config \in Fields  BY <2>4, <2>1 DEF MainInit
    <3>2. m_pending_config = NULL /\ m_byo_yomi_timer = TimerReset  BY <2>4 DEF MainInit
    <3>3. gtp = [at |-> "idle"]  BY <2>4 DEF MainInit, Idle
    <3> QED  BY <3>1, <3>2, <3>3, <2>2
  <2> QED  BY <2>3, <2>4
<1>4. Types
  <2>1. TimerReset \in [enable : BOOLEAN, curr_player : {Go!BLACK, Go!WHITE}]
    BY DEF TimerReset
  <2>2. replayed \in Nat  BY <1>2, <1>2a
  <2> QED  BY <1>2, <1>3, <1>2a, <2>1, <2>2 DEF Types
<1>5. RecordIsGame  BY <1>2, <1>2a DEF RecordIsGame
<1>6. ClockOfPlayerToMove
  <2>1. m_board.current_player = ToMove(replayed)  BY <1>2, <1>2a
  <2>2. m_byo_yomi_timer.curr_player = Go!BLACK  BY <1>3 DEF TimerReset
  <2> QED  BY <2>1, <2>2 DEF ClockOfPlayerToMove, ToMove, Go!BLACK, Go!WHITE
<1>7. PendingHasMove  BY <1>3 DEF PendingHasMove
<1> QED  BY <1>4, <1>5, <1>6, <1>7 DEF IInv

\* Every step, action by action.
LEMMA MainStep == ASSUME IInv, MainNext  PROVE IInv' /\ RecordStep
<1>1. CASE GTPExecute
  BY <1>1, ReplayStep, CommandStep, ReloadStep, MoveStep, GenMoveStep, GenMoveReturnStep,
     AnswerStep DEF GTPExecute
<1>2. CASE RunSelfplay
  <2>1. CASE RunOnce  BY <2>1, AskMoveStep DEF RunOnce
  <2>2. CASE RunOnceMove  BY <2>2, MoveStep DEF RunOnceMove
  <2>3. CASE RunOnceReturn  BY <2>3, RunOnceReturnStep
  <2>4. CASE GenMove \/ GenMoveReturn \/ EvalTask \/ EvalRead
    BY <2>4, GenMoveStep, GenMoveReturnStep, EvalStep
  <2> QED  BY <1>2, <2>1, <2>2, <2>3, <2>4 DEF RunSelfplay
<1>3. CASE GenMoveOnce
  BY <1>3, AskMoveStep, GenMoveStep, GenMoveReturnStep, MoveStep, AnswerStep, EvalStep
  DEF GenMoveOnce, GenMoveOnceBegin
<1>4. CASE EvalTask \/ EvalRead  BY <1>4, EvalStep
<1> QED  BY <1>1, <1>2, <1>3, <1>4 DEF MainNext, Next

\* ... and steps that change nothing.
LEMMA MainNextIInv == IInv /\ [MainNext]_mainVars => IInv' /\ RecordStep
<1> SUFFICES ASSUME IInv, [MainNext]_mainVars  PROVE IInv' /\ RecordStep
  OBVIOUS
<1>1. CASE MainNext  BY <1>1, MainStep
<1>2. CASE UNCHANGED mainVars
  <2>1. /\ UNCHANGED <<m_board, m_moves_str, m_num_moves, replayed, clean>>
        /\ UNCHANGED <<m_config, g_config, m_pending_config, m_byo_yomi_timer, gtp, resigned>>
    BY <1>2 DEF mainVars, vars
  <2>2. PendingHasMove'  BY <2>1 DEF IInv, PendingHasMove
  <2> QED  BY <2>1, <2>2, TypesHold, QuietStep
<1> QED  BY <1>1, <1>2

-----------------------------------------------------------------------------
(* The results of self-play.                                               *)

\* The winner of a board whose areas are counted: black has to lead by more than Komi.
Winner(board, winner) ==
    /\ winner \in {Go!BLACK, Go!WHITE}
    /\ (winner = Go!BLACK) =
          (Cardinality(Go!Area(board.board_state, Go!BLACK))
             - Cardinality(Go!Area(board.board_state, Go!WHITE)) > Komi)

\* The engine of self-play does not search between two moves, and its configuration is
\* never loaded again: it comes to choose a move on a finished game only by passing
\* because the opponent did.  The last sample of a game has the winner, if one is known:
\* of a resignation, or of the board before a third pass, which is the board after it.
ResultInv ==
    /\ ResultOfGame
    /\ ~m_config.enable_background_search
    /\ m_pending_config = NULL
    /\ m_is_searching => gtp.at = "thinking"
    /\ gtp.at = "thinking" => ~m_board.is_double_pass
    /\ gtp.at \in {"idle", "hung", "aborted", "thinking", "moving"}
    /\ gtp.at = "moving" =>
          \/ gtp.todo = <<>>
          \/ /\ ~gtp.genmove
             /\ Len(gtp.todo) = 1
             /\ m_board.is_double_pass => Head(gtp.todo) = Go!PASS
    /\ gtp.at = "moving" /\ gtp.todo = <<>> /\ ~gtp.genmove =>
          /\ onegame # <<>>
          /\ LET last == onegame[Len(onegame)]
             IN  IF resigned THEN last = Go!Opponent(m_board.current_player)
                 ELSE last = UNKNOWN \/ Winner(m_board, last)

\* The inductive invariant of self-play; in the other modes there are no results.
SelfInv ==
    /\ onegame \in Seq({UNKNOWN, Go!BLACK, Go!WHITE})
    /\ winners \in Seq({Go!BLACK, Go!WHITE})
    /\ flag = "selfplay" => ResultInv

\* The area of a colour on a board.
LEMMA SameArea == \A board, color : Go!Area(board, color) = GP!Area(board, color)
BY DEF Go!Area, GP!Area, Go!Chain, GP!Chain, Go!MapThenFoldSet, GP!MapThenFoldSet,
       Go!Points, GP!Points, Go!Neighbours, GP!Neighbours, Go!EMPTY, GP!EMPTY

\* A region of empty points.
LEMMA SameCalcRegionScore ==
    \A s, p, color, vis :
        Go!CalcRegionScore(s, p, color, vis) = GP!CalcRegionScore(s, p, color, vis)
BY DEF Go!CalcRegionScore, GP!CalcRegionScore, Go!FoldLeft, GP!FoldLeft,
       Go!MapThenFoldSet, GP!MapThenFoldSet, Go!Max, GP!Max, Go!RegionStep, GP!RegionStep,
       Go!Neighbours, GP!Neighbours, Go!Points, GP!Points, Go!EMPTY, GP!EMPTY,
       Go!Front, GP!Front, Go!Last, GP!Last, Go!SetToSeq, GP!SetToSeq,
       Go!IsInjective, GP!IsInjective, Go!Cardinality, GP!Cardinality

\* The score of a colour.
LEMMA SameCalcScoreWithColor ==
    \A s, color : Go!CalcScoreWithColor(s, color) = GP!CalcScoreWithColor(s, color)
BY DEF Go!CalcScoreWithColor, GP!CalcScoreWithColor,
       Go!CalcRegionScore, GP!CalcRegionScore, Go!FoldLeft, GP!FoldLeft,
       Go!MapThenFoldSet, GP!MapThenFoldSet, Go!Max, GP!Max, Go!RegionStep, GP!RegionStep,
       Go!Neighbours, GP!Neighbours, Go!Points, GP!Points, Go!EMPTY, GP!EMPTY,
       Go!Front, GP!Front, Go!Last, GP!Last, Go!SetToSeq, GP!SetToSeq,
       Go!IsInjective, GP!IsInjective, Go!Cardinality, GP!Cardinality

\* GetWinner() says who has more area, by what GoRules_proofs shows of the scores.
LEMMA WinnerOfBoard == ASSUME NEW s, GP!IsGoState(s)  PROVE Winner(s, Go!GetWinner(s))
<1>1. s.board_state \in [GP!Points -> {GP!EMPTY, GP!BLACK, GP!WHITE}]
  BY DEF GP!IsGoState
<1>2. /\ GP!CalcScoreWithColor(s, GP!BLACK) = GP!Cardinality(GP!Area(s.board_state, GP!BLACK))
      /\ GP!Cardinality(GP!Area(s.board_state, GP!BLACK)) \in Nat
  BY <1>1, GP!ScoreCountsArea, GtpAssumption
<1>3. /\ GP!CalcScoreWithColor(s, GP!WHITE) = GP!Cardinality(GP!Area(s.board_state, GP!WHITE))
      /\ GP!Cardinality(GP!Area(s.board_state, GP!WHITE)) \in Nat
  BY <1>1, GP!ScoreCountsArea, GtpAssumption
<1>4. \A S : GP!Cardinality(S) = Cardinality(S)  BY DEF GP!Cardinality, Cardinality
<1>5. /\ Go!CalcScoreWithColor(s, Go!BLACK) = Cardinality(Go!Area(s.board_state, Go!BLACK))
      /\ Go!CalcScoreWithColor(s, Go!WHITE) = Cardinality(Go!Area(s.board_state, Go!WHITE))
  BY <1>2, <1>3, <1>4, SameNames, SameArea, SameCalcScoreWithColor
<1>6. Go!BLACK # Go!WHITE  BY DEF Go!BLACK, Go!WHITE
<1> QED  BY <1>5, <1>6 DEF Winner, Go!GetWinner, Go!CalcScore

\* A pass leaves the stones where they are, and so the winner.
LEMMA PassKeepsWinner ==
    ASSUME NEW s, GP!IsGoState(s), NEW winner, Winner(s, winner)
    PROVE  Winner(Go!Pass(s), winner)
<1>1. Go!Pass(s).board_state = s.board_state
  BY SamePass, GP!PassFollows, GtpAssumption
<1> QED  BY <1>1 DEF Winner

\* Self-play begins with no game.
LEMMA MainInitSelfInv == MainInit => SelfInv
<1> SUFFICES ASSUME MainInit  PROVE SelfInv
  OBVIOUS
<1>1. onegame = <<>> /\ winners = <<>>  BY DEF MainInit
<1>2. ASSUME flag = "selfplay"  PROVE ResultInv
  <2>1. /\ ~m_config.enable_background_search /\ m_pending_config = NULL
        /\ m_is_searching = FALSE /\ gtp = [at |-> "idle"]
    BY <1>2 DEF MainInit, Idle
  <2>2. gtp.at = "idle"  BY <2>1
  <2>3. ResultOfGame  BY <1>1 DEF ResultOfGame
  <2> QED  BY <2>1, <2>2, <2>3 DEF ResultInv
<1>3. /\ <<>> \in Seq({UNKNOWN, Go!BLACK, Go!WHITE})
      /\ <<>> \in Seq({Go!BLACK, Go!WHITE})
  OBVIOUS
<1> QED  BY <1>1, <1>2, <1>3 DEF SelfInv

\* A step that ends no game and makes no move, but leads to another place of the thread.
LEMMA NoResultStep ==
    ASSUME ResultInv, UNCHANGED <<m_board, m_config, m_pending_config, resigned, self, flag>>,
           m_is_searching' => gtp'.at = "thinking",
           gtp'.at = "thinking" => ~m_board.is_double_pass,
           \/ gtp'.at \in {"idle", "hung", "aborted", "thinking"}
           \/ gtp'.at = "moving" /\ gtp'.todo = <<>> /\ gtp'.genmove
           \/ /\ gtp'.at = "moving" /\ gtp'.todo # <<>>
              /\ ~gtp'.genmove
              /\ Len(gtp'.todo) = 1
              /\ m_board.is_double_pass => Head(gtp'.todo) = Go!PASS
    PROVE  ResultInv'
<1>1. ResultOfGame'  BY DEF ResultInv, ResultOfGame, self
<1>2. /\ ~m_config'.enable_background_search /\ m_pending_config' = NULL
  BY DEF ResultInv
<1>3. \/ gtp'.at \in {"idle", "hung", "aborted", "thinking"}
      \/ gtp'.at = "moving"
  OBVIOUS
<1>4. gtp'.at = "moving" =>
          \/ gtp'.todo = <<>>
          \/ /\ ~gtp'.genmove
             /\ Len(gtp'.todo) = 1
             /\ m_board'.is_double_pass => Head(gtp'.todo) = Go!PASS
  OBVIOUS
<1>5. ~(gtp'.at = "moving" /\ gtp'.todo = <<>> /\ ~gtp'.genmove)
  OBVIOUS
<1> QED  BY <1>1, <1>2, <1>3, <1>4, <1>5 DEF ResultInv

\* The engine is asked for a move.
LEMMA RunOnceResult == ASSUME ResultInv, RunOnce, UNCHANGED flag  PROVE ResultInv'
<1>1. /\ UNCHANGED <<m_board, m_config, m_pending_config, resigned, self, flag, m_is_searching>>
      /\ gtp = Idle
      /\ gtp' = [at |-> "moving", todo |-> <<>>, genmove |-> TRUE]
  BY DEF RunOnce, AskMove, configs, game
<1>2. gtp.at = "idle"  BY <1>1 DEF Idle
<1>3. ~m_is_searching'  BY <1>1, <1>2 DEF ResultInv
<1>4. gtp'.at = "moving" /\ gtp'.todo = <<>> /\ gtp'.genmove  BY <1>1
<1> QED  BY <1>1, <1>3, <1>4, NoResultStep

\* It searches, passes after the opponent's pass, or never returns.
LEMMA GenMoveResult ==
    ASSUME ResultInv, GenMove, UNCHANGED <<self, flag>>  PROVE ResultInv'
<1>1. /\ UNCHANGED <<m_board, m_config, m_pending_config, resigned, self, flag>>
      /\ gtp.at = "moving"
  BY DEF GenMove, configs
<1>2. ~m_is_searching  BY <1>1 DEF ResultInv
<1>3. CASE Chosen(Go!PASS) /\ UNCHANGED m_is_searching
  <2>1. gtp' = [at |-> "moving", todo |-> <<Go!PASS>>, genmove |-> FALSE]
    BY <1>3 DEF Chosen
  <2>2. /\ gtp'.at = "moving" /\ gtp'.todo # <<>> /\ ~gtp'.genmove
        /\ Len(gtp'.todo) = 1 /\ Head(gtp'.todo) = Go!PASS
    BY <2>1
  <2> QED  BY <1>1, <1>2, <1>3, <2>2, NoResultStep
<1>4. CASE /\ m_is_searching' = ~Hangs(m_board)
           /\ gtp' = [at |-> IF Hangs(m_board) THEN "hung" ELSE "thinking"]
  <2>1. Hangs(m_board) <=> m_board.is_double_pass  BY <1>2 DEF Hangs
  <2>2. gtp'.at = IF Hangs(m_board) THEN "hung" ELSE "thinking"  BY <1>4
  <2> QED  BY <1>1, <1>4, <2>1, <2>2, NoResultStep
<1> QED  BY <1>3, <1>4 DEF GenMove

\* The search of a game that is not over chooses a move.
LEMMA GenMoveReturnResult ==
    ASSUME ResultInv, GenMoveReturn, UNCHANGED <<self, flag>>  PROVE ResultInv'
<1>1. /\ UNCHANGED <<m_board, m_config, m_pending_config, resigned, self, flag>>
      /\ gtp.at = "thinking" /\ m_is_searching' = FALSE
  BY DEF GenMoveReturn, configs
<1>2. PICK move \in BestMoves(m_board) : Chosen(move)  BY DEF GenMoveReturn
<1>3. gtp' = [at |-> "moving", todo |-> <<move>>, genmove |-> FALSE]
  BY <1>2 DEF Chosen
<1>4. gtp'.at = "moving" /\ gtp'.todo # <<>> /\ ~gtp'.genmove /\ Len(gtp'.todo) = 1
  BY <1>3
<1>5. ~m_board.is_double_pass  BY <1>1 DEF ResultInv
<1> QED  BY <1>1, <1>4, <1>5, NoResultStep

\* The evaluation threads have no part in it.
LEMMA EvalResult ==
    ASSUME ResultInv, EvalTask \/ EvalRead, UNCHANGED <<self, flag>>  PROVE ResultInv'
<1>1. UNCHANGED <<m_board, m_config, m_pending_config, resigned, self, m_is_searching, gtp>>
  BY DEF EvalTask, EvalRead, configs, game
<1>2. ResultOfGame'  BY <1>1 DEF ResultInv, ResultOfGame, self
<1> QED  BY <1>1, <1>2 DEF ResultInv, self, Winner

\* Of one thing to do nothing is left when it is done.
LEMMA OnlyMove ==
    ASSUME NEW S, NEW todo \in Seq(S), todo # <<>>, Len(todo) = 1
    PROVE  Head(todo) \in S /\ Tail(todo) = <<>>
<1>1. Head(todo) \in S /\ Tail(todo) \in Seq(S) /\ Len(Tail(todo)) = 0
  BY HeadTailProperties
<1> QED  BY <1>1, EmptySeq

\* The move is made: with a resignation the board stays, and with the opponent's colour
\* the sample has the winner; with a third pass the winner is known already.
LEMMA RunOnceMoveResult ==
    ASSUME IInv, ResultInv, onegame \in Seq({UNKNOWN, Go!BLACK, Go!WHITE}), RunOnceMove,
           UNCHANGED flag
    PROVE  ResultInv' /\ onegame' \in Seq({UNKNOWN, Go!BLACK, Go!WHITE})
<1> DEFINE move == Head(gtp.todo)
           sample == DataWinner(move)
<1>1. /\ gtp.at = "moving" /\ gtp.todo # <<>> /\ Move
      /\ onegame' = Append(onegame, sample) /\ UNCHANGED winners
  BY DEF RunOnceMove, Move
<1>2. /\ ~gtp.genmove /\ Len(gtp.todo) = 1
      /\ m_board.is_double_pass => move = Go!PASS
      /\ ~m_config.enable_background_search /\ m_pending_config = NULL
  BY <1>1 DEF ResultInv
<1>3. /\ GP!IsGoState(m_board) /\ m_board.current_player \in {Go!BLACK, Go!WHITE}
  BY PlayerToMove
<1>4. gtp \in Within  BY <1>1, WithinCommand
<1>5. /\ gtp.todo \in Seq(RecordedMoves \cup {RESIGN})
      /\ move \in RecordedMoves \cup {RESIGN} /\ Tail(gtp.todo) = <<>>
  <2>1. gtp.todo \in Seq(RecordedMoves \cup {RESIGN})  BY <1>4 DEF Within
  <2> QED  BY <1>1, <1>2, <2>1, OnlyMove
<1>6. /\ UNKNOWN # Go!BLACK /\ UNKNOWN # Go!WHITE /\ Go!PASS # RESIGN
      /\ Go!Opponent(m_board.current_player) \in {Go!BLACK, Go!WHITE}
  BY <1>3 DEF UNKNOWN, Go!BLACK, Go!WHITE, Go!PASS, RESIGN, Go!Opponent
<1>7. sample \in {UNKNOWN, Go!BLACK, Go!WHITE}
  BY <1>3, <1>6, WinnerOfBoard DEF DataWinner, Winner
<1> HIDE DEF move, sample
<1>8. /\ onegame' \in Seq({UNKNOWN, Go!BLACK, Go!WHITE}) /\ onegame' # <<>>
      /\ onegame'[Len(onegame')] = sample
  BY <1>1, <1>7
<1>9. ResultOfGame'  BY <1>8 DEF ResultOfGame
<1>10. CASE move = RESIGN /\ Resign
  <2>1. /\ UNCHANGED <<m_board, m_config, m_pending_config>> /\ m_is_searching' = FALSE
        /\ gtp' = [gtp EXCEPT !.todo = Tail(gtp.todo)] /\ resigned' = TRUE
    BY <1>10 DEF Resign, configs, game
  <2>2. gtp'.at = "moving" /\ gtp'.todo = <<>> /\ ~gtp'.genmove
    BY <1>1, <1>2, <1>4, <1>5, <2>1 DEF Within
  <2>3. sample = Go!Opponent(m_board.current_player)  BY <1>10 DEF DataWinner, sample
  <2> QED  BY <1>2, <1>8, <1>9, <2>1, <2>2, <2>3 DEF ResultInv
<1>11. CASE Abort
  <2>1. /\ UNCHANGED <<m_board, m_config, m_pending_config>> /\ m_is_searching' = FALSE
        /\ gtp' = [at |-> "aborted"]
    BY <1>11 DEF Abort, configs, game
  <2>2. gtp'.at = "aborted"  BY <2>1
  <2> QED  BY <1>2, <1>8, <1>9, <2>1, <2>2 DEF ResultInv
<1>12. CASE move # RESIGN /\ Go!IsLegal(m_board, move) /\ MakeMove(move)
  <2>1. /\ m_board' = IF move = Go!PASS THEN Go!Pass(m_board) ELSE Go!Place(m_board, move)
        /\ m_config' = Taken /\ m_pending_config' = NULL
        /\ m_is_searching' = (Taken.enable_background_search /\ ~m_board'.is_double_pass)
        /\ gtp' = [gtp EXCEPT !.todo = Tail(gtp.todo)] /\ resigned' = FALSE
    BY <1>12 DEF MakeMove, MoveOn, TakePending
  <2>2. gtp'.at = "moving" /\ gtp'.todo = <<>> /\ ~gtp'.genmove
    BY <1>1, <1>2, <1>4, <1>5, <2>1 DEF Within
  <2>3. Taken = m_config  BY <1>2 DEF Taken
  <2>4. sample = UNKNOWN \/ Winner(m_board', sample)
    <3>1. CASE m_board.is_double_pass
      <4>1. sample = Go!GetWinner(m_board)  BY <1>12, <3>1 DEF DataWinner, sample
      <4>2. Winner(m_board, sample)  BY <1>3, <4>1, WinnerOfBoard
      <4>3. m_board' = Go!Pass(m_board)  BY <1>2, <2>1, <3>1
      <4> QED  BY <1>3, <4>2, <4>3, PassKeepsWinner
    <3>2. CASE ~m_board.is_double_pass
      BY <1>12, <3>2 DEF DataWinner, sample
    <3> QED  BY <3>1, <3>2
  <2>5. LET last == onegame'[Len(onegame')]
        IN  last = UNKNOWN \/ Winner(m_board', last)
    BY <1>8, <2>4
  <2> QED  BY <1>2, <1>8, <1>9, <2>1, <2>2, <2>3, <2>5 DEF ResultInv, Winner
<1>13. /\ move = RESIGN => Resign
       /\ move # RESIGN => (Go!IsLegal(m_board, move) /\ MakeMove(move)) \/ Abort
  BY <1>1 DEF Move, move
<1> QED  BY <1>8, <1>10, <1>11, <1>12, <1>13

\* The game goes on, or its winner is noted.
LEMMA RunOnceReturnResult ==
    ASSUME IInv, ResultInv, onegame \in Seq({UNKNOWN, Go!BLACK, Go!WHITE}),
           winners \in Seq({Go!BLACK, Go!WHITE}), RunOnceReturn, UNCHANGED flag
    PROVE  /\ ResultInv'
           /\ onegame' \in Seq({UNKNOWN, Go!BLACK, Go!WHITE})
           /\ winners' \in Seq({Go!BLACK, Go!WHITE})
<1> DEFINE last == onegame[Len(onegame)]
           winner == IF last = UNKNOWN THEN Go!GetWinner(m_board) ELSE last
<1>1. /\ gtp.at = "moving" /\ gtp.todo = <<>> /\ ~gtp.genmove /\ gtp' = Idle
      /\ UNCHANGED <<m_board, m_config, m_pending_config, resigned, m_is_searching, flag>>
  BY DEF RunOnceReturn, configs, game
<1>2. /\ onegame # <<>> /\ last \in {UNKNOWN, Go!BLACK, Go!WHITE}
      /\ IF resigned THEN last = Go!Opponent(m_board.current_player)
         ELSE last = UNKNOWN \/ Winner(m_board, last)
  BY <1>1 DEF ResultInv
<1>3. /\ GP!IsGoState(m_board) /\ m_board.current_player \in {Go!BLACK, Go!WHITE}
  BY PlayerToMove
<1>4. /\ ~m_is_searching' /\ gtp'.at = "idle"
      /\ ~m_config'.enable_background_search /\ m_pending_config' = NULL
  BY <1>1 DEF Idle, ResultInv
<1> HIDE DEF last
<1>5. /\ winner \in {Go!BLACK, Go!WHITE}
      /\ IF resigned THEN winner # m_board.current_player /\ winner # UNKNOWN
         ELSE Winner(m_board, winner)
  <2>1. Winner(m_board, Go!GetWinner(m_board))  BY <1>3, WinnerOfBoard
  <2>2. /\ Go!Opponent(m_board.current_player) # m_board.current_player
        /\ Go!Opponent(m_board.current_player) # UNKNOWN
    BY <1>3 DEF Go!Opponent, Go!BLACK, Go!WHITE, UNKNOWN
  <2> QED  BY <1>2, <2>1, <2>2 DEF Winner
<1>6. CASE UNCHANGED self
  <2>1. ResultOfGame'  BY <1>1, <1>2, <1>6 DEF ResultOfGame, self
  <2> QED  BY <1>4, <1>6, <2>1 DEF ResultInv, self
<1>7. CASE winners' = Append(winners, winner) /\ onegame' = <<>>
  <2>1. /\ winners' \in Seq({Go!BLACK, Go!WHITE})
        /\ winners'[Len(winners')] = winner
    <3> HIDE DEF winner
    <3> QED  BY <1>5, <1>7
  <2>2. ResultOfGame'
    <3> HIDE DEF winner
    <3> QED  BY <1>1, <1>5, <2>1 DEF ResultOfGame, Winner
  <2>3. <<>> \in Seq({UNKNOWN, Go!BLACK, Go!WHITE})  OBVIOUS
  <2> QED  BY <1>4, <1>7, <2>1, <2>2, <2>3 DEF ResultInv
<1> QED  BY <1>6, <1>7 DEF RunOnceReturn, last

\* Every step of the program, and steps that change nothing.
LEMMA MainNextSelfInv == IInv /\ SelfInv /\ [MainNext]_mainVars => SelfInv'
<1> SUFFICES ASSUME IInv, SelfInv, [MainNext]_mainVars  PROVE SelfInv'
  OBVIOUS
<1>1. /\ onegame \in Seq({UNKNOWN, Go!BLACK, Go!WHITE})
      /\ winners \in Seq({Go!BLACK, Go!WHITE})
      /\ flag = "selfplay" => ResultInv
  BY DEF SelfInv
<1>2. CASE UNCHANGED mainVars
  <2>1. UNCHANGED <<m_board, m_config, m_pending_config, resigned, onegame, winners, flag,
                    m_is_searching, gtp>>
    BY <1>2 DEF mainVars, vars, self
  <2>2. flag = "selfplay" => ResultInv'
    BY <1>1, <2>1 DEF ResultInv, ResultOfGame, Winner
  <2> QED  BY <1>1, <2>1, <2>2 DEF SelfInv
<1>3. CASE MainNext /\ flag # "selfplay"
  <2>1. UNCHANGED <<flag, self>>  BY <1>3 DEF MainNext, GenMoveOnce
  <2> QED  BY <1>1, <1>3, <2>1 DEF SelfInv, self
<1>4. CASE MainNext /\ flag = "selfplay"
  <2>1. RunSelfplay /\ UNCHANGED flag /\ ResultInv  BY <1>1, <1>4 DEF MainNext
  <2>2. CASE RunOnce
    <3>1. UNCHANGED self  BY <2>2 DEF RunOnce
    <3> QED  BY <1>1, <2>1, <2>2, <3>1, RunOnceResult DEF SelfInv, self
  <2>3. CASE RunOnceMove
    <3>1. UNCHANGED winners  BY <2>3 DEF RunOnceMove
    <3> QED  BY <1>1, <2>1, <2>3, <3>1, RunOnceMoveResult DEF SelfInv
  <2>4. CASE RunOnceReturn
    BY <1>1, <2>1, <2>4, RunOnceReturnResult DEF SelfInv
  <2>5. CASE (GenMove \/ GenMoveReturn \/ EvalTask \/ EvalRead) /\ UNCHANGED self
    BY <1>1, <2>1, <2>5, GenMoveResult, GenMoveReturnResult, EvalResult DEF SelfInv, self
  <2> QED  BY <2>1, <2>2, <2>3, <2>4, <2>5 DEF RunSelfplay
<1> QED  BY <1>2, <1>3, <1>4

-----------------------------------------------------------------------------
(* The theorems.                                                           *)

\* The inductive invariant holds in GTP mode, in self-play and for a single move.
THEOREM Invariance == MainSpec => []IInv
<1>1. MainInit => IInv  BY MainInitIInv
<1>2. IInv /\ [MainNext]_mainVars => IInv'  BY MainNextIInv
<1> QED  BY <1>1, <1>2, PTL DEF MainSpec

\* Whatever is played, undone and cleared, under whichever rules a reload has left, the
\* board is what the record gives when it is replayed; and every move of the record is on
\* it unless a Reset met a move that it did not allow.
THEOREM Record == MainSpec => []RecordIsGame
<1>1. IInv => RecordIsGame  BY DEF IInv
<1> QED  BY <1>1, Invariance, PTL

\* The clock is the player's, or exchanged, as the number of replayed moves says.
THEOREM Clock == MainSpec => []ClockOfPlayerToMove
<1>1. IInv => ClockOfPlayerToMove  BY DEF IInv
<1> QED  BY <1>1, Invariance, PTL

\* A reloaded configuration is taken by the next move.
THEOREM Pending == MainSpec => []PendingConfigTaken
<1>1. IInv => PendingConfigTaken  BY DEF IInv, PendingHasMove, PendingConfigTaken
<1> QED  BY <1>1, Invariance, PTL

\* No step changes the record by more than its last move, unless it clears it.
THEOREM OneMove == MainSpec => RecordChangesByOneMove
<1>1. IInv /\ [MainNext]_mainVars => [RecordStep]_vars  BY MainNextIInv
<1>2. MainSpec => [][RecordStep]_vars
  BY <1>1, Invariance, PTL DEF MainSpec
<1>3. RecordChangesByOneMove <=> [][RecordStep]_vars
  BY PTL DEF RecordChangesByOneMove, RecordStep
<1> QED  BY <1>2, <1>3, PTL

\* A game of self-play is won by the player whose opponent resigned, and otherwise by
\* the one with more area on the board that the last move left.
THEOREM Results == MainSpec => []ResultOfGame
<1>1. MainInit => SelfInv  BY MainInitSelfInv
<1>2. IInv /\ SelfInv /\ [MainNext]_mainVars => SelfInv'  BY MainNextSelfInv
<1>3. SelfInv => ResultOfGame  BY DEF SelfInv, ResultInv, ResultOfGame
<1> QED  BY <1>1, <1>2, <1>3, Invariance, PTL DEF MainSpec

-----------------------------------------------------------------------------
(* The names of moves, of the 19 by 19 board.                              *)

(* Numbers and coordinates name the same moves: IdToCoord and CoordToId. *)
LEMMA IdOnBoard ==
    ASSUME NEW id \in Ids
    PROVE  /\ IdToCoord(id) = <<id \div 19, id % 19>>
           /\ IdToCoord(id) \in Axis \X Axis
           /\ CoordToId(IdToCoord(id)) = id
<1>1. /\ id \in Int /\ 0 <= id /\ id <= 360
      /\ id \div 19 \in Int /\ 0 <= id \div 19 /\ id \div 19 <= 18
      /\ id % 19 \in Int /\ 0 <= id % 19 /\ id % 19 <= 18
      /\ (id \div 19) * 19 + (id % 19) = id
    BY SMT DEF Ids, GOBOARD_SIZE, BORDER_SIZE
<1>2. IdToCoord(id) = <<id \div 19, id % 19>>
    BY <1>1 DEF IdToCoord, COORD_PASS, COORD_RESIGN, BORDER_SIZE
<1>3. <<id \div 19, id % 19>> \in Axis \X Axis
    BY <1>1 DEF Axis, BORDER_SIZE
<1>4. CoordToId(<<id \div 19, id % 19>>) = id
    BY <1>1, <1>3 DEF CoordToId, Both, InBoard, Axis, COORD_PASS, COORD_RESIGN, BORDER_SIZE
<1> QED
    BY <1>2, <1>3, <1>4

\* A coordinate on the board has an identity, and is its coordinate.
LEMMA CoordOnBoard ==
    ASSUME NEW c \in Axis \X Axis
    PROVE  /\ CoordToId(c) = c[1] * 19 + c[2]
           /\ CoordToId(c) \in Ids
           /\ IdToCoord(CoordToId(c)) = c
<1>1. /\ c = <<c[1], c[2]>>
      /\ c[1] \in Int /\ 0 <= c[1] /\ c[1] <= 18
      /\ c[2] \in Int /\ 0 <= c[2] /\ c[2] <= 18
    BY DEF Axis, BORDER_SIZE
<1>2. CoordToId(c) = c[1] * 19 + c[2]
    BY <1>1 DEF CoordToId, Both, InBoard, Axis, COORD_PASS, COORD_RESIGN, BORDER_SIZE
<1>3. c[1] * 19 + c[2] \in Ids
    BY <1>1 DEF Ids, GOBOARD_SIZE, BORDER_SIZE
<1>4. (c[1] * 19 + c[2]) \div 19 = c[1] /\ (c[1] * 19 + c[2]) % 19 = c[2]
    BY <1>1, SMT
<1> QED
    BY <1>1, <1>2, <1>3, <1>4, IdOnBoard

(* A move is the same move as a number and as coordinates, the pass and the *)
(* resignation included: IdToCoord and CoordToId undo each other. *)
THEOREM IdRoundTrip ==
    /\ \A id \in Ids \cup {COORD_PASS, COORD_RESIGN} : CoordToId(IdToCoord(id)) = id
    /\ \A c \in Moves : IdToCoord(CoordToId(c)) = c
<1>1. ASSUME NEW id \in {COORD_PASS, COORD_RESIGN}
      PROVE  CoordToId(IdToCoord(id)) = id
    BY DEF CoordToId, IdToCoord, Both, COORD_PASS, COORD_RESIGN
<1>2. ASSUME NEW c \in {Both(COORD_PASS), Both(COORD_RESIGN)}
      PROVE  IdToCoord(CoordToId(c)) = c
    BY DEF CoordToId, IdToCoord, Both, COORD_PASS, COORD_RESIGN
<1> QED
    BY <1>1, <1>2, IdOnBoard, CoordOnBoard DEF Moves

(* Two letters in the record of moves, which undo and the initial moves replay, *)
(* name the move that was recorded: StrToCoord undoes CoordToStr on the board and *)
(* for a pass. *)
THEOREM RecordRoundTrip ==
    \A c \in (Axis \X Axis) \cup {Both(COORD_PASS)} : StrToCoord(CoordToStr(c)) = c
<1>1. ASSUME NEW c \in Axis \X Axis
      PROVE  StrToCoord(CoordToStr(c)) = c
  <2>1. /\ c = <<c[1], c[2]>>
        /\ c[1] \in Int /\ 0 <= c[1] /\ c[1] <= 18
        /\ c[2] \in Int /\ 0 <= c[2] /\ c[2] <= 18
      BY DEF Axis, BORDER_SIZE
  <2>2. CoordToStr(c) = <<c[1] + 97, c[2] + 97>>
      BY <2>1 DEF CoordToStr, InBoard, Axis, BORDER_SIZE, a
  <2>3. StrToCoord(<<c[1] + 97, c[2] + 97>>) = <<c[1], c[2]>>
      BY <2>1 DEF StrToCoord, InBoard, Axis, BORDER_SIZE, Both, a, z
  <2> QED
      BY <2>1, <2>2, <2>3
<1>2. StrToCoord(CoordToStr(Both(COORD_PASS))) = Both(COORD_PASS)
    BY DEF StrToCoord, CoordToStr, InBoard, Axis, BORDER_SIZE, Both, z, COORD_PASS
<1> QED
    BY <1>1, <1>2

(* The word that genmove answers is understood as the move that was made, also by *)
(* the engine itself when play sends it back in small letters: the letter I that *)
(* EncodeMove leaves out and DecodeMove takes out are the same. *)
THEOREM GtpRoundTrip ==
    \A c \in Moves : DecodeMove(ToLower(EncodeMove(c))) = c
<1>1. ASSUME NEW c \in Axis \X Axis
      PROVE  DecodeMove(ToLower(EncodeMove(c))) = c
  <2>1. /\ c = <<c[1], c[2]>>
        /\ c[1] \in Int /\ 0 <= c[1] /\ c[1] <= 18
        /\ c[2] \in Int /\ 0 <= c[2] /\ c[2] <= 18
      BY DEF Axis, BORDER_SIZE
  <2>2. CoordToId(c) # COORD_PASS /\ CoordToId(c) # COORD_RESIGN
      BY CoordOnBoard, <2>1 DEF COORD_PASS, COORD_RESIGN
  <2> DEFINE upper == IF c[1] > 7 THEN 66 + c[1] ELSE 65 + c[1]
             lower == IF c[1] > 7 THEN 98 + c[1] ELSE 97 + c[1]
  <2>3. EncodeMove(c) = <<upper, c[2] + 1>>
      BY <2>2 DEF EncodeMove, A, B
  <2>4. ToLower(<<upper, c[2] + 1>>) = <<lower, c[2] + 1>>
      BY <2>1 DEF ToLower, PassWord, ResignWord, A, Z, a
  <2>5. DecodeMove(<<lower, c[2] + 1>>) = <<c[1], c[2]>>
      BY <2>1 DEF DecodeMove, PassWord, ResignWord, a, b, i
  <2> QED
      BY <2>1, <2>3, <2>4, <2>5
<1>2. DecodeMove(ToLower(EncodeMove(Both(COORD_PASS)))) = Both(COORD_PASS)
    BY DEF DecodeMove, ToLower, EncodeMove, CoordToId, Both, PassWord, COORD_PASS
<1>3. DecodeMove(ToLower(EncodeMove(Both(COORD_RESIGN)))) = Both(COORD_RESIGN)
  <2>1. CoordToId(Both(COORD_RESIGN)) = COORD_RESIGN
      BY DEF CoordToId, Both, COORD_RESIGN
  <2>2. ResignWord # PassWord
      BY DEF ResignWord, PassWord
  <2> QED
      BY <2>1, <2>2 DEF DecodeMove, ToLower, EncodeMove, COORD_RESIGN, COORD_PASS
<1> QED
    BY <1>1, <1>2, <1>3 DEF Moves

(* The neighbours that the rules are computed with, found by coordinates, are those *)
(* of the point's number in GoRules: one row away, or one column in the same row. *)
THEOREM NeighboursByNumber ==
    \A id \in Ids :
        NeighbourCache(id) =
            {q \in Ids : \/ q \in {id - 19, id + 19}
                         \/ q \in {id - 1, id + 1} /\ q \div 19 = id \div 19}
<1> SUFFICES ASSUME NEW id \in Ids
             PROVE  NeighbourCache(id) =
                        {q \in Ids : \/ q \in {id - 19, id + 19}
                                     \/ q \in {id - 1, id + 1} /\ q \div 19 = id \div 19}
    OBVIOUS
<1> DEFINE x == id \div 19
           y == id % 19
           around == {<<x, y - 1>>, <<x + 1, y>>, <<x, y + 1>>, <<x - 1, y>>}
<1>1. /\ id \in Int /\ id = x * 19 + y
      /\ x \in Int /\ 0 <= x /\ x <= 18
      /\ y \in Int /\ 0 <= y /\ y <= 18
    BY SMT DEF Ids, GOBOARD_SIZE, BORDER_SIZE
<1>2. NeighbourCache(id) = {CoordToId(n) : n \in {d \in around : InBoard(d)}}
    BY IdOnBoard DEF NeighbourCache
<1>3. ASSUME NEW n \in around, InBoard(n)
      PROVE  /\ n \in Axis \X Axis
             /\ CoordToId(n) = n[1] * 19 + n[2] /\ CoordToId(n) \in Ids
  <2>1. n \in Axis \X Axis
      BY <1>3 DEF InBoard
  <2> QED
      BY <2>1, CoordOnBoard
<1>4. ASSUME NEW n \in around, InBoard(n)
      PROVE  \/ CoordToId(n) \in {id - 19, id + 19}
             \/ CoordToId(n) \in {id - 1, id + 1} /\ CoordToId(n) \div 19 = id \div 19
  <2> DEFINE q == CoordToId(n)
  <2>1. q = n[1] * 19 + n[2] /\ n[1] \in 0 .. 18 /\ n[2] \in 0 .. 18
      BY <1>3, <1>4 DEF Axis, BORDER_SIZE
  <2>2. CASE n = <<x, y - 1>>
      BY <2>1, <2>2, <1>1, SMT
  <2>3. CASE n = <<x + 1, y>>
      BY <2>1, <2>3, <1>1, SMT
  <2>4. CASE n = <<x, y + 1>>
      BY <2>1, <2>4, <1>1, SMT
  <2>5. CASE n = <<x - 1, y>>
      BY <2>1, <2>5, <1>1, SMT
  <2> QED
      BY <2>2, <2>3, <2>4, <2>5
<1>5. ASSUME NEW q \in Ids,
             \/ q \in {id - 19, id + 19}
             \/ q \in {id - 1, id + 1} /\ q \div 19 = id \div 19
      PROVE  \E n \in around : InBoard(n) /\ CoordToId(n) = q
  <2>1. CoordToId(IdToCoord(q)) = q /\ IdToCoord(q) = <<q \div 19, q % 19>>
        /\ InBoard(IdToCoord(q))
      BY IdOnBoard DEF InBoard
  <2>2. q \in Int /\ 0 <= q /\ q <= 360
      BY DEF Ids, GOBOARD_SIZE, BORDER_SIZE
  <2>3. <<q \div 19, q % 19>> \in around
    <3>1. CASE q = id - 19
        BY <3>1, <2>2, <1>1, SMT
    <3>2. CASE q = id + 19
        BY <3>2, <2>2, <1>1, SMT
    <3>3. CASE q = id - 1 /\ q \div 19 = x
        BY <3>3, <2>2, <1>1, SMT
    <3>4. CASE q = id + 1 /\ q \div 19 = x
        BY <3>4, <2>2, <1>1, SMT
    <3> QED
        BY <1>5, <3>1, <3>2, <3>3, <3>4
  <2> QED
      BY <2>1, <2>3
<1> QED
    BY <1>2, <1>3, <1>4, <1>5

(* Lemmas on the symmetries. *)
LEMMA Flips ==
    ASSUME NEW c \in Axis \X Axis
    PROVE  /\ FlipX(c) \in Axis \X Axis /\ FlipX(FlipX(c)) = c
           /\ FlipY(c) \in Axis \X Axis /\ FlipY(FlipY(c)) = c
           /\ Swap(c) \in Axis \X Axis /\ Swap(Swap(c)) = c
<1>1. c = <<c[1], c[2]>> /\ c[1] \in Axis /\ c[2] \in Axis
    OBVIOUS
<1>2. \A k \in Axis : Opposite(k) \in Axis /\ Opposite(Opposite(k)) = k
    BY DEF Axis, Opposite, BORDER_SIZE
<1> QED
    BY <1>1, <1>2, Zenon DEF FlipX, FlipY, Swap

(* A symmetry and its reverse undo each other, in all eight modes: swapping last *)
(* in one direction means swapping first in the other. *)
THEOREM TransformRoundTrip ==
    \A c \in Axis \X Axis, mode \in Modes, reverse \in BOOLEAN :
        /\ TransformCoord(c, mode, reverse) \in Axis \X Axis
        /\ TransformCoord(TransformCoord(c, mode, reverse), mode, ~reverse) = c
<1> SUFFICES ASSUME NEW c \in Axis \X Axis, NEW mode \in Modes, NEW reverse \in BOOLEAN
             PROVE  /\ TransformCoord(c, mode, reverse) \in Axis \X Axis
                    /\ TransformCoord(TransformCoord(c, mode, reverse), mode, ~reverse) = c
    OBVIOUS
<1> DEFINE X(d) == IF Bit(mode, 1) THEN FlipX(d) ELSE d
           Y(d) == IF Bit(mode, 2) THEN FlipY(d) ELSE d
           S(d) == IF Bit(mode, 4) THEN Swap(d) ELSE d
<1>1. ASSUME NEW d \in Axis \X Axis
      PROVE  /\ X(d) \in Axis \X Axis /\ X(X(d)) = d
             /\ Y(d) \in Axis \X Axis /\ Y(Y(d)) = d
             /\ S(d) \in Axis \X Axis /\ S(S(d)) = d
    BY Flips
<1>2. ASSUME NEW d
      PROVE  /\ TransformCoord(d, mode, TRUE) = X(Y(S(d)))
             /\ TransformCoord(d, mode, FALSE) = S(Y(X(d)))
    BY DEF TransformCoord
<1> HIDE DEF X, Y, S
<1>3. /\ TransformCoord(c, mode, TRUE) \in Axis \X Axis
      /\ TransformCoord(TransformCoord(c, mode, TRUE), mode, FALSE) = c
  <2>1. S(c) \in Axis \X Axis /\ S(S(c)) = c
      BY <1>1
  <2>2. Y(S(c)) \in Axis \X Axis /\ Y(Y(S(c))) = S(c)
      BY <1>1, <2>1
  <2>3. X(Y(S(c))) \in Axis \X Axis /\ X(X(Y(S(c)))) = Y(S(c))
      BY <1>1, <2>2
  <2>4. TransformCoord(c, mode, TRUE) = X(Y(S(c)))
      BY <1>2
  <2>5. TransformCoord(X(Y(S(c))), mode, FALSE) = S(Y(X(X(Y(S(c))))))
      BY <1>2
  <2> QED
      BY <2>1, <2>2, <2>3, <2>4, <2>5
<1>4. /\ TransformCoord(c, mode, FALSE) \in Axis \X Axis
      /\ TransformCoord(TransformCoord(c, mode, FALSE), mode, TRUE) = c
  <2>1. X(c) \in Axis \X Axis /\ X(X(c)) = c
      BY <1>1
  <2>2. Y(X(c)) \in Axis \X Axis /\ Y(Y(X(c))) = X(c)
      BY <1>1, <2>1
  <2>3. S(Y(X(c))) \in Axis \X Axis /\ S(S(Y(X(c)))) = Y(X(c))
      BY <1>1, <2>2
  <2>4. TransformCoord(c, mode, FALSE) = S(Y(X(c)))
      BY <1>2
  <2>5. TransformCoord(S(Y(X(c))), mode, TRUE) = X(Y(S(S(Y(X(c))))))
      BY <1>2
  <2> QED
      BY <2>1, <2>2, <2>3, <2>4, <2>5
<1> QED
    BY <1>3, <1>4

(* The policy for a point comes from the point of the transformed board that had its *)
(* features: TransformFeatures of the policy undoes that of the features. *)
THEOREM PolicyComesBack ==
    \A id \in Ids, mode \in Modes :
        /\ TransformedFrom(id, mode, TRUE) \in Ids
        /\ TransformedFrom(TransformedFrom(id, mode, TRUE), mode, FALSE) = id
<1> SUFFICES ASSUME NEW id \in Ids, NEW mode \in Modes
             PROVE  /\ TransformedFrom(id, mode, TRUE) \in Ids
                    /\ TransformedFrom(TransformedFrom(id, mode, TRUE), mode, FALSE) = id
    OBVIOUS
<1> DEFINE c == IdToCoord(id)
           d == TransformCoord(c, mode, TRUE)
<1>1. c \in Axis \X Axis /\ CoordToId(c) = id
    BY IdOnBoard
<1>2. d \in Axis \X Axis /\ TransformCoord(d, mode, FALSE) = c
  <2>1. ~TRUE = FALSE /\ TRUE \in BOOLEAN
      OBVIOUS
  <2> QED
      BY <1>1, <2>1, TransformRoundTrip
<1>3. CoordToId(d) \in Ids /\ IdToCoord(CoordToId(d)) = d
    BY <1>2, CoordOnBoard
<1> QED
    BY <1>1, <1>2, <1>3 DEF TransformedFrom

=============================================================================
