------------------------------ MODULE GoRules ------------------------------
(***************************************************************************)
(* The rules of Go as GoState keeps them (go_state.cc): blocks of stones   *)
(* with their liberties, merged, captured and recycled move by move; the   *)
(* legal moves with ko and superko; and the incremental hash.  The board   *)
(* is Rows by Columns.                                                     *)
(*                                                                         *)
(* A GoState is a value that every simulation copies, so each method is an *)
(* operator on a record of its members.  Bit sets are sets, the list of a  *)
(* block's stones is a sequence from head to tail, counts of liberties are *)
(* cardinalities.  A hash is the set of the weights that are xor-ed into   *)
(* it: two positions have one hash only if they have the same weights,     *)
(* which leaves collisions aside.  A feature plane is the set of the       *)
(* points that are one in it.  FindCoord's shortening of its paths is left *)
(* out.                                                                    *)
(***************************************************************************)
EXTENDS Integers, SequencesExt

CONSTANTS
    Rows, Columns,
    SIZE_HISTORYEACHSIDE,   \* feature planes for the stones
    Komi,                   \* the lead, rounded down, that black must exceed
    MaxMoves                \* bound of the model: length of a game

ASSUME BoardAssumption ==
    /\ {Rows, Columns} \subseteq Nat \ {0}
    /\ Rows * Columns > 1     \* on a single point every stone is suicide
    /\ SIZE_HISTORYEACHSIDE \in Nat
    /\ SIZE_HISTORYEACHSIDE % 2 = 0
    /\ {Komi, MaxMoves} \subseteq Nat

VARIABLES
    state,    \* the GoState: members by name
    record    \* the positions so far, the first one empty

EMPTY == 0
BLACK == 1
WHITE == 2
UNSET == -2
PASS == -1

Points == 0 .. Rows * Columns - 1

\* FOR_NEI
Neighbours(p) ==
    {q \in Points : \/ q \in {p - Columns, p + Columns}
                    \/ q \in {p - 1, p + 1} /\ q \div Columns = p \div Columns}

Opponent(color) == BLACK + WHITE - color

\* At most one block for each point, and one for TryMove.
BlockIds == 0 .. Rows * Columns

\* GoBlock::Reset()
NoBlock == [in_use |-> FALSE, color |-> EMPTY, stones |-> <<>>,
            stone_state |-> {}, liberty_state |-> {}, virtual_liberty_state |-> {}]

\* GoState(positional_superko)
NewGame(positional_superko) ==
    [positional_superko   |-> positional_superko,
     board_state          |-> [p \in Points |-> EMPTY],
     parent_id            |-> [p \in Points |-> p],
     block_id             |-> [p \in Points |-> UNSET],
     block_pool           |-> [i \in BlockIds |-> NoBlock],
     block_in_use         |-> 0,
     recycled_blocks      |-> <<>>,
     current_player       |-> BLACK,
     last_position        |-> UNSET,
     ko_position          |-> UNSET,
     is_double_pass       |-> FALSE,
     zobrist_hash         |-> {},
     board_hash_states    |-> {},
     feature_history_list |-> <<>>,
     legal_move_map       |-> Points,
     liberty_count        |-> [p \in Points |-> 0]]

-----------------------------------------------------------------------------
(* Blocks.                                                                 *)

Size(block) == Cardinality(block.stone_state)
Liberties(block) == Cardinality(block.liberty_state)

\* The end of the parents of p, which is the tail of its block.
FindCoord(s, p) ==
    LET up[k \in 0 .. Rows * Columns] ==
            IF k = 0 THEN p ELSE s.parent_id[up[k - 1]]
    IN  up[Rows * Columns]

GetBlockIdByCoord(s, p) == s.block_id[FindCoord(s, p)]

NeighbourBlocks(s, p) ==
    {GetBlockIdByCoord(s, q) : q \in {n \in Neighbours(p) : s.board_state[n] # EMPTY}}

\* GetNewBlock(): which block it returns and what it does to the pool.
NewBlock(s) ==
    IF s.recycled_blocks # <<>> THEN Last(s.recycled_blocks) ELSE s.block_in_use

GetNewBlock(s) ==
    LET t == IF s.recycled_blocks # <<>>
             THEN [s EXCEPT !.recycled_blocks = Front(@)]
             ELSE [s EXCEPT !.block_in_use = @ + 1]
    IN  [t EXCEPT !.block_pool[NewBlock(s)] = NoBlock]

RecycleBlock(s, i) ==
    [s EXCEPT !.block_pool[i].in_use = FALSE, !.recycled_blocks = Append(@, i)]

\* One block after the other, in the order of their identities.
RecycleBlocks(s, ids) ==
    MapThenFoldSet(LAMBDA i, t : RecycleBlock(t, i), s, LAMBDA i : i, Max, ids)

\* TryMove(): the player's neighbours that the stone would join, the opponent's
\* that it would capture (dieId), and the block that it would form.
Joined(s, p) ==
    {i \in NeighbourBlocks(s, p) : s.block_pool[i].color = s.current_player}

Dying(s, p) ==
    {i \in NeighbourBlocks(s, p) \ Joined(s, p) : Liberties(s.block_pool[i]) = 1}

TryMove(s, p) ==
    LET joined == {s.block_pool[i] : i \in Joined(s, p)}
        dying == {s.block_pool[i] : i \in Dying(s, p)}
        stones == {p} \cup UNION {b.stone_state : b \in joined}
        virtual == (Neighbours(p) \cup UNION {b.virtual_liberty_state : b \in joined})
                     \ stones
        open == {q \in Neighbours(p) : s.board_state[q] = EMPTY}
    IN  [in_use |-> FALSE, color |-> s.current_player, stones |-> <<>>,
         stone_state |-> stones, virtual_liberty_state |-> virtual,
         liberty_state |-> virtual \cap (open \cup (UNION {b.liberty_state : b \in joined})
                                              \cup (UNION {b.stone_state : b \in dying}))]

-----------------------------------------------------------------------------
(* The hash.                                                               *)

Xor(hash, weights) == (hash \ weights) \cup (weights \ hash)

\* Both players' weights are xor-ed in together: it is white's turn.
PlayerWeights == {<<BLACK, UNSET>>, <<WHITE, UNSET>>}

\* Variant of GetNewHashValue: the captured stones stay in the hash.
HashKeepsCaptured(s, p) ==
    Xor(s.zobrist_hash,
        PlayerWeights \cup (IF p = PASS THEN {} ELSE {<<s.current_player, p>>}))

\* GetNewHashValue()
GetNewHashValue(s, p) ==
    IF p = PASS THEN Xor(s.zobrist_hash, PlayerWeights)
    ELSE LET captured == UNION {s.block_pool[i].stone_state : i \in Dying(s, p)}
         IN  Xor(s.zobrist_hash,
                 PlayerWeights \cup {<<s.current_player, p>>}
                     \cup {<<Opponent(s.current_player), c>> : c \in captured})

-----------------------------------------------------------------------------
(* Moves.                                                                  *)

\* Variant of LegalMoves: a suicide is allowed.
LegalSuicides(s) == {p \in Points : s.board_state[p] = EMPTY /\ p # s.ko_position}

\* A point with an empty neighbour is legal without further tests; any other must
\* leave the stone a liberty and, with superko, a position that is new.
LegalMoves(s) ==
    LET open(p) == \E q \in Neighbours(p) : s.board_state[q] = EMPTY
        alive(p) == TryMove(s, p).liberty_state # {}
        repeats(p) == /\ s.positional_superko
                      /\ GetNewHashValue(s, p) \in s.board_hash_states
    IN  {p \in Points : /\ s.board_state[p] = EMPTY
                        /\ p # s.ko_position
                        /\ open(p) \/ (alive(p) /\ ~repeats(p))}

StonesOf(s, color) == {p \in Points : s.board_state[p] = color}

\* Variant of GetSensibleMove: the block is not given back.
SensibleMoveKeepsBlock(s) == [GetNewBlock(s) EXCEPT !.legal_move_map = LegalMoves(s)]

\* GetSensibleMove(): the stones of both colours join the history, black first; the
\* block that the tests of legality need is taken and given back.
GetSensibleMove(s) ==
    [RecycleBlock(GetNewBlock(s), NewBlock(s)) EXCEPT
        !.feature_history_list = @ \o <<StonesOf(s, BLACK), StonesOf(s, WHITE)>>,
        !.legal_move_map = LegalMoves(s)]

\* The plane that shows whether black is to move.
ColourPlane(s) == IF s.current_player = BLACK THEN Points ELSE {}

\* Variant of GetFeature: black's planes first, whoever is to move.
FeatureBlackFirst(s) ==
    [i \in 0 .. SIZE_HISTORYEACHSIDE |->
        LET list == s.feature_history_list
            swapped == IF i % 2 = 0 THEN i + 1 ELSE i - 1
        IN  IF i = SIZE_HISTORYEACHSIDE THEN ColourPlane(s)
            ELSE IF i < Len(list) THEN list[Len(list) - swapped] ELSE {}]

\* GetFeature(): the newest planes first; since black's planes come first in the
\* history, those of each pair are swapped when black is to move.
GetFeature(s) ==
    [i \in 0 .. SIZE_HISTORYEACHSIDE |->
        LET list == s.feature_history_list
            swapped == IF i % 2 = 0 THEN i + 1 ELSE i - 1
            back == IF s.current_player = BLACK THEN swapped ELSE i
        IN  IF i = SIZE_HISTORYEACHSIDE THEN ColourPlane(s)
            ELSE IF i < Len(list) THEN list[Len(list) - back] ELSE {}]

\* The end of Move(): the other player's turn, his legal moves, and only then
\* the position becomes one that must not be repeated.
EndMove(s) ==
    LET t == GetSensibleMove([s EXCEPT !.current_player = Opponent(@)])
    IN  [t EXCEPT !.board_hash_states =
            IF s.positional_superko THEN @ \cup {s.zobrist_hash} ELSE @]

Pass(s) ==
    EndMove([s EXCEPT !.is_double_pass = s.last_position = PASS,
                      !.last_position = PASS,
                      !.ko_position = UNSET,
                      !.zobrist_hash = GetNewHashValue(s, PASS)])

\* MergeBlocks(): the stones of the new block, and of the blocks it joins in the
\* order of their identities, each before those that are there.
MergedStones(s, p) ==
    MapThenFoldSet(LAMBDA stones, list : stones \o list, <<p>>,
                   LAMBDA i : s.block_pool[i].stones, Max, Joined(s, p))

\* The move's first half: the new block with the blocks it joins.
Merge(s, p) ==
    LET id == NewBlock(s)
        tails == {Last(s.block_pool[i].stones) : i \in Joined(s, p)}
        n == GetNewBlock(s)
        t == [n EXCEPT
                !.parent_id = [q \in Points |-> IF q \in tails \cup {p} THEN p ELSE @[q]],
                !.block_id[p] = id,
                !.block_pool = [i \in BlockIds |->
                    IF i = id
                    THEN [TryMove(s, p) EXCEPT !.in_use = TRUE, !.stones = MergedStones(s, p)]
                    ELSE IF i \in NeighbourBlocks(s, p)
                    THEN [n.block_pool[i] EXCEPT !.liberty_state = @ \ {p}]
                    ELSE n.block_pool[i]]]
    IN  RecycleBlocks(t, Joined(s, p))

\* Variant of Capture: the points of the captured stones are not given back as
\* liberties.
CaptureKeepsPoints(s, p, t) ==
    LET captured == UNION {s.block_pool[i].stone_state : i \in Dying(s, p)}
    IN  RecycleBlocks(
            [t EXCEPT !.board_state =
                 [q \in Points |-> IF q \in captured THEN EMPTY ELSE @[q]]],
            Dying(s, p))

\* The second half: the captured stones come off the board and their points are
\* liberties of the player's blocks around them.
Capture(s, p, t) ==
    LET captured == UNION {s.block_pool[i].stone_state : i \in Dying(s, p)}
        own(c) == {q \in Neighbours(c) : s.board_state[q] = s.current_player}
        gained(i) == {c \in captured : \E q \in own(c) : GetBlockIdByCoord(t, q) = i}
    IN  RecycleBlocks(
            [t EXCEPT !.board_state =
                          [q \in Points |-> IF q \in captured THEN EMPTY ELSE @[q]],
                      !.block_pool =
                          [i \in BlockIds |->
                              [t.block_pool[i] EXCEPT !.liberty_state = @ \cup gained(i)]]],
            Dying(s, p))

\* Variant of KoPosition: a ko is not noticed.
KoForgotten(s, p) == UNSET

\* A stone that captured one and is itself in atari.
KoPosition(s, p) ==
    LET new == TryMove(s, p)
        ko == {i \in Dying(s, p) : /\ Size(s.block_pool[i]) = 1
                                   /\ Size(new) = 1 /\ Liberties(new) = 1}
    IN  IF ko = {} THEN UNSET
        ELSE Head(s.block_pool[CHOOSE i \in ko : TRUE].stones)

\* The counts of the blocks that the move has touched are renewed.
LibertyCounts(s, p, t) ==
    LET captured == {q \in Points : s.board_state[q] # EMPTY /\ t.board_state[q] = EMPTY}
        near == UNION {Neighbours(c) : c \in captured}
        touched == NeighbourBlocks(s, p) \cup {t.block_id[p]} \cup
                     {GetBlockIdByCoord(t, q) :
                        q \in {n \in near : t.board_state[n] = s.current_player}}
        of(q) == {i \in touched : t.block_pool[i].in_use
                                    /\ q \in ToSet(t.block_pool[i].stones)}
    IN  [q \in Points |->
            IF q \in captured THEN 0
            ELSE IF of(q) = {} THEN s.liberty_count[q]
            ELSE Liberties(t.block_pool[CHOOSE i \in of(q) : TRUE])]

Place(s, p) ==
    LET t == Capture(s, p, Merge(s, p))
    IN  EndMove([t EXCEPT !.is_double_pass = FALSE,
                          !.last_position = p,
                          !.ko_position = KoPosition(s, p),
                          !.zobrist_hash = GetNewHashValue(s, p),
                          !.liberty_count = LibertyCounts(s, p, t),
                          !.board_state[p] = s.current_player])

IsLegal(s, p) == p = PASS \/ p \in s.legal_move_map

-----------------------------------------------------------------------------
(* Scores.                                                                 *)

\* A point is taken from the stack: its empty neighbours that are new join the
\* region, and the colours of all its neighbours are noted.
RegionStep(s, r) ==
    LET new == {n \in Neighbours(Last(r.stack)) : n \notin r.vis}
        empty == {n \in new : s.board_state[n] = EMPTY}
    IN  IF r.stack = <<>> THEN r
        ELSE [stack    |-> Front(r.stack) \o SetToSeq(empty),
              vis      |-> r.vis \cup empty,
              colorSet |-> r.colorSet \cup ({s.board_state[n] : n \in new} \ {EMPTY}),
              cnt      |-> r.cnt + Cardinality(empty)]

\* Variant of CalcRegionScore: a point between both colours counts too.
CalcRegionShared(s, p, color, vis) ==
    LET r == FoldLeft(LAMBDA q, k : RegionStep(s, q),
                      [stack |-> <<p>>, vis |-> vis \cup {p}, colorSet |-> {}, cnt |-> 1],
                      [k \in 1 .. Rows * Columns |-> k])
    IN  [cnt |-> IF color \in r.colorSet THEN r.cnt ELSE 0, vis |-> r.vis]

\* CalcRegionScore(): the points of p's region if only stones of the colour border
\* on it, and the points visited.
CalcRegionScore(s, p, color, vis) ==
    LET r == FoldLeft(LAMBDA q, k : RegionStep(s, q),
                      [stack |-> <<p>>, vis |-> vis \cup {p}, colorSet |-> {}, cnt |-> 1],
                      [k \in 1 .. Rows * Columns |-> k])
    IN  [cnt |-> IF r.colorSet = {color} THEN r.cnt ELSE 0, vis |-> r.vis]

CalcScoreWithColor(s, color) ==
    FoldLeft(LAMBDA acc, p :
                 IF p \in acc.vis THEN acc
                 ELSE IF s.board_state[p] = color THEN [acc EXCEPT !.cnt = @ + 1]
                 ELSE IF s.board_state[p] # EMPTY THEN acc
                 ELSE LET r == CalcRegionScore(s, p, color, acc.vis)
                      IN  [cnt |-> acc.cnt + r.cnt, vis |-> r.vis],
             [cnt |-> 0, vis |-> {}],
             [k \in 1 .. Rows * Columns |-> k - 1]).cnt

CalcScore(s) == CalcScoreWithColor(s, BLACK) - CalcScoreWithColor(s, WHITE)

GetWinner(s) == IF CalcScore(s) > Komi THEN BLACK ELSE WHITE

-----------------------------------------------------------------------------
Position(s) == [board |-> s.board_state, player |-> s.current_player]

Init ==
    /\ state \in {NewGame(superko) : superko \in BOOLEAN}
    /\ record = <<Position(state)>>

\* Move() of a legal move; any other returns an error and changes nothing.
Move(p) ==
    /\ Len(record) <= MaxMoves
    /\ IsLegal(state, p)
    /\ state' = IF p = PASS THEN Pass(state) ELSE Place(state, p)
    /\ record' = Append(record, Position(state'))

Next == \E p \in Points \cup {PASS} : Move(p)

vars == <<state, record>>

Spec == Init /\ [][Next]_vars

-----------------------------------------------------------------------------
(* The rules, defined on a board alone.                                    *)

\* The stones connected with p, grown from p a step at a time.
Chain(board, p) ==
    LET grown[k \in 0 .. Rows * Columns] ==
            IF k = 0 THEN {p}
            ELSE LET g == grown[k - 1]
                 IN  g \cup {q \in UNION {Neighbours(x) : x \in g} : board[q] = board[p]}
    IN  grown[Rows * Columns]

ChainLiberties(board, chain) ==
    {q \in UNION {Neighbours(x) : x \in chain} : board[q] = EMPTY}

Stones(board) == {p \in Points : board[p] # EMPTY}

\* The board after a stone of the given colour, captured stones taken off.
Played(board, color, p) ==
    LET with == [board EXCEPT ![p] = color]
        dead == {q \in Stones(with) : /\ with[q] = Opponent(color)
                                      /\ ChainLiberties(with, Chain(with, q)) = {}}
    IN  [q \in Points |-> IF q \in dead THEN EMPTY ELSE with[q]]

Suicide(board, color, p) ==
    LET after == Played(board, color, p)
    IN  ChainLiberties(after, Chain(after, p)) = {}

\* The position with the other player to move has been on the board before.
Repeats(p) ==
    \E i \in 1 .. Len(record) :
        record[i] = [board  |-> Played(state.board_state, state.current_player, p),
                     player |-> Opponent(state.current_player)]

\* The points of a colour: its stones, and the empty points from which one comes to
\* stones of no other colour.
Area(board, color) ==
    LET reached(p) == {board[q] : q \in UNION {Neighbours(x) : x \in Chain(board, p)}}
    IN  {p \in Points : \/ board[p] = color
                        \/ board[p] = EMPTY /\ reached(p) \ {EMPTY} = {color}}

-----------------------------------------------------------------------------
\* After any sequence of moves the block that the union-find structure names for
\* a stone is the chain the stone belongs to, with exactly its liberties, and the
\* liberty counts that the features show are right.
BlocksAreChains ==
    \A p \in Points :
        IF state.board_state[p] = EMPTY
        THEN state.liberty_count[p] = 0
        ELSE LET chain == Chain(state.board_state, p)
                 block == state.block_pool[GetBlockIdByCoord(state, p)]
             IN  /\ block.in_use
                 /\ block.color = state.board_state[p]
                 /\ block.stone_state = chain
                 /\ ToSet(block.stones) = chain
                 /\ Len(block.stones) = Cardinality(chain)
                 /\ block.liberty_state = ChainLiberties(state.board_state, chain)
                 /\ state.liberty_count[p] = Liberties(block)

\* Every block taken from the pool is in use for the stones of one chain or waits
\* to be used again, once: merging, capturing and the tests of legality give back
\* what they take.
PoolAccounted ==
    LET used == {i \in BlockIds : state.block_pool[i].in_use}
        free == ToSet(state.recycled_blocks)
    IN  /\ used \cap free = {}
        /\ used \cup free = 0 .. state.block_in_use - 1
        /\ Cardinality(free) = Len(state.recycled_blocks)
        /\ used = {GetBlockIdByCoord(state, p) : p \in Stones(state.board_state)}

\* A move that is allowed is no suicide, and a move on an empty point is forbidden
\* for a reason: it is suicide, or the position would repeat.
LegalMovesJustified ==
    LET board == state.board_state
        color == state.current_player
    IN  \A p \in Points \ Stones(board) :
            IF p \in state.legal_move_map
            THEN ~Suicide(board, color, p)
            ELSE Suicide(board, color, p) \/ Repeats(p)

\* Ko, with or without superko: no stone brings back the board of two moves ago.
NoRecapture ==
    LET n == Len(record)
    IN  n > 2 /\ state.last_position # PASS => record[n].board # record[n - 2].board

\* The hash built move by move depends on the position only, on which the cache of
\* evaluations and the superko test rely.
HashNamesPosition ==
    state.zobrist_hash =
        {<<state.board_state[p], p>> : p \in Stones(state.board_state)}
            \cup (IF state.current_player = WHITE THEN PlayerWeights ELSE {})

\* The planes that the network sees are the boards of the last moves, the newest
\* first, and of each the stones of the player to move before his opponent's.
FeaturesShowHistory ==
    LET n == Len(record)
        self == state.current_player
        stones(k, color) ==
            IF k < n - 1 THEN {p \in Points : record[n - k].board[p] = color} ELSE {}
    IN  \A k \in 0 .. SIZE_HISTORYEACHSIDE \div 2 - 1 :
            /\ GetFeature(state)[2 * k] = stones(k, self)
            /\ GetFeature(state)[2 * k + 1] = stones(k, Opponent(self))

\* Each colour's count is its area, although it visits the regions of the board in
\* one go, and black wins with more of it than the komi: no region is counted twice,
\* left out, or counted for both.  Self-play's results and the value of finished
\* games in a search rest on it.
ScoreIsArea ==
    LET area(color) == Cardinality(Area(state.board_state, color))
    IN  /\ \A color \in {BLACK, WHITE} : CalcScoreWithColor(state, color) = area(color)
        /\ (GetWinner(state) = BLACK) = (area(BLACK) - area(WHITE) > Komi)

\* With superko no stone brings back an earlier position.
NoRepetition ==
    LET n == Len(record)
    IN  state.positional_superko /\ state.last_position # PASS =>
            \A i \in 1 .. n - 1 : record[i] # record[n]

=============================================================================
