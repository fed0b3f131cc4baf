------------------------------ MODULE GtpGame ------------------------------
(***************************************************************************)
(* The GTP front end (mcts_main.cc) and the engine's record of the game:   *)
(* the commands that change it, undo by replaying a shortened record, the  *)
(* clocks, and the configuration that play and genmove load again from its *)
(* file while an evaluation thread reads the global copy of it.            *)
(*                                                                         *)
(* The board is a GoState of GoRules.  A command is a list of moves to     *)
(* make and, for genmove, a search.  The search itself is SearchThreads    *)
(* and SearchTree: here it ends with any move.  The record is a text of    *)
(* two letters for each move and commas between them, here the sequence of *)
(* the moves; where the code computes with the length of the text, so does *)
(* the model.  Times are left out, of a clock it is kept whether it runs   *)
(* and for whom.  disable_double_pass_scoring is unset in all              *)
(* configurations.                                                         *)
(***************************************************************************)
EXTENDS Integers, Sequences, FiniteSets

CONSTANTS
    Rows, Columns, SIZE_HISTORYEACHSIDE, Komi, MaxMoves,   \* as in GoRules
    Configs,         \* the configurations that the file may hold
    DefaultConfig,   \* MCTSConfig with no field set
    InitMoves,       \* the lists of moves that --init_moves may give, also illegal ones
    NULL,
    MaxCommands      \* bound of the model: commands that are executed

Fields == [enable_background_search   : BOOLEAN,
           enable_pass_pass           : BOOLEAN,
           disable_pass               : BOOLEAN,
           max_gen_passes             : Int,
           disable_positional_superko : BOOLEAN,
           time_control               : BOOLEAN]

ASSUME GtpAssumption ==
    /\ {Rows, Columns} \subseteq Nat \ {0}
    /\ Rows * Columns > 1
    /\ SIZE_HISTORYEACHSIDE \in Nat
    /\ SIZE_HISTORYEACHSIDE % 2 = 0
    /\ {Komi, MaxMoves} \subseteq Nat
    /\ Configs \subseteq Fields
    /\ DefaultConfig \in Fields
    /\ NULL \notin Fields
    /\ \A moves \in InitMoves : moves \in Seq(0 .. Rows * Columns - 1 \cup {-1})
    /\ MaxCommands \in Nat

VARIABLES
    g_config,
    m_config, m_pending_config,
    m_board, m_moves_str, m_num_moves, m_gen_passes,
    m_byo_yomi_timer,    \* whether it is enabled, and m_curr_player
    m_is_searching,
    gtp,                 \* the command in execution and where it is
    eval_thread,         \* "pop", "read" g_config next, or "crashed"
    commands,            \* commands so far
    resigned,            \* the last Move was a resignation
    replayed,            \* moves that the last Reset put on the board
    clean                \* no Reset has met a move that its board does not allow

vars == <<g_config, m_config, m_pending_config, m_board, m_moves_str, m_num_moves,
          m_gen_passes, m_byo_yomi_timer, m_is_searching, gtp, eval_thread, commands,
          resigned, replayed, clean>>

\* What a step of the GTP thread leaves alone.
configs == <<g_config, m_config, m_pending_config>>
game == <<m_board, m_moves_str, m_num_moves, m_gen_passes, replayed, clean>>

Go == INSTANCE GoRules WITH state <- m_board, record <- m_moves_str

RESIGN == -3
Idle == [at |-> "idle"]

-----------------------------------------------------------------------------
(* The text of the record: two letters a move, commas between moves.       *)

TextLength(n) == IF n = 0 THEN 0 ELSE 3 * n - 1

\* Variant of MovesIn: the last move has no comma after it.
MovesInShort(length) == length \div 3

MovesIn(length) == (length + 1) \div 3

\* substr(0, count): the length of the text wraps round below zero, and a count
\* beyond the end of the text takes all of it.
Cut(moves, count) ==
    IF count < 0 \/ count >= TextLength(Len(moves)) THEN moves
    ELSE SubSeq(moves, 1, MovesIn(count))

\* GoState::Move(): one that is not legal returns an error and changes nothing.
MoveOn(board, move) ==
    IF ~Go!IsLegal(board, move) THEN board
    ELSE IF move = Go!PASS THEN Go!Pass(board)
    ELSE Go!Place(board, move)

\* GoState(positional_superko) and one Move() after the other, whose errors are ignored.
Replay(positional_superko, moves) ==
    LET after[n \in 0 .. Len(moves)] ==
            IF n = 0 THEN Go!NewGame(positional_superko)
            ELSE MoveOn(after[n - 1], moves[n])
    IN  after[Len(moves)]

\* The moves on a board, each of which has left two planes in its history.
MovesPlayed(board) == Len(board.feature_history_list) \div 2

-----------------------------------------------------------------------------
(* The clocks.                                                             *)

TimerReset == [enable |-> FALSE, curr_player |-> Go!BLACK]

\* Move() and GenMove() start the clocks if the configuration has times.
TimerStarted(timer) == [timer EXCEPT !.enable = @ \/ m_config.time_control]

HandOff(timer) == [timer EXCEPT !.curr_player = Go!Opponent(@)]

-----------------------------------------------------------------------------
(* The engine's operations.                                                *)

\* SearchResume(): a search that is to begin on a finished game never gets its
\* root expanded, and InitRoot() does not return.
Hangs(board) == ~m_is_searching /\ board.is_double_pass

\* Reset(init_moves), with which a command ends.
Reset(moves) ==
    /\ m_board' = Replay(~m_config.disable_positional_superko, moves)
    /\ m_moves_str' = moves
    /\ m_num_moves' = MovesIn(TextLength(Len(moves)))
    /\ m_gen_passes' = 0
    /\ m_byo_yomi_timer' = TimerReset
    /\ m_is_searching' = (m_config.enable_background_search /\ ~m_board'.is_double_pass)
    /\ gtp' = IF m_config.enable_background_search /\ m_board'.is_double_pass
              THEN [at |-> "hung"] ELSE Idle
    /\ replayed' = MovesPlayed(m_board')
    /\ clean' = (moves = <<>> \/ (clean /\ m_board'.positional_superko = m_board.positional_superko))
    /\ UNCHANGED <<configs, eval_thread, resigned>>

\* Variant of Resign: the clock is handed to the opponent.
ResignHandsOff ==
    /\ m_byo_yomi_timer' = HandOff(TimerStarted(m_byo_yomi_timer))
    /\ m_is_searching' = FALSE
    /\ gtp' = [gtp EXCEPT !.todo = Tail(@)]
    /\ resigned' = TRUE
    /\ UNCHANGED <<configs, game>>

\* Move() with a resignation pauses the search and returns.
Resign ==
    /\ m_byo_yomi_timer' = TimerStarted(m_byo_yomi_timer)
    /\ m_is_searching' = FALSE
    /\ gtp' = [gtp EXCEPT !.todo = Tail(@)]
    /\ resigned' = TRUE
    /\ UNCHANGED <<configs, game>>

\* Move() with a move that the board does not allow: CHECK_EQ ends the process.
Abort ==
    /\ m_byo_yomi_timer' = TimerStarted(m_byo_yomi_timer)
    /\ m_is_searching' = FALSE
    /\ gtp' = [at |-> "aborted"]
    /\ UNCHANGED <<configs, game, resigned>>

\* The configuration that Move() leaves: a pending one is taken.
Taken == IF m_pending_config = NULL THEN m_config ELSE m_pending_config

\* Variant of TakePending: at the end of the game it is left for later.
TakePendingLate(board) ==
    IF board.is_double_pass THEN UNCHANGED <<m_config, m_pending_config>>
    ELSE m_config' = Taken /\ m_pending_config' = NULL

TakePending(board) == m_config' = Taken /\ m_pending_config' = NULL

\* Any other Move(): board, record, clock, configuration, and the background search
\* goes on unless the game is over.
MakeMove(move) ==
    LET board == MoveOn(m_board, move)
    IN  /\ Len(m_moves_str) < MaxMoves
        /\ m_board' = board
        /\ m_num_moves' = m_num_moves + 1
        /\ m_moves_str' = Append(m_moves_str, move)
        /\ m_byo_yomi_timer' = HandOff(TimerStarted(m_byo_yomi_timer))
        /\ TakePending(board)
        /\ m_is_searching' = (Taken.enable_background_search /\ ~board.is_double_pass)
        /\ gtp' = [gtp EXCEPT !.todo = Tail(@)]
        /\ resigned' = FALSE
        /\ UNCHANGED <<g_config, m_gen_passes, replayed, clean>>

\* Move(), for the next move of the command.
Move ==
    /\ gtp.at = "moving"
    /\ gtp.todo # <<>>
    /\ LET move == Head(gtp.todo)
       IN  IF move = RESIGN THEN Resign
           ELSE IF Go!IsLegal(m_board, move) THEN MakeMove(move) ELSE Abort
    /\ UNCHANGED <<eval_thread, commands>>

-----------------------------------------------------------------------------
(* GenMove(), after the moves that come before it.                         *)

\* The move is chosen; it is played next.
Chosen(move) ==
    /\ gtp' = [at |-> "moving", todo |-> <<move>>, genmove |-> FALSE]
    /\ m_gen_passes' = m_gen_passes + (IF move = Go!PASS THEN 1 ELSE 0)

IsPassDisable ==
    \/ m_config.disable_pass
    \/ m_config.max_gen_passes # 0 /\ m_gen_passes >= m_config.max_gen_passes

GenMove ==
    /\ gtp.at = "moving"
    /\ gtp.todo = <<>>
    /\ gtp.genmove
    /\ m_byo_yomi_timer' = TimerStarted(m_byo_yomi_timer)
    /\ IF m_config.enable_pass_pass /\ m_board.last_position = Go!PASS /\ ~IsPassDisable
       THEN Chosen(Go!PASS) /\ UNCHANGED m_is_searching
       ELSE /\ m_is_searching' = ~Hangs(m_board)
            /\ gtp' = [at |-> IF Hangs(m_board) THEN "hung" ELSE "thinking"]
            /\ UNCHANGED m_gen_passes
    /\ UNCHANGED <<configs, m_board, m_moves_str, m_num_moves, eval_thread, commands,
                   replayed, clean, resigned>>

\* GetBestMove() and GetSamplingMove(): some child of the root, or a resignation.  A pass
\* that is disabled counts as not visited, and may be the best all the same.
BestMoves(board) == board.legal_move_map \cup {Go!PASS, RESIGN}

GenMoveReturn ==
    /\ gtp.at = "thinking"
    /\ m_is_searching' = FALSE
    /\ \E move \in BestMoves(m_board) : Chosen(move)
    /\ UNCHANGED <<configs, m_board, m_moves_str, m_num_moves, m_byo_yomi_timer,
                   eval_thread, commands, replayed, clean, resigned>>

-----------------------------------------------------------------------------
(* ReloadConfig(): a new configuration object, filled from the file as far *)
(* as it can be read, and given to the engine if it differs from its own.  *)

ReloadReset ==
    /\ gtp.at = "reload"
    /\ g_config' = DefaultConfig
    /\ gtp' = [gtp EXCEPT !.at = "parse"]
    /\ UNCHANGED <<m_config, m_pending_config, game, m_byo_yomi_timer, m_is_searching,
                   eval_thread, commands, resigned>>

\* The file may hold any configuration by now, or be unreadable.
ReloadParse ==
    /\ gtp.at = "parse"
    /\ g_config' \in Configs \cup {DefaultConfig}
    /\ gtp' = [gtp EXCEPT !.at = "compare"]
    /\ UNCHANGED <<m_config, m_pending_config, game, m_byo_yomi_timer, m_is_searching,
                   eval_thread, commands, resigned>>

ReloadCompare ==
    /\ gtp.at = "compare"
    /\ IF g_config = m_config THEN UNCHANGED <<g_config, m_pending_config>>
       ELSE g_config' = NULL /\ m_pending_config' = g_config
    /\ gtp' = [gtp EXCEPT !.at = "moving"]
    /\ UNCHANGED <<m_config, game, m_byo_yomi_timer, m_is_searching,
                   eval_thread, commands, resigned>>

-----------------------------------------------------------------------------
(* The commands.                                                           *)

Command == gtp.at = "idle" /\ commands < MaxCommands /\ commands' = commands + 1

\* clear_board and boardsize
ClearBoard == Command /\ Reset(<<>>)

\* Variant of Undo: the opponent's move before it is taken back too.
UndoBoth ==
    /\ Command
    /\ m_num_moves # 0
    /\ Reset(Cut(m_moves_str, TextLength(Len(m_moves_str)) - 6))

\* undo: three characters less.
Undo ==
    /\ Command
    /\ m_num_moves # 0
    /\ Reset(Cut(m_moves_str, TextLength(Len(m_moves_str)) - 3))

\* time_settings
TimeSettings ==
    /\ Command
    /\ m_byo_yomi_timer' = [m_byo_yomi_timer EXCEPT !.enable = TRUE]
    /\ UNCHANGED <<configs, game, m_is_searching, gtp, eval_thread, resigned>>

\* place_free_handicap and set_free_handicap: white passes after each stone but the last.
Handicap ==
    /\ Command
    /\ \E p, q \in Go!Points :
          gtp' = [at |-> "moving", genmove |-> FALSE,
                  todo |-> IF p = q THEN <<p>> ELSE <<p, Go!PASS, q>>]
    /\ UNCHANGED <<configs, game, m_byo_yomi_timer, m_is_searching, eval_thread, resigned>>

\* play and genmove: if it is the other player's turn, he passes first.
Turn(color, moves) == IF color = m_board.current_player THEN moves ELSE <<Go!PASS>> \o moves

Play ==
    /\ Command
    /\ \E color \in {Go!BLACK, Go!WHITE}, move \in Go!Points \cup {Go!PASS, RESIGN} :
          gtp' = [at |-> "reload", todo |-> Turn(color, <<move>>), genmove |-> FALSE]
    /\ UNCHANGED <<configs, game, m_byo_yomi_timer, m_is_searching, eval_thread, resigned>>

GenMoveCommand ==
    /\ Command
    /\ \E color \in {Go!BLACK, Go!WHITE} :
          gtp' = [at |-> "reload", todo |-> Turn(color, <<>>), genmove |-> TRUE]
    /\ UNCHANGED <<configs, game, m_byo_yomi_timer, m_is_searching, eval_thread, resigned>>

Answer ==
    /\ gtp.at = "moving"
    /\ gtp.todo = <<>>
    /\ ~gtp.genmove
    /\ gtp' = Idle
    /\ UNCHANGED <<configs, game, m_byo_yomi_timer, m_is_searching, eval_thread, commands,
                   resigned>>

GTPExecute ==
    \/ ClearBoard \/ Undo \/ TimeSettings \/ Handicap \/ Play \/ GenMoveCommand
    \/ ReloadReset \/ ReloadParse \/ ReloadCompare
    \/ Move \/ GenMove \/ GenMoveReturn \/ Answer

-----------------------------------------------------------------------------
(* An evaluation thread reads eval_batch_size from g_config before each    *)
(* task it takes, and so again after each task that a search gives it.     *)

EvalTask ==
    /\ m_is_searching
    /\ eval_thread = "pop"
    /\ eval_thread' = "read"
    /\ UNCHANGED <<configs, game, m_byo_yomi_timer, m_is_searching, gtp, commands, resigned>>

EvalRead ==
    /\ eval_thread = "read"
    /\ eval_thread' = IF g_config = NULL THEN "crashed" ELSE "pop"
    /\ UNCHANGED <<configs, game, m_byo_yomi_timer, m_is_searching, gtp, commands, resigned>>

-----------------------------------------------------------------------------
\* GTPServing(): the configuration, the initial moves, the evaluation threads and the
\* background search, in this order; with initial moves the background search
\* waits in Reset() for an evaluation thread that is not there yet.
Init ==
    /\ g_config \in Configs
    /\ m_config = g_config
    /\ m_pending_config = NULL
    /\ \E init_moves \in InitMoves :
          /\ m_board = Replay(~m_config.disable_positional_superko, init_moves)
          /\ m_moves_str = init_moves
          /\ m_num_moves = Len(init_moves)
          /\ replayed = MovesPlayed(m_board)
          /\ clean = (replayed = Len(init_moves))
          /\ gtp = IF init_moves # <<>> /\ m_config.enable_background_search
                   THEN [at |-> "hung"] ELSE Idle
    /\ m_gen_passes = 0
    /\ m_byo_yomi_timer = TimerReset
    /\ m_is_searching = (m_config.enable_background_search /\ gtp = Idle)
    /\ eval_thread = "read"
    /\ commands = 0
    /\ resigned = FALSE

Next ==
    /\ eval_thread # "crashed"
    /\ gtp.at # "aborted"
    /\ GTPExecute \/ EvalTask \/ EvalRead

Spec == Init /\ [][Next]_vars

-----------------------------------------------------------------------------
\* The record of the moves, which undo cuts as a text and replays, gives the board when
\* it is replayed by the rules of the board: the same state, history, hash and legal moves
\* included, and it has the counted number of moves.  Every move of it is on the board
\* unless --init_moves gave one that is not legal, or a Reset replayed the record after a
\* configuration had changed the rules: an error of m_board.Move() is then ignored.
RecordIsGame ==
    /\ m_board = Replay(m_board.positional_superko, m_moves_str)
    /\ m_num_moves = Len(m_moves_str)
    /\ clean => MovesPlayed(m_board) = Len(m_moves_str)

\* The record grows and shrinks at its end by one move at a time, unless it is cleared.
RecordChangesByOneMove ==
    [][\/ m_moves_str' \in {<<>>, m_moves_str}
       \/ \E p \in Go!Points \cup {Go!PASS} :
             m_moves_str' = Append(m_moves_str, p) \/ m_moves_str = Append(m_moves_str', p)]_vars

\* The clock runs for the player to move, unless the moves that Reset put on the board,
\* while it made it black's clock, left white to move; then always for the other.
ClockOfPlayerToMove ==
    (m_byo_yomi_timer.curr_player = m_board.current_player) <=> (replayed % 2 = 0)

\* A configuration that was loaded again waits for the next move only, in whichever
\* position that move leaves the game, and is left behind by a resignation alone.
PendingConfigTaken ==
    gtp.at = "idle" /\ ~resigned => m_pending_config = NULL

\* An evaluation thread finds a configuration whenever it reads one.
EvalThreadsHaveConfig == eval_thread # "crashed"

=============================================================================
