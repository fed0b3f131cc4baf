------------------------------ MODULE SelfPlay ------------------------------
(***************************************************************************)
(* main() of mcts_main.cc runs the program in one of three ways: as a      *)
(* server of GTP commands, as self-play, or for a single move.  GtpGame is *)
(* the first; here are the other two, with the same engine operations.     *)
(*                                                                         *)
(* One self-play engine is modelled: the others share only the evaluation  *)
(* threads with it.  Between its games nothing is reset, so that the next  *)
(* game goes on where the last one ended; after two passes it hangs in its *)
(* first search or, with enable_pass_pass, ends with a third pass.  Of a   *)
(* TrainData the winner is kept.  Self-play with background search is left *)
(* out: main()'s SearchResume then runs next to the self-play thread's.    *)
(***************************************************************************)
EXTENDS GtpGame

CONSTANTS
    single_thread,   \* games for this engine: games_num / selfplay_thread_num
    GameLimit        \* moves at which a game is broken off, in the code 500

ASSUME SelfPlayAssumption == single_thread \in Nat \ {0} /\ GameLimit \in Nat \ {0}

VARIABLES
    flag,        \* the flags gtp and selfplay: "gtp", "selfplay" or "once"
    onegame,     \* m_winner of each TrainData of the game so far
    winners      \* the winner of each finished game

self == <<onegame, winners>>
mainVars == <<vars, flag, self>>

UNKNOWN == -1

MainInit ==
    /\ flag \in {"gtp", "selfplay", "once"}
    /\ onegame = <<>>
    /\ winners = <<>>
    /\ IF flag # "selfplay" THEN Init
       ELSE /\ g_config \in {c \in Configs \cup {DefaultConfig} : ~c.enable_background_search}
            /\ m_config = g_config
            /\ m_pending_config = NULL
            /\ m_board = Go!NewGame(~g_config.disable_positional_superko)
            /\ m_moves_str = <<>>
            /\ m_num_moves = 0 /\ m_gen_passes = 0 /\ replayed = 0 /\ commands = 0
            /\ gtp = Idle
            /\ m_byo_yomi_timer = TimerReset
            /\ m_is_searching = FALSE
            /\ resigned = FALSE /\ clean = TRUE
            /\ eval_thread = "read"

\* The thread asks the engine for a move.
AskMove ==
    /\ gtp = Idle
    /\ gtp' = [at |-> "moving", todo |-> <<>>, genmove |-> TRUE]
    /\ UNCHANGED <<configs, game, m_byo_yomi_timer, m_is_searching, eval_thread, resigned>>

-----------------------------------------------------------------------------
(* RunOnce() and RunSelfplay().                                            *)

m_selfplay_is_over == Len(winners) = single_thread

RunOnce ==
    /\ ~m_selfplay_is_over
    /\ AskMove
    /\ UNCHANGED <<commands, self>>

\* Variant of DataWinner: who resigns has won.
DataWinnerSelf(move) == IF move = RESIGN THEN m_board.current_player ELSE UNKNOWN

\* The move is not yet on the board when the sample is taken.
DataWinner(move) ==
    IF move = RESIGN THEN Go!Opponent(m_board.current_player)
    ELSE IF m_board.is_double_pass THEN Go!GetWinner(m_board)
    ELSE UNKNOWN

RunOnceMove ==
    /\ Move
    /\ onegame' = Append(onegame, DataWinner(Head(gtp.todo)))
    /\ UNCHANGED winners

\* The move has been made: the game goes on, or it is over, or too long.
RunOnceReturn ==
    /\ gtp = [at |-> "moving", todo |-> <<>>, genmove |-> FALSE]
    /\ gtp' = Idle
    /\ IF m_board.is_double_pass \/ resigned \/ Len(onegame) = GameLimit
       THEN LET last == onegame[Len(onegame)]
            IN  /\ winners' = Append(winners,
                                IF last = UNKNOWN THEN Go!GetWinner(m_board) ELSE last)
                /\ onegame' = <<>>
       ELSE UNCHANGED self
    /\ UNCHANGED <<configs, game, m_byo_yomi_timer, m_is_searching, eval_thread, commands,
                   resigned>>

RunSelfplay ==
    \/ RunOnce \/ RunOnceMove \/ RunOnceReturn
    \/ (GenMove \/ GenMoveReturn \/ EvalTask \/ EvalRead) /\ UNCHANGED self

-----------------------------------------------------------------------------
(* GenMoveOnce(): one move, and the program ends.                          *)

GenMoveOnceBegin == commands = 0 /\ commands' = 1 /\ AskMove

GenMoveOnce ==
    /\ GenMoveOnceBegin \/ GenMove \/ GenMoveReturn \/ Move \/ Answer \/ EvalTask \/ EvalRead
    /\ UNCHANGED self

MainNext ==
    /\ eval_thread # "crashed"
    /\ gtp.at # "aborted"
    /\ UNCHANGED flag
    /\ \/ flag = "gtp" /\ Next /\ UNCHANGED self
       \/ flag = "selfplay" /\ RunSelfplay
       \/ flag = "once" /\ GenMoveOnce

MainSpec == MainInit /\ [][MainNext]_mainVars

-----------------------------------------------------------------------------
\* A finished self-play game is won by the player whose opponent resigned, also when
\* games before it were scored, and otherwise by the one with more area on the board
\* that the last move left, be it the second pass or the last before the limit.
\* Between two games the board still shows the end of the first.
ResultOfGame ==
    flag = "selfplay" /\ winners # <<>> /\ onegame = <<>> =>
        LET area(color) == Cardinality(Go!Area(m_board.board_state, color))
            winner == winners[Len(winners)]
        IN  IF resigned THEN winner # m_board.current_player /\ winner # UNKNOWN
            ELSE (winner = Go!BLACK) = (area(Go!BLACK) - area(Go!WHITE) > Komi)

=============================================================================
