---------------------------- MODULE TimeControl ----------------------------
(***************************************************************************)
(* The time an MCTSEngine takes for a move: the clock it keeps for both    *)
(* players (ByoYomiTimer), the timeout it computes from it, and the waits  *)
(* of Search(), next to the clock on the arbiter's table.                  *)
(*                                                                         *)
(* Time is discrete and passes in Tick only: a wait ends when its timeout  *)
(* is over, and what a command costs otherwise is left to reserved_time.   *)
(* Divisions round down.  What depends on the tree, CheckEarlyStop,        *)
(* CheckUnstable, CheckBehind and the limits that end a search, is left    *)
(* open.  Resignations end the game and are left out; a pass that answers  *)
(* a pass without a search is a Play.                                      *)
(***************************************************************************)
EXTENDS Integers, FiniteSetsExt

CONSTANTS
    Configs,      \* the configurations: the fields of MCTSConfig about time
    TimeSettings, \* what time_settings may be sent: <<main time, byo-yomi time>>
    MaxMoves,     \* bound of the model
    MaxIdle,      \* bound of the model: time between two commands of a move, and in
                  \* a search without a timeout
    MaxCommands   \* bound of the model: commands that set a clock or clear the board

ASSUME TimeControlAssumption ==
    /\ {MaxMoves, MaxIdle, MaxCommands} \subseteq Nat
    /\ TimeSettings \subseteq Nat \X Nat
    /\ Configs \subseteq
         [enable : BOOLEAN, main_time : Nat, byo_yomi_time : Nat,
          c_denom : Nat \ {0}, c_maxply : Nat, reserved_time : Nat, min_time : Nat,
          byo_yomi_after : Nat,
          timeout_ms_per_step : Nat,      \* 0: none
          early_stop : BOOLEAN, check_every_ms : Nat \ {0},
          unstable_factor : Nat,          \* 0: not enabled
          behind_factor : Nat]

Players == {"black", "white"}
Opponent(p) == IF p = "black" THEN "white" ELSE "black"

VARIABLES
    config,
    m_num_moves,
    m_byo_yomi_timer,   \* the fields of ByoYomiTimer; timer: since its last Reset()
    at,                 \* the engine: "idle", in InitRoot() or in one of the waits
    timeout,            \* what GetSearchTimeoutUs has returned; -1: no limit
    left,               \* time to the end of the wait
    waited,             \* time since its beginning
    clock,              \* the arbiter's clock
    idle,               \* time between commands in this move
    used,               \* time since GetSearchTimeoutUs
    avail,              \* what the arbiter's clock left the player then, byo-yomi too
    commands            \* such commands so far

search == <<at, timeout, left, waited, used, avail>>
vars == <<config, m_num_moves, m_byo_yomi_timer, search, clock, idle, commands>>

current_player == IF m_num_moves % 2 = 0 THEN "black" ELSE "white"

-----------------------------------------------------------------------------
(* ByoYomiTimer.                                                           *)

Both(time) == [p \in Players |-> time]

TimerInit ==
    [enable |-> FALSE, remain |-> Both(0), byo_yomi |-> 0, curr |-> "black", timer |-> 0]

TimerSet(t, main_time, byo_yomi_time) ==
    [t EXCEPT !.enable = TRUE, !.remain = Both(main_time),
              !.byo_yomi = byo_yomi_time, !.timer = 0]

TimerReset(t) == TimerInit

HandOff(t) ==
    [t EXCEPT !.remain[t.curr] = @ - t.timer, !.curr = Opponent(@), !.timer = 0]

\* Variant of SetRemainTime: what has been used of this move counts twice.
SetRemainTimeOnly(t, p, time) == [t EXCEPT !.remain[p] = time]

SetRemainTime(t, p, time) ==
    [t EXCEPT !.remain[p] = time, !.timer = IF p = t.curr THEN 0 ELSE @]

GetRemainTime(t, p) == Max({t.remain[p] - (IF p = t.curr THEN t.timer ELSE 0), 0})

-----------------------------------------------------------------------------
(* The timeouts of a search.                                               *)

overtime_factor == 1 + Max({config.unstable_factor, config.behind_factor})

\* Variant of ThinkTime: nothing is kept back for the overtime.
ThinkTimeOvertimeForgotten(remain_time, byo_yomi_time) ==
    LET kept(time) == time - config.reserved_time
        share == remain_time \div
                   (config.c_denom + Max({config.c_maxply - m_num_moves, 0}))
    IN  IF remain_time = 0 THEN kept(byo_yomi_time)
        ELSE Max({Min({share, kept(remain_time)})}
                 \cup IF m_num_moves >= config.byo_yomi_after
                      THEN {kept(byo_yomi_time)} ELSE {})

\* A share of the main time, or the byo-yomi time, so that with the overtime the
\* reserve is not touched.
ThinkTime(remain_time, byo_yomi_time) ==
    LET kept(time) == (time - config.reserved_time) \div overtime_factor
        share == remain_time \div
                   (config.c_denom + Max({config.c_maxply - m_num_moves, 0}))
    IN  IF remain_time = 0 THEN kept(byo_yomi_time)
        ELSE Max({Min({share, kept(remain_time)})}
                 \cup IF m_num_moves >= config.byo_yomi_after
                      THEN {kept(byo_yomi_time)} ELSE {})

TimeControlled == m_byo_yomi_timer.enable /\ config.enable

\* -1 when there is no limit; the lower of the two when there are two.
GetSearchTimeoutUs ==
    LET think == Max({config.min_time,
                      ThinkTime(GetRemainTime(m_byo_yomi_timer, current_player),
                                m_byo_yomi_timer.byo_yomi)})
        limits == (IF TimeControlled THEN {think} ELSE {})
                    \cup (IF config.timeout_ms_per_step > 0
                          THEN {config.timeout_ms_per_step} ELSE {})
    IN  IF limits = {} THEN -1 ELSE Min(limits)

\* The search may be found unstable, or the player behind, or neither.
GetSearchOvertimeUs(timeout_us) ==
    {0} \cup IF timeout_us > 0
             THEN {timeout_us * config.unstable_factor, timeout_us * config.behind_factor}
             ELSE {}

-----------------------------------------------------------------------------
Init ==
    /\ config \in Configs
    /\ m_num_moves = 0
    /\ m_byo_yomi_timer = TimerInit
    /\ at = "idle" /\ timeout = 0 /\ left = 0 /\ waited = 0
    /\ clock = Both(0)
    /\ idle = 0 /\ used = 0 /\ avail = 0 /\ commands = 0

\* The clock of the configuration is set with the first move or genmove after a
\* reset when no other has been.
SelfSet == ~m_byo_yomi_timer.enable /\ (config.main_time > 0 \/ config.byo_yomi_time > 0)

TimerOnMove ==
    IF SelfSet THEN TimerSet(m_byo_yomi_timer, config.main_time, config.byo_yomi_time)
    ELSE m_byo_yomi_timer

ClockOnMove == IF SelfSet THEN Both(config.main_time) ELSE clock

Searching == {"search", "overtime"}

\* Time passes: the arbiter's clock of the player to move, the engine's timer, and
\* the wait the engine is in, if any.  A timer that is off is not followed: Set()
\* starts it again.
Tick ==
    /\ at \in Searching => left > 0 \/ (left < 0 /\ waited < MaxIdle)
    /\ at \in {"idle", "init"} => idle < MaxIdle
    /\ IF m_byo_yomi_timer.enable
       THEN /\ m_byo_yomi_timer' = [m_byo_yomi_timer EXCEPT !.timer = @ + 1]
            /\ clock' = [clock EXCEPT ![current_player] = @ - 1]
       ELSE UNCHANGED <<m_byo_yomi_timer, clock>>
    /\ IF at \in Searching
       THEN /\ left' = IF left > 0 THEN left - 1 ELSE left
            /\ waited' = waited + 1 /\ used' = used + 1
            /\ UNCHANGED idle
       ELSE idle' = idle + 1 /\ UNCHANGED <<left, waited, used>>
    /\ UNCHANGED <<config, m_num_moves, at, timeout, avail, commands>>

-----------------------------------------------------------------------------
(* The commands.                                                           *)

\* Move(): of the opponent's move, and of the engine's own at the end of genmove.
PlayMove ==
    /\ m_num_moves < MaxMoves
    /\ m_num_moves' = m_num_moves + 1
    /\ m_byo_yomi_timer' = HandOff(TimerOnMove)
    /\ clock' = ClockOnMove
    /\ idle' = 0

Play ==
    /\ at = "idle"
    /\ PlayMove
    /\ UNCHANGED <<config, search, commands>>

\* Reset(), of clear_board, undo and the end of a game: time_settings are forgotten,
\* and the first move is black's whatever moves are left on the board.
Reset ==
    /\ at = "idle" /\ m_num_moves > 0 /\ commands < MaxCommands
    /\ commands' = commands + 1
    /\ m_num_moves' \in {0, m_num_moves - 1}
    /\ m_byo_yomi_timer' = TimerReset(m_byo_yomi_timer)
    /\ clock' = Both(0)
    /\ idle' = 0
    /\ UNCHANGED <<config, search>>

\* time_settings, which starts the arbiter's clock too; byo_yomi_stones is ignored.
SetTime ==
    /\ at = "idle" /\ commands < MaxCommands
    /\ commands' = commands + 1
    /\ \E t \in TimeSettings :
          /\ m_byo_yomi_timer' = TimerSet(m_byo_yomi_timer, t[1], t[2])
          /\ clock' = Both(t[1])
    /\ UNCHANGED <<config, m_num_moves, search, idle>>

\* time_left: 0 once the player is in byo-yomi.
TimeLeft(p) ==
    /\ at = "idle" /\ m_byo_yomi_timer.enable
    /\ m_byo_yomi_timer' = SetRemainTime(m_byo_yomi_timer, p, Max({clock[p], 0}))
    /\ UNCHANGED <<config, m_num_moves, search, clock, idle, commands>>

\* GenMove() up to InitRoot() of Search(), which may take a while.
GenMove ==
    /\ at = "idle" /\ m_num_moves < MaxMoves
    /\ m_byo_yomi_timer' = TimerOnMove
    /\ clock' = ClockOnMove
    /\ at' = "init"
    /\ UNCHANGED <<config, m_num_moves, timeout, left, waited, used, avail, idle, commands>>

-----------------------------------------------------------------------------
(* Search().                                                               *)

SearchWait(phase, time) ==
    at' = phase /\ left' = time /\ waited' = 0

\* GenMoveReturn and engine.Move().
Answer ==
    /\ PlayMove
    /\ at' = "idle" /\ left' = 0 /\ waited' = 0 /\ used' = 0 /\ avail' = 0 /\ timeout' = 0
    /\ UNCHANGED <<config, commands>>

\* The first wait, if it is one: a timeout of 0 is over at once.
Search ==
    /\ at = "init"
    /\ timeout' = GetSearchTimeoutUs
    /\ SearchWait("search", timeout')
    /\ used' = 0
    /\ avail' = Max({clock[current_player], 0}) + m_byo_yomi_timer.byo_yomi
    /\ UNCHANGED <<config, m_num_moves, m_byo_yomi_timer, clock, idle, commands>>

\* The search threads have paused at a limit: no wait lasts.
LimitReached == at \in Searching /\ Answer

\* CheckEarlyStop is asked at every check_every_ms that leaves time to wait for.
EarlyStop ==
    /\ config.early_stop /\ left > 0
    /\ waited > 0 /\ waited % config.check_every_ms = 0

\* SearchWait() returns, at its timeout or before.
WaitOver == left = 0 \/ EarlyStop

SearchOvertime ==
    /\ at = "search" /\ WaitOver
    /\ \E overtime \in GetSearchOvertimeUs(timeout) \ {0} : SearchWait("overtime", overtime)
    /\ UNCHANGED <<config, m_num_moves, m_byo_yomi_timer, timeout, used, avail, clock, idle,
                   commands>>

SearchOver == at \in Searching /\ WaitOver /\ Answer

Next ==
    \/ Tick \/ Play \/ Reset \/ SetTime \/ (\E p \in Players : TimeLeft(p)) \/ GenMove
    \/ Search \/ LimitReached \/ SearchOvertime \/ SearchOver

Spec == Init /\ [][Next]_vars

-----------------------------------------------------------------------------
\* The engine's idea of both players' time is the arbiter's after any sequence of
\* moves, searches, time_settings and time_left, as long as its timer is on and
\* runs for the player to move: an undo that leaves white to move breaks that.
ClockAgrees ==
    m_byo_yomi_timer.enable /\ m_byo_yomi_timer.curr = current_player =>
        \A p \in Players : GetRemainTime(m_byo_yomi_timer, p) = Max({clock[p], 0})

\* A search with its overtime leaves the reserve untouched of what main time and
\* byo-yomi time were left when its timeout was computed, unless min_time asks for
\* more; and takes no longer than the time of a step with its overtime.
TimeKept ==
    at \in Searching =>
        /\ TimeControlled /\ m_byo_yomi_timer.curr = current_player =>
             used <= Max({0, avail - config.reserved_time,
                          overtime_factor * config.min_time})
        /\ config.timeout_ms_per_step > 0 =>
             used <= overtime_factor * config.timeout_ms_per_step

=============================================================================
