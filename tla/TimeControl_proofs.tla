------------------------ MODULE TimeControl_proofs ------------------------
(***************************************************************************)
(* The clock ByoYomiTimer keeps is the arbiter's, and a search with its    *)
(* overtime leaves the reserve of what is on it, for every configuration   *)
(* and every setting of the clocks.                                        *)
(*                                                                         *)
(* The invariant adds two facts to ClockAgrees: the wait of a search is    *)
(* within its timeout (WithinTimeout), and the timeout, multiplied by      *)
(* overtime_factor, within the time there was when it was computed         *)
(* (TimeoutKept).                                                          *)
(***************************************************************************)
EXTENDS TimeControl, TLAPS

Timers == [enable : BOOLEAN, remain : [Players -> Int], byo_yomi : Nat, curr : Players,
           timer : Nat]

Types ==
    /\ config \in Configs
    /\ m_num_moves \in Nat
    /\ m_byo_yomi_timer \in Timers
    /\ clock \in [Players -> Int]
    /\ at \in {"idle", "init"} \cup Searching
    /\ timeout \in Int /\ left \in Int /\ waited \in Nat
    /\ used \in Nat /\ avail \in Int

\* What the time of a search has been computed from.
Reserve == Max({0, avail - config.reserved_time, overtime_factor * config.min_time})

\* The engine keeps time for the player to move.
InStep == m_byo_yomi_timer.curr = current_player

\* A search that has a timeout does not outlast it, and with its overtime not
\* overtime_factor times the timeout.
WithinTimeout ==
    /\ timeout >= 0 =>
          /\ left >= 0
          /\ used + left <= timeout * overtime_factor
          /\ at = "search" => used + left <= timeout
    /\ timeout < 0 => left < 0 /\ ~TimeControlled /\ config.timeout_ms_per_step = 0

\* The timeout with its overtime fits into what is left of the clock.
TimeoutKept ==
    /\ TimeControlled /\ InStep => timeout * overtime_factor <= Reserve
    /\ config.timeout_ms_per_step > 0 => timeout <= config.timeout_ms_per_step

IInv == Types /\ ClockAgrees /\ (at \in Searching => WithinTimeout /\ TimeoutKept)

-----------------------------------------------------------------------------
(* Maxima, minima and quotients.                                           *)

\* A finite set is meant: a bound that is reached is the maximum.
LEMMA MaxIs ==
    ASSUME NEW S, S \subseteq Int, NEW m \in S, \A x \in S : m >= x
    PROVE  Max(S) = m
<1>1. \E x \in S : \A y \in S : x >= y  OBVIOUS
<1>2. Max(S) \in S /\ \A y \in S : Max(S) >= y  BY <1>1, Zenon DEF Max
<1> DEFINE n == Max(S)
<1>3. n \in Int /\ m \in Int /\ n >= m /\ m >= n  BY <1>2
<1> HIDE DEF n
<1>4. n = m  BY <1>3
<1> QED  BY <1>4 DEF n

\* A bound from below that is reached is the minimum.
LEMMA MinIs ==
    ASSUME NEW S, S \subseteq Int, NEW m \in S, \A x \in S : m <= x
    PROVE  Min(S) = m
<1>1. \E x \in S : \A y \in S : x <= y  OBVIOUS
<1>2. Min(S) \in S /\ \A y \in S : Min(S) <= y  BY <1>1, Zenon DEF Min
<1> DEFINE n == Min(S)
<1>3. n \in Int /\ m \in Int /\ n <= m /\ m <= n  BY <1>2
<1> HIDE DEF n
<1>4. n = m  BY <1>3
<1> QED  BY <1>4 DEF n

\* The extremes of one number,
LEMMA One == ASSUME NEW a \in Int  PROVE Max({a}) = a /\ Min({a}) = a
<1>1. {a} \subseteq Int /\ a \in {a} /\ \A x \in {a} : a >= x /\ a <= x  OBVIOUS
<1>2. Max({a}) = a  BY <1>1, MaxIs
<1>3. Min({a}) = a  BY <1>1, MinIs
<1> QED  BY <1>2, <1>3

\* of two,
LEMMA MaxTwo ==
    ASSUME NEW a \in Int, NEW b \in Int
    PROVE  Max({a, b}) = (IF a >= b THEN a ELSE b)
<1>1. CASE a >= b  BY <1>1, MaxIs
<1>2. CASE ~(a >= b)  BY <1>2, MaxIs
<1> QED  BY <1>1, <1>2

\* and of three.
LEMMA MaxThree ==
    ASSUME NEW a \in Int, NEW b \in Int, NEW c \in Int
    PROVE  LET m == Max({a, b, c}) IN
           m \in {a, b, c} /\ m >= a /\ m >= b /\ m >= c
<1>1. CASE a >= b /\ a >= c  BY <1>1, MaxIs
<1>2. CASE b >= a /\ b >= c  BY <1>2, MaxIs
<1>3. CASE c >= a /\ c >= b  BY <1>3, MaxIs
<1> QED  BY <1>1, <1>2, <1>3

\* The lower of two numbers.
LEMMA MinTwo ==
    ASSUME NEW a \in Int, NEW b \in Int
    PROVE  Min({a, b}) = (IF a <= b THEN a ELSE b)
<1>1. CASE a <= b  BY <1>1, MinIs
<1>2. CASE ~(a <= b)  BY <1>2, MinIs
<1> QED  BY <1>1, <1>2

\* A quotient that is rounded down, times its divisor, is no more than the dividend.
LEMMA Quotient ==
    ASSUME NEW a \in Int, NEW d \in Nat \ {0}
    PROVE  (a \div d) \in Int /\ (a \div d) * d <= a
OBVIOUS

\* A product grows with its first factor.
LEMMA Products ==
    ASSUME NEW a \in Int, NEW b \in Int, NEW d \in Nat, a <= b
    PROVE  a * d \in Int /\ a * d <= b * d
OBVIOUS

-----------------------------------------------------------------------------
(* The configuration, the players and the timer.                           *)

\* The types of the fields of a configuration and of the bounds.
LEMMA ConfigFacts ==
    ASSUME config \in Configs
    PROVE  /\ config.enable \in BOOLEAN /\ config.main_time \in Nat
           /\ config.byo_yomi_time \in Nat /\ config.c_denom \in Nat \ {0}
           /\ config.c_maxply \in Nat /\ config.reserved_time \in Nat
           /\ config.min_time \in Nat /\ config.byo_yomi_after \in Nat
           /\ config.timeout_ms_per_step \in Nat /\ config.unstable_factor \in Nat
           /\ config.behind_factor \in Nat
           /\ MaxMoves \in Nat /\ MaxIdle \in Nat /\ MaxCommands \in Nat
BY TimeControlAssumption

\* overtime_factor covers the search and either overtime.
LEMMA OvertimeFactor ==
    ASSUME config \in Configs
    PROVE  /\ overtime_factor \in Nat \ {0}
           /\ overtime_factor >= 1 + config.unstable_factor
           /\ overtime_factor >= 1 + config.behind_factor
<1>1. config.unstable_factor \in Nat /\ config.behind_factor \in Nat  BY ConfigFacts
<1> QED  BY <1>1, MaxTwo DEF overtime_factor

\* The players take turns.
LEMMA PlayerFacts ==
    ASSUME m_num_moves \in Nat
    PROVE  /\ current_player \in Players
           /\ m_num_moves' = m_num_moves + 1 => current_player' = Opponent(current_player)
BY DEF current_player, Players, Opponent

\* What is left of a player's time, as it is defined.
Left(t, p) == t.remain[p] - (IF p = t.curr THEN t.timer ELSE 0)

\* GetRemainTime() is what is left, or 0.
LEMMA RemainTime ==
    ASSUME NEW t \in Timers, NEW p \in Players
    PROVE  /\ Left(t, p) \in Int
           /\ GetRemainTime(t, p) = IF Left(t, p) >= 0 THEN Left(t, p) ELSE 0
<1>1. Left(t, p) \in Int  BY DEF Left, Timers
<1>2. GetRemainTime(t, p) = Max({Left(t, p), 0})  BY DEF GetRemainTime, Left
<1> QED  BY <1>1, <1>2, MaxTwo

\* The clocks agree when both are out, or the same.
SameTime(a, b) == a = b \/ (a <= 0 /\ b <= 0)

\* GetRemainTime() shows a clock when what is left is the same, or both are out.
LEMMA Agreement ==
    ASSUME NEW t \in Timers, NEW c \in [Players -> Int], NEW p \in Players
    PROVE  GetRemainTime(t, p) = Max({c[p], 0}) <=> SameTime(Left(t, p), c[p])
<1>1. c[p] \in Int /\ Max({c[p], 0}) = (IF c[p] >= 0 THEN c[p] ELSE 0)  BY MaxTwo
<1> QED  BY <1>1, RemainTime DEF SameTime

\* ClockAgrees in terms of the time left.
InTime ==
    m_byo_yomi_timer.enable /\ InStep =>
        \A p \in Players : SameTime(Left(m_byo_yomi_timer, p), clock[p])

\* ClockAgrees and InTime say the same.
LEMMA ClockAgreesIsInTime == ASSUME Types  PROVE ClockAgrees <=> InTime
BY Agreement DEF ClockAgrees, InTime, InStep, Types

\* The same after a step.
LEMMA ClockAgreesIsInTimeNext == ASSUME Types'  PROVE ClockAgrees' <=> InTime'
<1> DEFINE t == m_byo_yomi_timer'
           c == clock'
<1>1. t \in Timers /\ c \in [Players -> Int]  BY DEF Types
<1>2. ASSUME NEW p \in Players
      PROVE  GetRemainTime(t, p) = Max({c[p], 0}) <=> SameTime(Left(t, p), c[p])
  BY <1>1, Agreement
<1> QED  BY <1>2 DEF ClockAgrees, InTime, InStep, GetRemainTime, Left

-----------------------------------------------------------------------------
(* The operations of the timer.                                            *)

\* A field of the timer may be set to any value of its type.
LEMMA FieldTypes ==
    ASSUME NEW t \in Timers
    PROVE  /\ [t EXCEPT !.enable = TRUE] \in Timers
           /\ \A r \in [Players -> Int] : [t EXCEPT !.remain = r] \in Timers
           /\ \A n \in Nat : /\ [t EXCEPT !.byo_yomi = n] \in Timers
                             /\ [t EXCEPT !.timer = n] \in Timers
           /\ \A p \in Players : [t EXCEPT !.curr = p] \in Timers
BY DEF Timers

\* The operations of ByoYomiTimer give timers.
LEMMA TimerTypes ==
    ASSUME NEW t \in Timers
    PROVE  /\ HandOff(t) \in Timers
           /\ \A a, b \in Nat : TimerSet(t, a, b) \in Timers
           /\ TimerReset(t) \in Timers
           /\ \A p \in Players, a \in Int : SetRemainTime(t, p, a) \in Timers
<1>1. HandOff(t) \in Timers
  <2> DEFINE u == [t EXCEPT !.remain[t.curr] = @ - t.timer]
             v == [u EXCEPT !.curr = Opponent(@)]
  <2>1. u \in Timers
    <3>1. [t.remain EXCEPT ![t.curr] = @ - t.timer] \in [Players -> Int]  BY DEF Timers
    <3> QED  BY <3>1, FieldTypes
  <2>2. v \in Timers
    <3> HIDE DEF u
    <3>1. Opponent(u.curr) \in Players  BY <2>1 DEF Opponent, Players, Timers
    <3> QED  BY <2>1, <3>1, FieldTypes
  <2>3. HandOff(t) = [v EXCEPT !.timer = 0]
    <3>1. u.curr = t.curr  BY DEF Timers
    <3> QED  BY <3>1 DEF HandOff
  <2> HIDE DEF u, v
  <2> QED  BY <2>2, <2>3, FieldTypes
<1>2. ASSUME NEW a \in Nat, NEW b \in Nat  PROVE TimerSet(t, a, b) \in Timers
  <2> DEFINE u == [t EXCEPT !.enable = TRUE]
             v == [u EXCEPT !.remain = Both(a)]
             w == [v EXCEPT !.byo_yomi = b]
  <2>1. u \in Timers  BY FieldTypes
  <2>2. Both(a) \in [Players -> Int]  BY DEF Both
  <2>3. TimerSet(t, a, b) = [w EXCEPT !.timer = 0]  BY DEF TimerSet
  <2> HIDE DEF u
  <2>4. v \in Timers  BY <2>1, <2>2, FieldTypes
  <2> HIDE DEF v
  <2>5. w \in Timers  BY <2>4, FieldTypes
  <2> HIDE DEF w
  <2> QED  BY <2>3, <2>5, FieldTypes
<1>3. TimerReset(t) \in Timers  BY DEF TimerReset, TimerInit, Timers, Both, Players
<1>4. ASSUME NEW p \in Players, NEW a \in Int  PROVE SetRemainTime(t, p, a) \in Timers
  BY DEF SetRemainTime, Timers
<1> QED  BY <1>1, <1>2, <1>3, <1>4

\* The hand-over of the turn takes no time; setting both clocks makes them the same.
LEMMA TimerTimes ==
    ASSUME NEW t \in Timers
    PROVE  /\ \A p \in Players : Left(HandOff(t), p) = Left(t, p)
           /\ HandOff(t).enable = t.enable /\ HandOff(t).curr = Opponent(t.curr)
           /\ \A a, b \in Nat : /\ \A p \in Players : Left(TimerSet(t, a, b), p) = a
                                /\ TimerSet(t, a, b).curr = t.curr
           /\ \A p \in Players, a \in Int :
                 LET u == SetRemainTime(t, p, a)
                 IN  /\ u.enable = t.enable /\ u.curr = t.curr
                     /\ Left(u, p) = a
                     /\ \A q \in Players \ {p} : Left(u, q) = Left(t, q)
<1>1. /\ \A p \in Players : Left(HandOff(t), p) = Left(t, p)
      /\ HandOff(t).enable = t.enable /\ HandOff(t).curr = Opponent(t.curr)
  BY DEF HandOff, Timers, Left, Opponent, Players
<1>2. ASSUME NEW a \in Nat, NEW b \in Nat
      PROVE  /\ \A p \in Players : Left(TimerSet(t, a, b), p) = a
             /\ TimerSet(t, a, b).curr = t.curr
  BY DEF TimerSet, Timers, Left, Both
<1>3. ASSUME NEW p \in Players, NEW a \in Int
      PROVE  LET u == SetRemainTime(t, p, a)
             IN  /\ u.enable = t.enable /\ u.curr = t.curr
                 /\ Left(u, p) = a
                 /\ \A q \in Players \ {p} : Left(u, q) = Left(t, q)
  BY DEF SetRemainTime, Timers, Left
<1> QED  BY <1>1, <1>2, <1>3

\* The clock of the configuration is the same for both players and the arbiter.
LEMMA OnMove ==
    ASSUME Types, InTime
    PROVE  /\ TimerOnMove \in Timers /\ ClockOnMove \in [Players -> Int]
           /\ TimerOnMove.curr = m_byo_yomi_timer.curr
           /\ TimerOnMove.enable /\ InStep =>
                 \A p \in Players : SameTime(Left(TimerOnMove, p), ClockOnMove[p])
<1> USE DEF Types
<1>1. config.main_time \in Nat /\ config.byo_yomi_time \in Nat  BY ConfigFacts
<1>2. CASE SelfSet
  <2>1. TimerOnMove = TimerSet(m_byo_yomi_timer, config.main_time, config.byo_yomi_time)
    BY <1>2 DEF TimerOnMove
  <2>2. /\ TimerOnMove \in Timers /\ TimerOnMove.curr = m_byo_yomi_timer.curr
        /\ \A p \in Players : Left(TimerOnMove, p) = config.main_time
    <3>1. m_byo_yomi_timer \in Timers  OBVIOUS
    <3>2. \A a, b \in Nat :
             /\ TimerSet(m_byo_yomi_timer, a, b) \in Timers
             /\ \A p \in Players : Left(TimerSet(m_byo_yomi_timer, a, b), p) = a
             /\ TimerSet(m_byo_yomi_timer, a, b).curr = m_byo_yomi_timer.curr
      BY <3>1, TimerTypes, TimerTimes
    <3> QED  BY <1>1, <2>1, <3>2
  <2>3. ClockOnMove = Both(config.main_time)  BY <1>2 DEF ClockOnMove
  <2> QED  BY <1>1, <2>2, <2>3 DEF Both, SameTime
<1>3. CASE ~SelfSet
  BY <1>3 DEF TimerOnMove, ClockOnMove, InTime
<1> QED  BY <1>2, <1>3

\* A move keeps the clocks together.
LEMMA MoveInTime ==
    ASSUME Types, InTime, PlayMove
    PROVE  /\ m_byo_yomi_timer' \in Timers /\ clock' \in [Players -> Int]
           /\ m_num_moves' \in Nat /\ InTime'
<1> DEFINE t == TimerOnMove
<1>0. m_num_moves \in Nat /\ m_byo_yomi_timer.curr \in Players  BY DEF Types, Timers
<1>1. /\ m_num_moves' = m_num_moves + 1 /\ m_byo_yomi_timer' = HandOff(t)
      /\ clock' = ClockOnMove
  BY DEF PlayMove
<1>2. /\ t \in Timers /\ clock' \in [Players -> Int]
      /\ t.curr = m_byo_yomi_timer.curr
      /\ t.enable /\ InStep => \A p \in Players : SameTime(Left(t, p), clock'[p])
  BY <1>1, OnMove
<1> HIDE DEF t
<1>3. /\ HandOff(t) \in Timers /\ HandOff(t).enable = t.enable
      /\ HandOff(t).curr = Opponent(m_byo_yomi_timer.curr)
      /\ \A p \in Players : Left(HandOff(t), p) = Left(t, p)
  BY <1>2, TimerTypes, TimerTimes
<1>4. current_player \in Players /\ current_player' = Opponent(current_player)
  BY <1>0, <1>1, PlayerFacts
<1>5. InStep' => InStep
  BY <1>0, <1>1, <1>3, <1>4 DEF InStep, Opponent, Players
<1>6. InTime'
  <2>1. SUFFICES ASSUME m_byo_yomi_timer'.enable, InStep', NEW p \in Players
                 PROVE  SameTime(Left(m_byo_yomi_timer', p), clock'[p])
    BY DEF InTime, Left
  <2> QED  BY <1>1, <1>2, <1>3, <1>5, <2>1
<1> QED  BY <1>0, <1>1, <1>2, <1>3, <1>6

-----------------------------------------------------------------------------
(* The timeout of a search.                                                *)

\* The time that is kept back for the overtime.
Kept(time) == (time - config.reserved_time) \div overtime_factor

\* The time kept for the search, with its overtime, spares the reserve.
LEMMA KeptBound ==
    ASSUME config \in Configs, NEW a \in Int, NEW b \in Int, a <= b
    PROVE  Kept(a) \in Int /\ Kept(a) * overtime_factor <= b - config.reserved_time
<1>1. config.reserved_time \in Nat /\ overtime_factor \in Nat \ {0}
  BY ConfigFacts, OvertimeFactor
<1> DEFINE f == overtime_factor
           k == a - config.reserved_time
<1>2. k \in Int /\ f \in Nat \ {0} /\ Kept(a) = k \div f  BY <1>1 DEF Kept
<1> HIDE DEF f, k
<1>3. Kept(a) \in Int /\ Kept(a) * f <= k  BY <1>2, Quotient
<1>4. k <= b - config.reserved_time  BY <1>1 DEF k
<1>5. Kept(a) * f \in Int  BY <1>2, <1>3
<1>6. k \in Int /\ b - config.reserved_time \in Int  BY <1>1, <1>2
<1> HIDE DEF Kept
<1>7. Kept(a) * f <= b - config.reserved_time  BY <1>3, <1>4, <1>5, <1>6
<1> QED  BY <1>3, <1>7 DEF f

\* The time to think, with its overtime, is within what is left but the reserve.
LEMMA ThinkTimeBound ==
    ASSUME config \in Configs, m_num_moves \in Nat, NEW r \in Nat, NEW y \in Nat
    PROVE  /\ ThinkTime(r, y) \in Int
           /\ ThinkTime(r, y) * overtime_factor <= (r + y) - config.reserved_time
<1> DEFINE share == r \div (config.c_denom + Max({config.c_maxply - m_num_moves, 0}))
           limit == (r + y) - config.reserved_time
           Good(t) == t \in Int /\ t * overtime_factor <= limit
<1>0. /\ config.reserved_time \in Nat /\ config.c_denom \in Nat \ {0} /\ config.c_maxply \in Nat
      /\ config.byo_yomi_after \in Nat /\ overtime_factor \in Nat \ {0}
  BY ConfigFacts, OvertimeFactor
<1>1. Good(Kept(r)) /\ Good(Kept(y))
  <2> HIDE DEF Kept
  <2>1. Kept(r) \in Int /\ Kept(r) * overtime_factor <= (r + y) - config.reserved_time
    BY KeptBound
  <2>2. Kept(y) \in Int /\ Kept(y) * overtime_factor <= (r + y) - config.reserved_time
    BY KeptBound
  <2> QED  BY <2>1, <2>2
<1>2. share \in Int
  <2> DEFINE d == config.c_denom + Max({config.c_maxply - m_num_moves, 0})
  <2>1. d \in Nat \ {0}  BY <1>0, MaxTwo
  <2> HIDE DEF d
  <2>2. r \div d \in Int  BY <2>1, Quotient
  <2> QED  BY <2>2 DEF d
<1>3. ThinkTime(r, y) =
        IF r = 0 THEN Kept(y)
        ELSE Max({Min({share, Kept(r)})}
                 \cup IF m_num_moves >= config.byo_yomi_after THEN {Kept(y)} ELSE {})
  BY DEF ThinkTime, Kept
<1> DEFINE n == Min({share, Kept(r)})
<1>4. Good(n)
  <2>1. n \in Int /\ n <= Kept(r)
    <3>1. Kept(r) \in Int  BY <1>1
    <3> HIDE DEF share, Kept
    <3> QED  BY <1>2, <3>1, MinTwo
  <2>2. Kept(r) \in Int /\ Kept(r) * overtime_factor <= limit  BY <1>1
  <2> HIDE DEF n, Kept, limit
  <2>3. /\ n * overtime_factor \in Int /\ Kept(r) * overtime_factor \in Int
        /\ n * overtime_factor <= Kept(r) * overtime_factor
    BY <1>0, <2>1, <2>2, Products
  <2>4. limit \in Int  BY <1>0 DEF limit
  <2> QED  BY <2>1, <2>2, <2>3, <2>4
<1> HIDE DEF n, Kept, share
<1>5. CASE r = 0  BY <1>1, <1>3, <1>5
<1>6. CASE r # 0 /\ m_num_moves >= config.byo_yomi_after
  <2>1. ThinkTime(r, y) = Max({n, Kept(y)})
    <3>1. {n} \cup {Kept(y)} = {n, Kept(y)}  OBVIOUS
    <3> QED  BY <1>3, <1>6, <3>1 DEF n
  <2>2. n \in Int /\ Kept(y) \in Int  BY <1>1, <1>4
  <2>3. ThinkTime(r, y) = n \/ ThinkTime(r, y) = Kept(y)  BY <2>1, <2>2, MaxTwo
  <2> QED  BY <1>1, <1>4, <2>3
<1>7. CASE r # 0 /\ ~(m_num_moves >= config.byo_yomi_after)
  <2>1. ThinkTime(r, y) = Max({n})  BY <1>3, <1>7 DEF n
  <2>2. n \in Int  BY <1>4
  <2>3. ThinkTime(r, y) = n  BY <2>1, <2>2, One
  <2> QED  BY <1>4, <2>3
<1> QED  BY <1>5, <1>6, <1>7

\* What the engine may use of the time it believes to have.
Available == GetRemainTime(m_byo_yomi_timer, current_player) + m_byo_yomi_timer.byo_yomi

\* GetSearchTimeoutUs gives no timeout only when nothing asks for one; a timeout is
\* no longer than the time of a step, and, with its overtime, spares the reserve of what
\* is left, unless it is no longer than min_time.
LEMMA TimeoutFacts ==
    ASSUME Types
    PROVE  /\ GetSearchTimeoutUs \in Int
           /\ GetSearchTimeoutUs < 0 => ~TimeControlled /\ config.timeout_ms_per_step = 0
           /\ config.timeout_ms_per_step > 0 =>
                 GetSearchTimeoutUs <= config.timeout_ms_per_step
           /\ TimeControlled =>
                 \/ GetSearchTimeoutUs <= config.min_time
                 \/ GetSearchTimeoutUs * overtime_factor <= Available - config.reserved_time
<1> DEFINE r == GetRemainTime(m_byo_yomi_timer, current_player)
           y == m_byo_yomi_timer.byo_yomi
           t == ThinkTime(r, y)
           think == Max({config.min_time, t})
           ms == config.timeout_ms_per_step
           g == GetSearchTimeoutUs
<1>1. r \in Nat /\ y \in Nat
  <2>1. m_byo_yomi_timer \in Timers /\ current_player \in Players
    BY PlayerFacts DEF Types
  <2>2. r \in Nat  BY <2>1, RemainTime
  <2>3. y \in Nat  BY <2>1 DEF Timers
  <2> QED  BY <2>2, <2>3
<1>2. config.min_time \in Nat /\ ms \in Nat /\ overtime_factor \in Nat \ {0}
      /\ config.reserved_time \in Nat
  BY ConfigFacts, OvertimeFactor DEF Types
<1>3. t \in Int /\ t * overtime_factor <= (r + y) - config.reserved_time
  BY <1>1, ThinkTimeBound DEF Types
<1> HIDE DEF r, y
<1>4. think \in Nat /\ (think = config.min_time \/ think = t)
  <2> HIDE DEF t
  <2> QED  BY <1>2, <1>3, MaxTwo
<1>5. g = LET limits == (IF TimeControlled THEN {think} ELSE {})
                          \cup (IF ms > 0 THEN {ms} ELSE {})
          IN  IF limits = {} THEN -1 ELSE Min(limits)
  BY DEF GetSearchTimeoutUs, r, y
<1> HIDE DEF t, think, ms, g
<1>6. CASE ~TimeControlled /\ ~(ms > 0)
  <2>1. g = -1  BY <1>5, <1>6
  <2> QED  BY <1>2, <1>6, <2>1 DEF g, ms
<1>7. CASE ~TimeControlled /\ ms > 0
  <2>1. g = Min({ms})  BY <1>5, <1>7
  <2>2. g = ms  BY <1>2, <2>1, One
  <2> QED  BY <1>2, <1>7, <2>2 DEF g, ms
<1>8. ASSUME TimeControlled
      PROVE  g \in Nat /\ g <= think /\ (ms > 0 => g <= ms)
  <2>1. CASE ms > 0
    <3>1. {think} \cup {ms} = {think, ms}  OBVIOUS
    <3>2. g = Min({think, ms})  BY <1>5, <1>8, <2>1, <3>1
    <3> QED  BY <1>2, <1>4, <3>2, MinTwo
  <2>2. CASE ~(ms > 0)
    <3>1. g = Min({think})  BY <1>5, <1>8, <2>2
    <3>2. g = think  BY <1>4, <3>1, One
    <3> QED  BY <1>4, <2>2, <3>2
  <2> QED  BY <2>1, <2>2
<1>9. ASSUME TimeControlled
      PROVE  \/ g <= config.min_time
             \/ g * overtime_factor <= Available - config.reserved_time
  <2>1. CASE think = config.min_time  BY <1>8, <1>9, <2>1
  <2>2. CASE think = t
    <3>1. Available = r + y  BY DEF Available, r, y
    <3>2. g \in Int /\ t \in Int /\ g <= t  BY <1>3, <1>8, <1>9, <2>2
    <3>3. /\ g * overtime_factor \in Int /\ t * overtime_factor \in Int
          /\ g * overtime_factor <= t * overtime_factor
      BY <1>2, <1>3, <3>2, Products
    <3>4. g * overtime_factor <= (r + y) - config.reserved_time
      BY <1>1, <1>2, <1>3, <3>3
    <3>5. g * overtime_factor <= Available - config.reserved_time
      <4> HIDE DEF Available
      <4> QED  BY ONLY <3>1, <3>4, Zenon
    <3> QED  BY <3>5
  <2> QED  BY <1>4, <2>1, <2>2
<1>10. CASE TimeControlled  BY <1>8, <1>9, <1>10 DEF g, ms
<1> QED  BY <1>6, <1>7, <1>10

-----------------------------------------------------------------------------
(* The invariant.                                                          *)

\* While the engine waits for its search, the wait is within the timeout and the
\* timeout within the time there is.
WaitInv == at \in Searching => WithinTimeout /\ TimeoutKept

\* All but the waits holds at the beginning and the engine is idle.
LEMMA InitIInv == Init => IInv
<1> SUFFICES ASSUME Init  PROVE IInv
  OBVIOUS
<1>1. TimerInit \in Timers  BY DEF TimerInit, Timers, Both, Players
<1>2. Both(0) \in [Players -> Int]  BY DEF Both
<1>3. Types  BY <1>1, <1>2 DEF Init, Types
<1>4. ~m_byo_yomi_timer.enable  BY DEF Init, TimerInit
<1> QED  BY <1>3, <1>4 DEF Init, IInv, ClockAgrees, Searching

\* The same player's clock goes down as the engine's timer goes up, and the wait
\* gets shorter as the time used grows.
LEMMA TickIInv == ASSUME IInv, Tick  PROVE IInv'
<1> DEFINE t == m_byo_yomi_timer
<1>0. /\ Types /\ WaitInv /\ InTime
      /\ m_num_moves \in Nat /\ t \in Timers /\ clock \in [Players -> Int]
      /\ current_player \in Players
  BY ClockAgreesIsInTime, PlayerFacts DEF IInv, WaitInv, Types
<1>1. /\ UNCHANGED <<config, m_num_moves, at, timeout, avail, commands>>
      /\ current_player' = current_player
  BY DEF Tick, current_player
<1>2. /\ t' \in Timers /\ t'.enable = t.enable /\ t'.curr = t.curr
      /\ clock' \in [Players -> Int]
  <2>1. CASE t.enable
    <3>1. t' = [t EXCEPT !.timer = @ + 1] /\ clock' = [clock EXCEPT ![current_player] = @ - 1]
      BY <2>1 DEF Tick
    <3>2. t.timer + 1 \in Nat  BY <1>0 DEF Timers
    <3>3. t' = [t EXCEPT !.timer = t.timer + 1]  BY <3>1
    <3>4. t' \in Timers  BY <1>0, <3>2, <3>3, FieldTypes
    <3> QED  BY <1>0, <3>1, <3>4 DEF Timers
  <2>2. CASE ~t.enable
    <3>1. t' = t /\ clock' = clock  BY <2>2 DEF Tick
    <3> QED  BY <1>0, <3>1
  <2> QED  BY <2>1, <2>2
<1>3. /\ left' \in Int /\ waited' \in Nat /\ used' \in Nat
  BY <1>0 DEF Tick, Types
<1>4. Types'
  BY <1>0, <1>1, <1>2, <1>3 DEF Types
<1>5. InTime'
  <2>1. SUFFICES ASSUME t'.enable, InStep', NEW p \in Players
                 PROVE  SameTime(Left(t', p), clock'[p])
    BY DEF InTime, Left
  <2>2. t.enable /\ InStep /\ t.curr = current_player
    BY <1>1, <1>2, <2>1 DEF InStep
  <2>3. SameTime(Left(t, p), clock[p])  BY <1>0, <2>2 DEF InTime
  <2>4. /\ t' = [t EXCEPT !.timer = @ + 1]
        /\ clock' = [clock EXCEPT ![current_player] = @ - 1]
    BY <2>2 DEF Tick
  <2>5. t'.remain = t.remain /\ t'.timer = t.timer + 1
    BY <1>0, <2>4 DEF Timers
  <2>6. t.remain[p] \in Int /\ t.timer \in Nat /\ clock[p] \in Int
    BY <1>0 DEF Timers
  <2>7. CASE p = current_player
    <3>1. clock'[p] = clock[p] - 1  BY <1>0, <2>4, <2>7
    <3>2. Left(t', p) = Left(t, p) - 1 /\ Left(t, p) \in Int
      BY <1>2, <2>2, <2>5, <2>6, <2>7 DEF Left
    <3> QED  BY <2>3, <2>6, <3>1, <3>2 DEF SameTime
  <2>8. CASE p # current_player
    <3>1. clock'[p] = clock[p]  BY <1>0, <2>4, <2>8
    <3>2. Left(t', p) = Left(t, p)  BY <1>2, <2>2, <2>5, <2>6, <2>8 DEF Left
    <3> QED  BY <2>3, <3>1, <3>2
  <2> QED  BY <2>7, <2>8
<1>6. WaitInv'
  <2>1. SUFFICES ASSUME at \in Searching  PROVE WithinTimeout' /\ TimeoutKept'
    BY <1>1 DEF WaitInv
  <2>2. WithinTimeout /\ TimeoutKept  BY <1>0, <2>1 DEF WaitInv
  <2>3. /\ left > 0 \/ left < 0
        /\ left' = (IF left > 0 THEN left - 1 ELSE left) /\ used' = used + 1
    BY <2>1 DEF Tick
  <2>4. /\ timeout \in Int /\ left \in Int /\ used \in Nat /\ overtime_factor \in Nat \ {0}
    BY <1>0, OvertimeFactor DEF Types
  <2>5. /\ overtime_factor' = overtime_factor /\ (TimeControlled <=> TimeControlled')
        /\ (InStep <=> InStep') /\ Reserve' = Reserve
    BY <1>1, <1>2 DEF overtime_factor, TimeControlled, InStep, Reserve
  <2>6. TimeoutKept'  BY <1>1, <2>2, <2>5 DEF TimeoutKept
  <2>7. CASE timeout >= 0
    <3>1. left > 0 /\ left' = left - 1 /\ used' + left' = used + left
      BY <2>2, <2>3, <2>4, <2>7 DEF WithinTimeout
    <3>2. /\ left' >= 0
          /\ used' + left' <= timeout * overtime_factor
          /\ at = "search" => used' + left' <= timeout
      BY <2>2, <2>4, <2>7, <3>1 DEF WithinTimeout
    <3> QED  BY <1>1, <2>4, <2>5, <2>6, <2>7, <3>2 DEF WithinTimeout
  <2>8. CASE ~(timeout >= 0)
    <3>1. timeout < 0  BY <2>4, <2>8
    <3>2. left < 0 /\ ~TimeControlled /\ config.timeout_ms_per_step = 0
      BY <2>2, <3>1 DEF WithinTimeout
    <3>3. left' = left  BY <2>3, <2>4, <3>2
    <3> QED  BY <1>1, <2>5, <2>6, <2>8, <3>2, <3>3 DEF WithinTimeout
  <2> QED  BY <2>7, <2>8
<1> QED  BY <1>4, <1>5, <1>6, ClockAgreesIsInTimeNext DEF IInv, WaitInv

\* A move made outside a search, and the one that ends it.
LEMMA MoveIInv ==
    ASSUME IInv, PlayMove, at' = "idle", UNCHANGED config,
           /\ timeout' \in Int /\ left' \in Int /\ waited' \in Nat
           /\ used' \in Nat /\ avail' \in Int
    PROVE  IInv'
<1>1. Types /\ InTime  BY ClockAgreesIsInTime DEF IInv
<1>2. /\ m_byo_yomi_timer' \in Timers /\ clock' \in [Players -> Int]
      /\ m_num_moves' \in Nat /\ InTime'
  BY <1>1, MoveInTime
<1>3. Types'  BY <1>1, <1>2 DEF Types
<1>4. ~(at' \in Searching)  BY DEF Searching
<1> QED  BY <1>2, <1>3, <1>4, ClockAgreesIsInTimeNext DEF IInv

\* The commands that leave an idle engine idle or let it begin to think.
LEMMA CommandIInv ==
    ASSUME IInv, UNCHANGED <<config, timeout, left, waited, used, avail>>,
           at' \in {"idle", "init"}, m_num_moves' \in Nat,
           m_byo_yomi_timer' \in Timers, clock' \in [Players -> Int], InTime'
    PROVE  IInv'
<1>1. Types'  BY DEF IInv, Types
<1>2. ~(at' \in Searching)  BY DEF Searching
<1> QED  BY <1>1, <1>2, ClockAgreesIsInTimeNext DEF IInv

\* Reset() turns the timer off.
LEMMA ResetIInv == ASSUME IInv, Reset  PROVE IInv'
<1>1. Types  BY DEF IInv
<1>2. UNCHANGED <<config, timeout, left, waited, used, avail>> /\ at' \in {"idle", "init"}
  BY DEF Reset, search
<1>3. m_num_moves' \in Nat  BY <1>1 DEF Reset, Types
<1>4. m_byo_yomi_timer' = TimerInit /\ clock' = Both(0)  BY DEF Reset, TimerReset
<1>5. TimerInit \in Timers /\ Both(0) \in [Players -> Int] /\ ~TimerInit.enable
  BY DEF TimerInit, Timers, Both, Players
<1>6. InTime'  BY <1>4, <1>5 DEF InTime
<1> QED  BY <1>2, <1>3, <1>4, <1>5, <1>6, CommandIInv

\* time_settings give both players, and the arbiter, the same main time.
LEMMA SetTimeIInv == ASSUME IInv, SetTime  PROVE IInv'
<1>1. Types /\ m_byo_yomi_timer \in Timers  BY DEF IInv, Types
<1>2. /\ UNCHANGED <<config, timeout, left, waited, used, avail>> /\ at' \in {"idle", "init"}
      /\ m_num_moves' \in Nat
  BY <1>1 DEF SetTime, search, Types
<1>3. PICK t \in TimeSettings : /\ m_byo_yomi_timer' = TimerSet(m_byo_yomi_timer, t[1], t[2])
                                /\ clock' = Both(t[1])
  BY DEF SetTime
<1>4. t[1] \in Nat /\ t[2] \in Nat  BY TimeControlAssumption
<1> DEFINE u == TimerSet(m_byo_yomi_timer, t[1], t[2])
<1>5. u \in Timers /\ \A p \in Players : Left(u, p) = t[1]
  BY <1>1, <1>4, TimerTypes, TimerTimes
<1>6. clock' \in [Players -> Int] /\ \A p \in Players : clock'[p] = t[1]
  BY <1>3, <1>4 DEF Both
<1>7. m_byo_yomi_timer' = u  BY <1>3
<1> HIDE DEF u
<1>8. \A p \in Players : SameTime(Left(m_byo_yomi_timer', p), clock'[p])
  BY <1>5, <1>6, <1>7 DEF SameTime
<1>9. InTime'  BY <1>8 DEF InTime, Left
<1> QED  BY <1>2, <1>5, <1>6, <1>7, <1>9, CommandIInv

\* The time the arbiter tells the engine is the one it has, unless it has run out.
LEMMA TimeLeftIInv == ASSUME IInv, NEW p \in Players, TimeLeft(p)  PROVE IInv'
<1> DEFINE t == m_byo_yomi_timer
           a == Max({clock[p], 0})
           u == SetRemainTime(t, p, a)
<1>1. Types /\ InTime /\ t \in Timers /\ clock \in [Players -> Int]
  BY ClockAgreesIsInTime DEF IInv, Types
<1>2. /\ UNCHANGED <<config, timeout, left, waited, used, avail, clock, m_num_moves>>
      /\ at' \in {"idle", "init"} /\ m_num_moves' \in Nat
  BY <1>1 DEF TimeLeft, search, Types
<1>3. clock[p] \in Int /\ a \in Int /\ SameTime(a, clock[p])
  BY <1>1, MaxTwo DEF SameTime
<1>4. t' = u  BY DEF TimeLeft
<1> HIDE DEF a
<1>5. /\ u \in Timers /\ u.enable = t.enable /\ u.curr = t.curr /\ Left(u, p) = a
      /\ \A q \in Players \ {p} : Left(u, q) = Left(t, q)
  BY <1>1, <1>3, TimerTypes, TimerTimes
<1> HIDE DEF u
<1>6. current_player' = current_player  BY <1>2 DEF current_player
<1>7. InTime'
  <2>1. SUFFICES ASSUME t'.enable, InStep', NEW q \in Players
                 PROVE  SameTime(Left(t', q), clock'[q])
    BY DEF InTime, Left
  <2>2. t.enable /\ InStep  BY <1>4, <1>5, <1>6, <2>1 DEF InStep
  <2>3. SameTime(Left(t, q), clock[q])  BY <1>1, <2>2 DEF InTime
  <2> QED  BY <1>2, <1>3, <1>4, <1>5, <2>3
<1> QED  BY <1>1, <1>2, <1>4, <1>5, <1>7, CommandIInv

\* genmove may set the clock of the configuration.
LEMMA GenMoveIInv == ASSUME IInv, GenMove  PROVE IInv'
<1>1. Types /\ InTime  BY ClockAgreesIsInTime DEF IInv
<1>2. /\ UNCHANGED <<config, timeout, left, waited, used, avail, m_num_moves>>
      /\ at' \in {"idle", "init"} /\ m_num_moves' \in Nat
      /\ m_byo_yomi_timer' = TimerOnMove /\ clock' = ClockOnMove
  BY <1>1 DEF GenMove, Types
<1> DEFINE u == TimerOnMove
<1>3. /\ u \in Timers /\ clock' \in [Players -> Int]
      /\ u.curr = m_byo_yomi_timer.curr
      /\ u.enable /\ InStep => \A p \in Players : SameTime(Left(u, p), clock'[p])
  BY <1>1, <1>2, OnMove
<1>4. m_byo_yomi_timer' = u  BY <1>2
<1> HIDE DEF u
<1>5. current_player' = current_player  BY <1>2 DEF current_player
<1>6. InStep' <=> InStep  BY <1>3, <1>4, <1>5 DEF InStep
<1>7. InTime'
  <2>1. SUFFICES ASSUME m_byo_yomi_timer'.enable, InStep', NEW p \in Players
                 PROVE  SameTime(Left(m_byo_yomi_timer', p), clock'[p])
    BY DEF InTime, Left
  <2> QED  BY <1>3, <1>4, <1>6, <2>1
<1> QED  BY <1>2, <1>3, <1>4, <1>7, CommandIInv

\* The timeout is computed from the time the engine believes to have, and that is
\* what the arbiter's clock shows.
LEMMA SearchIInv == ASSUME IInv, Search  PROVE IInv'
<1> DEFINE g == GetSearchTimeoutUs
           of == overtime_factor
<1>1. /\ Types /\ InTime /\ ClockAgrees
      /\ m_byo_yomi_timer \in Timers /\ clock \in [Players -> Int]
      /\ current_player \in Players
  BY ClockAgreesIsInTime, PlayerFacts DEF IInv, Types
<1>2. /\ UNCHANGED <<config, m_num_moves, m_byo_yomi_timer, clock>>
      /\ timeout' = g /\ at' = "search" /\ left' = g /\ waited' = 0 /\ used' = 0
      /\ avail' = Max({clock[current_player], 0}) + m_byo_yomi_timer.byo_yomi
  BY DEF Search, SearchWait
<1>3. /\ g \in Int
      /\ g < 0 => ~TimeControlled /\ config.timeout_ms_per_step = 0
      /\ config.timeout_ms_per_step > 0 => g <= config.timeout_ms_per_step
      /\ TimeControlled => \/ g <= config.min_time
                           \/ g * of <= Available - config.reserved_time
  BY <1>1, TimeoutFacts
<1>4. /\ of \in Nat \ {0} /\ config.min_time \in Nat /\ config.reserved_time \in Nat
  BY <1>1, ConfigFacts, OvertimeFactor DEF Types
<1>5. /\ of' = of /\ (TimeControlled' <=> TimeControlled)
      /\ (InStep' <=> InStep)
  BY <1>2 DEF overtime_factor, TimeControlled, InStep, current_player
<1>6. avail' \in Int
  <2>1. clock[current_player] \in Int /\ m_byo_yomi_timer.byo_yomi \in Nat
    BY <1>1 DEF Timers
  <2> QED  BY <1>2, <2>1, MaxTwo
<1>7. Types'  BY <1>1, <1>2, <1>3, <1>6 DEF Types, Searching
<1>8. ClockAgrees'
  BY <1>1, <1>2 DEF ClockAgrees, current_player, GetRemainTime
<1>9. TimeControlled /\ InStep => avail' = Available
  BY <1>1, <1>2 DEF ClockAgrees, InStep, TimeControlled, Available
<1> HIDE DEF g, of
<1>10. ASSUME TimeControlled, InStep  PROVE g * of <= Reserve'
  <2> DEFINE b == avail' - config.reserved_time
             c == of * config.min_time
  <2>1. b \in Int /\ c \in Int  BY <1>4, <1>6
  <2>2. Reserve' = Max({0, b, c})  BY <1>2, <1>5 DEF Reserve, of
  <2> HIDE DEF b, c
  <2>3. Reserve' \in Int /\ Reserve' >= b /\ Reserve' >= c
    <3>1. /\ Max({0, b, c}) \in {0, b, c}
          /\ Max({0, b, c}) >= b /\ Max({0, b, c}) >= c
      BY <2>1, MaxThree
    <3>2. Max({0, b, c}) \in Int  BY <2>1, <3>1
    <3> QED  BY <2>2, <3>1, <3>2, Zenon
  <2>4. CASE g <= config.min_time
    <3>1. g * of \in Int /\ g * of <= config.min_time * of
      BY <1>3, <1>4, <2>4, Products
    <3>2. config.min_time * of = c  BY <1>4 DEF c
    <3> HIDE DEF Reserve
    <3> QED  BY <2>1, <2>3, <3>1, <3>2
  <2>5. CASE g * of <= Available - config.reserved_time
    <3>1. g * of <= b  BY <1>9, <1>10, <2>5 DEF b
    <3>2. g * of \in Int  BY <1>3, <1>4
    <3> HIDE DEF Reserve
    <3> QED  BY <2>1, <2>3, <3>1, <3>2
  <2> QED  BY <1>3, <1>10, <2>4, <2>5
<1>11. TimeoutKept'
  BY <1>2, <1>3, <1>5, <1>10 DEF TimeoutKept, of
<1>12. WithinTimeout'
  <2>1. CASE g >= 0
    <3>1. 0 + g <= g * of /\ 0 + g <= g  BY <1>3, <1>4, <2>1
    <3> QED  BY <1>2, <1>3, <1>5, <2>1, <3>1 DEF WithinTimeout, of
  <2>2. CASE g < 0
    BY <1>2, <1>3, <1>5, <2>2 DEF WithinTimeout
  <2> QED  BY <1>3, <2>1, <2>2
<1> QED  BY <1>7, <1>8, <1>11, <1>12 DEF IInv

\* The overtime is the timeout times a factor that has been allowed for.
LEMMA SearchOvertimeIInv == ASSUME IInv, SearchOvertime  PROVE IInv'
<1> DEFINE of == overtime_factor
<1>1. Types /\ ClockAgrees  BY DEF IInv
<1>2. /\ UNCHANGED <<config, m_num_moves, m_byo_yomi_timer, timeout, used, avail, clock>>
      /\ at = "search" /\ at' = "overtime" /\ waited' = 0
  BY DEF SearchOvertime, SearchWait
<1>3. left' \in GetSearchOvertimeUs(timeout) \ {0}  BY DEF SearchOvertime, SearchWait
<1>4. WithinTimeout /\ TimeoutKept  BY <1>2 DEF IInv, Searching
<1>5. /\ timeout \in Int /\ used \in Nat /\ left \in Int
      /\ config.unstable_factor \in Nat /\ config.behind_factor \in Nat
      /\ of \in Nat \ {0}
      /\ of >= 1 + config.unstable_factor /\ of >= 1 + config.behind_factor
  BY <1>1, ConfigFacts, OvertimeFactor DEF Types
<1>6. timeout > 0  BY <1>3 DEF GetSearchOvertimeUs
<1>7. PICK f \in {config.unstable_factor, config.behind_factor} : left' = timeout * f
  BY <1>3, <1>6 DEF GetSearchOvertimeUs
<1>8. f \in Nat /\ of >= 1 + f  BY <1>5
<1>9. used + left <= timeout /\ left >= 0
  BY <1>2, <1>4, <1>5, <1>6 DEF WithinTimeout
<1>10. used <= timeout  BY <1>5, <1>9
<1>11. left' \in Int /\ left' >= 0 /\ used + left' <= timeout * of
  <2> HIDE DEF of
  <2>1. left' \in Int /\ left' >= 0  BY <1>5, <1>6, <1>7, <1>8
  <2>2. (1 + f) * timeout <= of * timeout  BY <1>5, <1>6, <1>8, Products
  <2>3. (1 + f) * timeout = timeout + timeout * f /\ of * timeout = timeout * of
    BY <1>5, <1>8
  <2>4. of * timeout \in Int  BY <1>5
  <2> QED  BY <1>5, <1>7, <1>10, <2>1, <2>2, <2>3, <2>4
<1>12. Types'  BY <1>1, <1>2, <1>11 DEF Types, Searching
<1>13. ClockAgrees'
  BY <1>1, <1>2 DEF ClockAgrees, current_player, GetRemainTime
<1>14. /\ of' = of /\ (TimeControlled' <=> TimeControlled)
       /\ (InStep' <=> InStep) /\ Reserve' = Reserve
  BY <1>2 DEF overtime_factor, TimeControlled, InStep, current_player, Reserve
<1>15. TimeoutKept'  BY <1>2, <1>4, <1>14 DEF TimeoutKept
<1>16. WithinTimeout'
  <2>1. timeout' = timeout /\ used' = used /\ at' # "search" /\ ~(timeout < 0)
    BY <1>2, <1>5, <1>6
  <2>2. used' + left' <= timeout' * of'  BY <1>11, <1>14, <2>1, Zenon
  <2> HIDE DEF of
  <2>3. left' >= 0 /\ ~(timeout' < 0)  BY <1>11, <2>1
  <2> QED  BY <2>1, <2>2, <2>3, Zenon DEF WithinTimeout, of
<1> QED  BY <1>12, <1>13, <1>15, <1>16 DEF IInv

\* Every step keeps the invariant.
LEMMA NextIInv == IInv /\ [Next]_vars => IInv'
<1> SUFFICES ASSUME IInv, [Next]_vars  PROVE IInv'
  OBVIOUS
<1>0. Types  BY DEF IInv
<1>1. CASE Tick  BY <1>1, TickIInv
<1>2. CASE Play
  <2>1. PlayMove /\ at' = "idle" /\ UNCHANGED <<config, timeout, left, waited, used, avail>>
    BY <1>2 DEF Play, search
  <2> QED  BY <1>0, <2>1, MoveIInv DEF Types
<1>3. CASE Reset  BY <1>3, ResetIInv
<1>4. CASE SetTime  BY <1>4, SetTimeIInv
<1>5. CASE \E p \in Players : TimeLeft(p)  BY <1>5, TimeLeftIInv
<1>6. CASE GenMove  BY <1>6, GenMoveIInv
<1>7. CASE Search  BY <1>7, SearchIInv
<1>8. CASE LimitReached \/ SearchOver
  <2>1. /\ PlayMove /\ at' = "idle" /\ config' = config
        /\ timeout' = 0 /\ left' = 0 /\ waited' = 0 /\ used' = 0 /\ avail' = 0
    BY <1>8 DEF LimitReached, SearchOver, Answer
  <2> QED  BY <2>1, MoveIInv
<1>9. CASE SearchOvertime  BY <1>9, SearchOvertimeIInv
<1>10. CASE UNCHANGED vars
  <2>1. UNCHANGED <<config, m_num_moves, m_byo_yomi_timer, clock, at, timeout, left, waited,
                    used, avail>>
    BY <1>10 DEF vars, search
  <2> QED
    BY <2>1 DEF IInv, Types, ClockAgrees, WithinTimeout, TimeoutKept, Reserve, InStep,
                TimeControlled, current_player, overtime_factor, GetRemainTime
<1> QED  BY <1>1, <1>2, <1>3, <1>4, <1>5, <1>6, <1>7, <1>8, <1>9, <1>10 DEF Next

-----------------------------------------------------------------------------
\* The inductive invariant holds in every state.
THEOREM Invariance == Spec => []IInv
<1> QED  BY InitIInv, NextIInv, PTL DEF Spec

\* ByoYomiTimer, fed by Move(), time_settings and time_left, shows the arbiter's
\* clock of both players whenever it is on and runs for the player to move.
THEOREM Clocks == Spec => []ClockAgrees
<1>1. IInv => ClockAgrees  BY DEF IInv
<1> QED  BY Invariance, <1>1, PTL

\* No search with its overtime, of GetSearchTimeoutUs and GetSearchOvertimeUs, uses
\* the reserve of the time the arbiter leaves, whatever the configuration and the
\* settings; nor more than the time of a step with its overtime.
THEOREM KeepsTime == Spec => []TimeKept
<1>1. IInv => TimeKept
  <2> SUFFICES ASSUME IInv, at \in Searching
               PROVE  /\ TimeControlled /\ InStep => used <= Reserve
                      /\ config.timeout_ms_per_step > 0 =>
                           used <= overtime_factor * config.timeout_ms_per_step
    BY DEF TimeKept, InStep, Reserve
  <2>1. Types /\ WithinTimeout /\ TimeoutKept  BY DEF IInv
  <2> DEFINE of == overtime_factor
             ms == config.timeout_ms_per_step
             k == timeout * of
  <2>2. /\ timeout \in Int /\ left \in Int /\ used \in Nat /\ of \in Nat \ {0}
        /\ ms \in Nat
    BY <2>1, ConfigFacts, OvertimeFactor DEF Types
  <2>3. k \in Int  BY <2>2
  <2>4. ASSUME TimeControlled \/ ms > 0  PROVE timeout >= 0 /\ used <= k
    <3>1. timeout >= 0
      <4>1. ~(timeout < 0)  BY <2>1, <2>2, <2>4 DEF WithinTimeout
      <4> QED  BY <2>2, <4>1
    <3>2. left >= 0 /\ used + left <= k  BY <2>1, <3>1 DEF WithinTimeout
    <3> HIDE DEF k
    <3> QED  BY <2>2, <2>3, <3>1, <3>2
  <2>5. ASSUME TimeControlled, InStep  PROVE used <= Reserve
    <3>1. k <= Reserve  BY <2>1, <2>5 DEF TimeoutKept
    <3>2. Reserve \in Int
      <4>1. /\ avail \in Int /\ config.reserved_time \in Nat /\ config.min_time \in Nat
        BY <2>1, ConfigFacts DEF Types
      <4>2. avail - config.reserved_time \in Int /\ of * config.min_time \in Int
        BY <2>2, <4>1
      <4> DEFINE b == avail - config.reserved_time
                 c == of * config.min_time
      <4>3. b \in Int /\ c \in Int  BY <4>2
      <4>4. Reserve = Max({0, b, c})  BY DEF Reserve
      <4> HIDE DEF b, c
      <4> DEFINE z == 0
      <4>5. z \in Int /\ Reserve = Max({z, b, c})  BY <4>4
      <4> HIDE DEF z
      <4>6. Max({z, b, c}) \in {z, b, c}  BY <4>3, <4>5, MaxThree
      <4> QED  BY <4>3, <4>5, <4>6
    <3>3. used <= k  BY <2>4, <2>5
    <3> HIDE DEF k, Reserve
    <3> QED  BY <2>2, <2>3, <3>1, <3>2, <3>3
  <2>6. ASSUME ms > 0  PROVE used <= of * ms
    <3>1. timeout <= ms  BY <2>1, <2>6 DEF TimeoutKept
    <3>2. used <= k  BY <2>4, <2>6
    <3> HIDE DEF ms, of
    <3>3. timeout * of <= ms * of  BY <2>2, <3>1, Products
    <3>4. ms * of = of * ms /\ ms * of \in Int  BY <2>2
    <3> QED  BY <2>2, <2>3, <3>2, <3>3, <3>4
  <2> QED  BY <2>5, <2>6
<1> QED  BY Invariance, <1>1, PTL
=============================================================================
