---------------------------- MODULE Coordinates ----------------------------
(***************************************************************************)
(* The names of a move: a point's number (go_comm.cc), its coordinates,    *)
(* the two letters of the record of moves, and the word of a GTP command   *)
(* (mcts_main.cc); and the symmetries of the board under which positions   *)
(* are evaluated (mcts_engine.cc).                                         *)
(*                                                                         *)
(* A letter is its code.  A word is pass, resign or a letter and a number, *)
(* as std::to_string writes it and std::stoi reads it again.               *)
(***************************************************************************)
EXTENDS Integers

BORDER_SIZE == 19
GOBOARD_SIZE == BORDER_SIZE * BORDER_SIZE

COORD_PASS == -1
COORD_UNSET == -2
COORD_RESIGN == -3

\* Coordinates and numbers of the board, and of a move.
Axis == 0 .. BORDER_SIZE - 1
Ids == 0 .. GOBOARD_SIZE - 1
Both(value) == <<value, value>>
Moves == (Axis \X Axis) \cup {Both(COORD_PASS), Both(COORD_RESIGN)}

InBoard(c) == c[1] \in Axis /\ c[2] \in Axis

-----------------------------------------------------------------------------
IdToCoord(id) ==
    IF id \in {COORD_PASS, COORD_RESIGN} THEN Both(id)
    ELSE IF id \notin Ids THEN Both(COORD_UNSET)
    ELSE <<id \div BORDER_SIZE, id % BORDER_SIZE>>

CoordToId(c) ==
    IF c \in {Both(COORD_PASS), Both(COORD_RESIGN)} THEN c[1]
    ELSE IF ~InBoard(c) THEN COORD_UNSET
    ELSE c[1] * BORDER_SIZE + c[2]

\* CreateNeighbourCache()
NeighbourCache(id) ==
    LET c == IdToCoord(id)
    IN  {CoordToId(n) : n \in {d \in {<<c[1], c[2] - 1>>, <<c[1] + 1, c[2]>>,
                                      <<c[1], c[2] + 1>>, <<c[1] - 1, c[2]>>} : InBoard(d)}}

-----------------------------------------------------------------------------
(* The record of moves.                                                    *)

a == 97
b == 98
i == 105
z == 122

StrToCoord(str) ==
    LET c == <<str[1] - a, str[2] - a>>
    IN  IF str = Both(z) THEN Both(COORD_PASS)
        ELSE IF ~InBoard(c) THEN Both(COORD_UNSET)
        ELSE c

CoordToStr(c) ==
    IF ~InBoard(c) THEN Both(z) ELSE <<c[1] + a, c[2] + a>>

-----------------------------------------------------------------------------
(* GTP.                                                                    *)

A == 65
B == 66
Z == 90
PassWord == <<"pass">>
ResignWord == <<"resign">>

\* There is no column I.
EncodeMove(c) ==
    IF CoordToId(c) = COORD_PASS THEN PassWord
    ELSE IF CoordToId(c) = COORD_RESIGN THEN ResignWord
    ELSE <<IF c[1] > 7 THEN B + c[1] ELSE A + c[1], c[2] + 1>>

\* GTPServing() puts a command into small letters before it is executed.
ToLower(word) ==
    IF word \in {PassWord, ResignWord} THEN word
    ELSE <<IF word[1] \in A .. Z THEN word[1] + (a - A) ELSE word[1], word[2]>>

DecodeMove(word) ==
    IF word = PassWord THEN Both(COORD_PASS)
    ELSE IF word = ResignWord THEN Both(COORD_RESIGN)
    ELSE <<IF word[1] > i THEN word[1] - b ELSE word[1] - a, word[2] - 1>>

-----------------------------------------------------------------------------
(* Symmetries.                                                             *)

Modes == 0 .. 7
Bit(mode, weight) == (mode \div weight) % 2 = 1

Opposite(k) == BORDER_SIZE - k - 1
FlipX(c) == <<Opposite(c[1]), c[2]>>
FlipY(c) == <<c[1], Opposite(c[2])>>
Swap(c) == <<c[2], c[1]>>

TransformCoord(c, mode, reverse) ==
    LET x(d) == IF Bit(mode, 1) THEN FlipX(d) ELSE d
        y(d) == IF Bit(mode, 2) THEN FlipY(d) ELSE d
        s(d) == IF Bit(mode, 4) THEN Swap(d) ELSE d
    IN  IF reverse THEN x(y(s(c))) ELSE s(y(x(c)))

\* Where TransformFeatures() takes the value of a point from.
TransformedFrom(id, mode, reverse) ==
    CoordToId(TransformCoord(IdToCoord(id), mode, reverse))

=============================================================================
