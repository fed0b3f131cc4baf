---------------------------- MODULE MCGtpGame ----------------------------
(* Two configurations that differ, and the empty one, for GtpGame; and the names that
   its commands and its record give to moves, on the full board. *)
EXTENDS SelfPlay, Coordinates

\* With superko black may not take back on point 0 in the longer list of moves, and white
\* may not play there in <<0, 0>> by any rule.
MCInitMoves == {<<>>, <<0, 0>>, <<0, 1, Go!PASS, Go!PASS, 0>>}

Config(background, passes, times) ==
    [enable_background_search |-> background, enable_pass_pass |-> passes,
     disable_pass |-> background, max_gen_passes |-> IF passes THEN 2 ELSE 0,
     disable_positional_superko |-> passes, time_control |-> times]

MCConfigs == {Config(TRUE, FALSE, FALSE), Config(FALSE, TRUE, TRUE)}
MCDefaultConfig == Config(FALSE, FALSE, FALSE)

\* What SelfPlay_proofs proves, evaluated.
ASSUME NamesAgree ==
    /\ \A c \in Moves : IdToCoord(CoordToId(c)) = c /\ DecodeMove(ToLower(EncodeMove(c))) = c
    /\ \A c \in Moves \ {Both(COORD_RESIGN)} : StrToCoord(CoordToStr(c)) = c
    /\ \A id \in Ids, mode \in Modes :
          TransformedFrom(TransformedFrom(id, mode, TRUE), mode, FALSE) = id
==========================================================================
