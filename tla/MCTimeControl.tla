--------------------------- MODULE MCTimeControl ---------------------------
(* Small instances of TimeControl for TLC. *)
EXTENDS TimeControl

\* The clock comes with time_settings; some overtime of either kind.
Tournament ==
    [enable |-> TRUE, main_time |-> 0, byo_yomi_time |-> 0, c_denom |-> 1,
     c_maxply |-> 1, reserved_time |-> 1, min_time |-> 0, byo_yomi_after |-> 2,
     timeout_ms_per_step |-> 0, early_stop |-> TRUE, check_every_ms |-> 2,
     unstable_factor |-> 1, behind_factor |-> 0]

\* A clock of its own, a minimum and a limit per step, no early stop.
Casual ==
    [Tournament EXCEPT !.main_time = 4, !.byo_yomi_time = 3, !.min_time = 1,
                       !.timeout_ms_per_step = 2, !.early_stop = FALSE,
                       !.unstable_factor = 0, !.behind_factor = 2]

\* No time control at all.
Constant == [Tournament EXCEPT !.enable = FALSE, !.timeout_ms_per_step = 2]

AllConfigs == {Tournament, Casual, Constant}
Settings == {<<6, 4>>, <<5, 0>>}

=============================================================================
