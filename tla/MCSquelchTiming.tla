-------------------------- MODULE MCSquelchTiming --------------------------
(***************************************************************************)
(* SquelchTiming with and without each of the configured times.           *)
(***************************************************************************)
EXTENDS SquelchTiming

MCConfigs ==
    [start : {0, 3}, delay : {0, 4}, hang : {0, 2}, extHang : {0, 5}, timeout : {-1, 6}]
=============================================================================
