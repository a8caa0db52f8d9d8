--------------------------- MODULE MCRepeaterLink ---------------------------
(***************************************************************************)
(* RepeaterLink with a repeater, a reflector and a simplex logic: the      *)
(* repeater and the reflector are linked by default, the reflector and the *)
(* simplex logic by a command, by activity or by a talk group.             *)
(***************************************************************************)
EXTENDS RepeaterLink

CONSTANTS rpt, ref, sx, home, away, t1

MCConnectLogics == [l \in Links |-> IF l = home THEN {rpt, ref} ELSE {ref, sx}]

MCOnActivity == [l \in Links |-> IF l = away THEN {sx} ELSE {}]

MCOnTg == [l \in Links |-> IF l = away THEN {rpt, sx} \X {t1} ELSE {}]
=============================================================================
