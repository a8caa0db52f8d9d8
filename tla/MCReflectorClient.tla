------------------------- MODULE MCReflectorClient --------------------------
(***************************************************************************)
(* Small instances of ReflectorClient.tla: two connections, which may      *)
(* claim the same callsign.                                                *)
(***************************************************************************)
EXTENDS ReflectorClient

CONSTANTS x1, x2, s1, s2, s3

\* The node behind x1 sends from two UDP sources, and can change its source.
ChangingSrcsOf == [x \in Cons |-> IF x = x1 THEN {s1, s3} ELSE {s2}]
=============================================================================
