---------------------------- MODULE MCReflector -----------------------------
(***************************************************************************)
(* Small reflectors for Reflector.tla.                                     *)
(***************************************************************************)
EXTENDS Reflector

CONSTANTS x1, x2, t1, t2

MCAllow == (Clients \X TGs) \ {<<x2, t2>>}

MCVer == [x \in Clients |-> 3]

MCVerOld == [x \in Clients |-> IF x = x1 THEN 1 ELSE 3]

MCMonitorSets == {{}, {t1, t2}}
=============================================================================
