---------------------------- MODULE MCTGHandler -----------------------------
(***************************************************************************)
(* A small reflector for TGHandler.tla: two clients, two talk groups, one  *)
(* of which has an automatic QSY and may be closed to one of the clients.  *)
(***************************************************************************)
EXTENDS TGHandler

CONSTANTS c1, c2, t1, t2

MCAllowSets == {Clients \X TGs, (Clients \X TGs) \ {<<c2, t2>>}}

MCAutoQsyAfter == [tg \in TGs |-> IF tg = t1 THEN 1 ELSE 0]
=============================================================================
