----------------------------- MODULE MCLocalRx -----------------------------
(***************************************************************************)
(* A receiver that combines three squelches, with every kind of time.      *)
(***************************************************************************)
EXTENDS LocalRx

MCLeaf(l) == [op |-> "leaf", leaf |-> l]
MCNot(i) == [op |-> "not", left |-> i]
MCAnd(i, j) == [op |-> "and", left |-> i, right |-> j]
MCOr(i, j) == [op |-> "or", left |-> i, right |-> j]

\* A & !B | C
MCNodes == <<MCOr(2, 6), MCAnd(3, 4), MCLeaf("A"), MCNot(5), MCLeaf("B"), MCLeaf("C")>>
MCLeaves == <<"A", "B", "C">>

\* A and B work on the audio, C on events, so that it may open the receiver while it is muted.
MCNoTimes == [start |-> 0, delay |-> 0, hang |-> 0, extHang |-> 0, timeout |-> -1]
MCTimes ==
    [q \in Names |->
        CASE q = "A" -> [MCNoTimes EXCEPT !.hang = 2, !.extHang = 2]
          [] q = "B" -> [MCNoTimes EXCEPT !.start = 3, !.delay = 3]
          [] q = "C" -> MCNoTimes
          [] q = "Top" -> [MCNoTimes EXCEPT !.hang = 3, !.extHang = 5, !.timeout = 7]]
=============================================================================
