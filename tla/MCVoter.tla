------------------------------ MODULE MCVoter ------------------------------
(***************************************************************************)
(* Voter with two receivers, one of them on another computer.              *)
(***************************************************************************)
EXTENDS Voter

CONSTANTS a, b

MCRxs == <<a, b>>

MCNoDelay == [x \in Rxs |-> 0]
=============================================================================
