--------------------------- MODULE MCUdpSequence ---------------------------
(***************************************************************************)
(* UdpSequence with numbers of four bits.                                 *)
(***************************************************************************)
EXTENDS UdpSequence

MCRxCntReset == [d \in Directions |-> IF d = "up" THEN 3 ELSE 2]
=============================================================================
