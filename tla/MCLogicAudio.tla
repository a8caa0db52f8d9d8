---------------------------- MODULE MCLogicAudio ----------------------------
(* One or two blocks at each stage that holds audio. *)
EXTENDS LogicAudio
=============================================================================
