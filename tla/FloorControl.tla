---------------------------- MODULE FloorControl ----------------------------
(***************************************************************************)
(* What the talk group handler of the reflector promises, without maps,    *)
(* timers and signals: every client sits in at most one talk group, and    *)
(* the floor of a talk group is free or held by one of its members.  The   *)
(* floor is taken only when it is free, so nobody is ever talked over.     *)
(* TGHandler.tla is shown to implement this specification.                 *)
(***************************************************************************)

CONSTANTS
    Clients,    \* the nodes logged in to the reflector
    TGs,        \* the talk groups
    NoClient,   \* "nobody": the null pointer of the code
    NoTG        \* "no talk group": TG #0 of the code

VARIABLES
    member,     \* member[c]: the talk group c has selected, or NoTG
    floor       \* floor[tg]: the client talking on tg, or NoClient

vars == <<member, floor>>

TypeOK == /\ member \in [Clients -> TGs \cup {NoTG}]
          /\ floor \in [TGs -> Clients \cup {NoClient}]

Init == /\ member = [c \in Clients |-> NoTG]
        /\ floor = [tg \in TGs |-> NoClient]

(***************************************************************************)
(* A client moves to another talk group, or to none; it takes its voice    *)
(* with it, so the floor it may have held becomes free.                    *)
(***************************************************************************)
Move(c, to) ==
    /\ member' = [member EXCEPT ![c] = to]
    /\ floor' = [tg \in TGs |-> IF floor[tg] = c THEN NoClient ELSE floor[tg]]

(***************************************************************************)
(* A member starts to talk on the free floor of its talk group.            *)
(***************************************************************************)
Take(c, tg) ==
    /\ member[c] = tg
    /\ floor[tg] = NoClient
    /\ floor' = [floor EXCEPT ![tg] = c]
    /\ UNCHANGED member

(***************************************************************************)
(* The talkers of some talk groups stop, or are stopped.                   *)
(***************************************************************************)
Release(S) ==
    /\ floor' = [tg \in TGs |-> IF tg \in S THEN NoClient ELSE floor[tg]]
    /\ UNCHANGED member

Next == \/ \E c \in Clients, to \in TGs \cup {NoTG} : Move(c, to)
        \/ \E c \in Clients, tg \in TGs : Take(c, tg)
        \/ \E S \in SUBSET TGs : Release(S)

Spec == Init /\ [][Next]_vars
=============================================================================
