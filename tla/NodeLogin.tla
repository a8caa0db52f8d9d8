------------------------------ MODULE NodeLogin -----------------------------
(***************************************************************************)
(* What the reflector promises about the connections of its nodes: a       *)
(* connection goes through its phases in one direction only, and a         *)
(* callsign belongs to at most one connection at a time, from the login    *)
(* until the connection is gone.  ReflectorClient.tla, with its handshake, *)
(* timers and maps, is shown to implement this specification.              *)
(***************************************************************************)

CONSTANTS
    Cons,       \* the connections
    Callsigns,  \* the callsigns of the nodes
    NoCallsign  \* the empty string

VARIABLES
    phase,      \* phase[x]: "none", "handshake", "connected" or "closing"
    name        \* name[x]: the callsign x is logged in as, or NoCallsign

vars == <<phase, name>>

TypeOK == /\ phase \in [Cons -> {"none", "handshake", "connected", "closing"}]
          /\ name \in [Cons -> Callsigns \cup {NoCallsign}]

Init == /\ phase = [x \in Cons |-> "none"]
        /\ name = [x \in Cons |-> NoCallsign]

Open(x) == /\ phase[x] = "none"
           /\ phase' = [phase EXCEPT ![x] = "handshake"]
           /\ UNCHANGED name

(***************************************************************************)
(* A login succeeds only for a callsign that nobody else uses.             *)
(***************************************************************************)
Login(x, cs) == /\ phase[x] = "handshake"
                /\ \A y \in Cons : name[y] # cs
                /\ phase' = [phase EXCEPT ![x] = "connected"]
                /\ name' = [name EXCEPT ![x] = cs]

(***************************************************************************)
(* The reflector gives the connection up; the callsign stays taken.        *)
(***************************************************************************)
GiveUp(x) == /\ phase[x] \in {"handshake", "connected"}
             /\ phase' = [phase EXCEPT ![x] = "closing"]
             /\ UNCHANGED name

Gone(x) == /\ phase[x] # "none"
           /\ phase' = [phase EXCEPT ![x] = "none"]
           /\ name' = [name EXCEPT ![x] = NoCallsign]

Next == \E x \in Cons : \/ Open(x)
                        \/ \E cs \in Callsigns : Login(x, cs)
                        \/ GiveUp(x)
                        \/ Gone(x)

Spec == Init /\ [][Next]_vars
=============================================================================
