---------------------------- MODULE TcpPrioClient ----------------------------
(***************************************************************************)
(* The state machine of a client that prefers one of several servers       *)
(* (async/core/AsyncTcpPrioClientBase.cpp): the servers are the SRV records *)
(* of the last lookup in order of priority, next_rr is an iterator into    *)
(* that vector, and while the connection is not the best one a second,     *)
(* background connection to a better server is tried every minute.         *)
(*                                                                         *)
(* The machine is a record that the handlers map to the next one; the      *)
(* variables, and the events in the order the event loop may serve them,   *)
(* are those of the program that uses the client (NodeSession.tla).        *)
(*                                                                         *)
(* The iterator is an index of rrs, Len(rrs) + 1 at the end, or Dangling   *)
(* once the vector was moved.  Waiting times are only "later".             *)
(***************************************************************************)
EXTENDS Integers, Sequences

CONSTANTS
    Hosts,      \* the servers
    Answers     \* what a lookup may result in

ASSUME ClientAssumption == Answers \subseteq [rrs : Seq(Hosts), failed : BOOLEAN]

Dangling == 0

Lists == {a.rrs : a \in Answers} \cup {<<>>}

\* The longest list: no iterator is further than one step behind its end.
MaxLen == CHOOSE k \in {Len(l) : l \in Lists} : \A l \in Lists : Len(l) <= k

\* The states below StateConnected.
ConnectedStates == {"HighestPrio", "LowIdle", "LowSRVLookup", "LowTryConnect"}

MachineStates == {"Disconnected", "SRVLookup", "TryConnect", "ConnIdle", "Aborted"}
                     \cup ConnectedStates

Machines ==
    [state   : MachineStates,
     rrs     : Lists,
     room    : 0..MaxLen,       \* the capacity of the vector rrs
     next    : 0..(MaxLen + 1), \* next_rr
     marked  : BOOLEAN,         \* marked_as_established
     failed  : BOOLEAN,         \* dns.lookupFailed()
     host    : Hosts,           \* remoteHostName() of the connection
     up      : BOOLEAN,         \* isConnected()
     tasks   : Nat]             \* pending tasks that emit "connected"

\* A client that was just told to connect.
Connecting(host) ==
    [state |-> "SRVLookup", rrs |-> <<>>, room |-> 0, next |-> 1, marked |-> FALSE,
     failed |-> FALSE, host |-> host, up |-> FALSE, tasks |-> 0]

AtEnd(p) == p.next = Len(p.rrs) + 1
AtBegin(p) == p.next = 1

-----------------------------------------------------------------------------
ConnectEvent(p) == IF p.state = "Disconnected" THEN [p EXCEPT !.state = "SRVLookup"] ELSE p

\* The entry of StateDisconnected closes the connection.
DisconnectEvent(p) == [p EXCEPT !.state = "Disconnected", !.up = FALSE]

(***************************************************************************)
(* The records of a lookup replace those of the one before, in place: the  *)
(* iterator is left where it was, in freed memory if the vector had to     *)
(* grow.                                                                   *)
(***************************************************************************)
Refilled(p, a) ==
    LET grows == Len(a.rrs) > p.room
    IN  [p EXCEPT !.rrs = a.rrs, !.failed = a.failed,
                  !.room = IF grows THEN Len(a.rrs) ELSE @,
                  !.next = IF grows THEN Dangling ELSE @]

(***************************************************************************)
(* StateConnectingTryConnect.  Reading a record behind the end of the list *)
(* or in freed memory ends the program, as far as can be told.             *)
(***************************************************************************)
StepNext(p) ==
    IF AtEnd(p) THEN 1
    ELSE IF p.marked \/ p.next = Dangling THEN p.next
    ELSE p.next + 1

ConnectToNext(p) ==
    LET q == [p EXCEPT !.next = StepNext(p)]
    IN  IF AtEnd(q) THEN [q EXCEPT !.state = "ConnIdle"]
        ELSE IF q.next \in DOMAIN q.rrs
          THEN [q EXCEPT !.state = "TryConnect", !.marked = FALSE,
                         !.host = q.rrs[q.next]]
        ELSE [q EXCEPT !.state = "Aborted"]

SRVResult(p, a) ==
    LET q == Refilled(p, a)
    IN  IF a.rrs = <<>> THEN [q EXCEPT !.state = "ConnIdle"]
        ELSE ConnectToNext([q EXCEPT !.next = Len(a.rrs) + 1])

(***************************************************************************)
(* StateConnected: its init chooses the state below it.                    *)
(***************************************************************************)

\* Mutant: any server of a list that was looked up is taken for the primary.
InitConnectedAny(p) ==
    [p EXCEPT !.state = IF p.failed THEN "LowIdle" ELSE "HighestPrio"]

InitConnected(p) ==
    [p EXCEPT !.state = IF AtBegin(p) /\ ~p.failed THEN "HighestPrio" ELSE "LowIdle"]

ConnectedEvent(p) ==
    InitConnected([p EXCEPT !.up = TRUE, !.tasks = @ + 1])

\* Mutant: an established connection that is lost is not followed up.
DisconnectedEventUnestablished(p) ==
    IF p.state \in ConnectedStates \cup {"TryConnect"} /\ ~p.marked
      THEN ConnectToNext(p)
      ELSE p

\* The connection is closed already.
DisconnectedEvent(p) ==
    IF p.state \in ConnectedStates /\ p.marked THEN [p EXCEPT !.state = "ConnIdle"]
    ELSE IF p.state \in ConnectedStates \cup {"TryConnect"} THEN ConnectToNext(p)
    ELSE p

(***************************************************************************)
(* The search for a better server.                                         *)
(***************************************************************************)
LowSRVResult(p, a) ==
    LET q == Refilled(p, a)
    IN  IF a.rrs # <<>> /\ a.rrs[1] # p.host
          THEN [q EXCEPT !.state = "LowTryConnect", !.next = 1]
          ELSE InitConnected(q)

\* The background connection replaces the connection.
BgConnectedEvent(p) ==
    InitConnected([p EXCEPT !.host = p.rrs[p.next], !.tasks = @ + 1])

BgDisconnectedEvent(p) ==
    LET q == [p EXCEPT !.next = @ + 1]
    IN  IF ~AtEnd(q) /\ q.rrs[q.next] # p.host THEN q ELSE [q EXCEPT !.state = "LowIdle"]
=============================================================================
