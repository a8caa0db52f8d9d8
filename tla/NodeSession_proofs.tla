------------------------- MODULE NodeSession_proofs -------------------------
(***************************************************************************)
(* Proofs about the session of a node, for any servers, any results of     *)
(* lookups and any time-outs, and whatever the reflector sends: what is    *)
(* supervised, is, and only a late task leaves the client without a timer. *)
(*                                                                         *)
(* The invariant is stated on a client record q and a session record s.    *)
(*                                                                         *)
(* The last part is about the datagrams of that session, the windows of    *)
(* UdpSequence, for every range of numbers, every rate and every delay     *)
(* that UdpAssumption allows.                                              *)
(***************************************************************************)
EXTENDS NodeSession, UdpSequence, TLAPS

\* Of the client it matters in which states it has a connection.  While a better server
\* is tried, the iterator is at that server.
Clients ==
    [state : MachineStates, rrs : Seq(Hosts), room : Nat, next : Nat, marked : BOOLEAN,
     failed : BOOLEAN, host : Hosts, up : BOOLEAN, tasks : Nat]

ClientOK(q) ==
    /\ q \in Clients
    /\ q.up => q.state \in ConnectedStates
    /\ q.state = "LowTryConnect" => q.next \in 1 .. Len(q.rrs)

\* What a session needs: a connection that was greeted, timers, and a socket.
Backed(q, s) ==
    /\ s.state \notin {"DISCONNECTED", "EXPECT_CA_INFO"} => q.up /\ q.tasks = 0 /\ ~s.ghost
    /\ s.state # "DISCONNECTED" => s.ticking
    /\ s.state \in {"EXPECT_START_UDP_ENCRYPTION", "EXPECT_UDP_HEARTBEAT", "CONNECTED"} => s.sock
    /\ s.state \in {"EXPECT_UDP_HEARTBEAT", "CONNECTED"} => s.udpTx > 0
    /\ s.dec => s.state = "CONNECTED" /\ s.talk > 0
    /\ s.enc = "flushing" => s.flush > 0

\* What the history says: onConnected was run without a connection.
Ghosts(q, s) ==
    /\ q.up /\ q.tasks = 0 /\ s.state # "DISCONNECTED" => ~s.ghost
    /\ s.tick => s.ticking
    /\ s.ticking /\ ~q.up => s.ghost
    /\ q.state = "Disconnected" /\ s.recon = 0 => s.ghost

Good(q, s) == ClientOK(q) /\ s \in Sessions /\ Backed(q, s) /\ Ghosts(q, s)

IInv == Good(p, n)

-----------------------------------------------------------------------------
(***************************************************************************)
(* The client.                                                             *)
(***************************************************************************)

(***************************************************************************)
(* The next server is tried only without a connection.                     *)
(***************************************************************************)
LEMMA ConnectToNextOK ==
  ASSUME NEW q, ClientOK(q), ~q.up
  PROVE  LET r == ConnectToNext(q)
         IN  ClientOK(r) /\ ~r.up /\ r.tasks = q.tasks /\ r.state # "Disconnected"
<1> DEFINE m == [q EXCEPT !.next = StepNext(q)]
           h == m.rrs[m.next]
<1>1. StepNext(q) \in Nat
  BY DEF ClientOK, Clients, StepNext
<1>2. m \in Clients /\ ~m.up /\ m.tasks = q.tasks
  BY <1>1 DEF ClientOK, Clients
<1>3. ConnectToNext(q) =
        IF AtEnd(m) THEN [m EXCEPT !.state = "ConnIdle"]
        ELSE IF m.next \in DOMAIN m.rrs
          THEN [m EXCEPT !.state = "TryConnect", !.marked = FALSE, !.host = h]
        ELSE [m EXCEPT !.state = "Aborted"]
  BY DEF ConnectToNext
<1>4. m.next \in DOMAIN m.rrs => h \in Hosts
  BY <1>2 DEF Clients
<1> HIDE DEF m, h
<1>5. QED
  BY <1>2, <1>3, <1>4 DEF ClientOK, Clients, MachineStates, ConnectedStates

(***************************************************************************)
(* The records of a lookup replace those of the one before.                *)
(***************************************************************************)
LEMMA RefilledOK ==
  ASSUME NEW q, ClientOK(q), q.state # "LowTryConnect", NEW a \in Answers
  PROVE  LET r == Refilled(q, a)
         IN  /\ ClientOK(r) /\ r.up = q.up /\ r.tasks = q.tasks /\ r.state = q.state
             /\ r.rrs = a.rrs
<1> DEFINE g == IF Len(a.rrs) > q.room THEN Len(a.rrs) ELSE q.room
           x == IF Len(a.rrs) > q.room THEN Dangling ELSE q.next
<1>1. Refilled(q, a) = [q EXCEPT !.rrs = a.rrs, !.failed = a.failed, !.room = g, !.next = x]
  BY DEF Refilled, ClientOK, Clients
<1>2. a.rrs \in Seq(Hosts) /\ a.failed \in BOOLEAN
  BY ClientAssumption
<1>3. g \in Nat /\ x \in Nat
  BY <1>2 DEF Dangling, ClientOK, Clients
<1> HIDE DEF g, x
<1>4. QED
  BY <1>1, <1>2, <1>3 DEF ClientOK, Clients

(***************************************************************************)
(* The search for a server has a result.                                   *)
(***************************************************************************)
LEMMA SRVResultOK ==
  ASSUME NEW q, ClientOK(q), ~q.up, q.state # "LowTryConnect", NEW a \in Answers
  PROVE  LET r == SRVResult(q, a)
         IN  ClientOK(r) /\ ~r.up /\ r.tasks = q.tasks /\ r.state # "Disconnected"
<1> DEFINE f == Refilled(q, a)
           e == Len(a.rrs) + 1
           i == [f EXCEPT !.state = "ConnIdle"]
           m == [f EXCEPT !.next = e]
<1>1. ClientOK(f) /\ ~f.up /\ f.tasks = q.tasks /\ f.state # "LowTryConnect"
  BY RefilledOK
<1>2. SRVResult(q, a) = IF a.rrs = <<>> THEN i ELSE ConnectToNext(m)
  BY DEF SRVResult
<1>3. e \in Nat
  BY ClientAssumption
<1> HIDE DEF f, e
<1>4. /\ ClientOK(i) /\ ~i.up /\ i.tasks = q.tasks /\ i.state # "Disconnected"
      /\ ClientOK(m) /\ ~m.up /\ m.tasks = q.tasks
  BY <1>1, <1>3 DEF ClientOK, Clients, MachineStates, ConnectedStates
<1> HIDE DEF i, m
<1>5. QED
  BY <1>2, <1>4, ConnectToNextOK

(***************************************************************************)
(* The client has a connection and chooses the state below StateConnected. *)
(***************************************************************************)
LEMMA InitConnectedOK ==
  ASSUME NEW q, q \in Clients
  PROVE  LET r == InitConnected(q)
         IN  ClientOK(r) /\ r.up = q.up /\ r.tasks = q.tasks /\ r.state # "Disconnected"
<1> DEFINE t == IF AtBegin(q) /\ ~q.failed THEN "HighestPrio" ELSE "LowIdle"
<1>1. InitConnected(q) = [q EXCEPT !.state = t]
  BY DEF InitConnected
<1>2. t \in {"HighestPrio", "LowIdle"}
  OBVIOUS
<1> HIDE DEF t
<1>3. QED
  BY <1>1, <1>2 DEF ClientOK, Clients, MachineStates, ConnectedStates

(***************************************************************************)
(* The search for a better server has a result.                            *)
(***************************************************************************)
LEMMA LowSRVResultOK ==
  ASSUME NEW q, ClientOK(q), q.state # "LowTryConnect", NEW a \in Answers
  PROVE  LET r == LowSRVResult(q, a)
         IN  ClientOK(r) /\ r.up = q.up /\ r.tasks = q.tasks /\ r.state # "Disconnected"
<1> DEFINE f == Refilled(q, a)
           m == [f EXCEPT !.state = "LowTryConnect", !.next = 1]
<1>1. ClientOK(f) /\ f.up = q.up /\ f.tasks = q.tasks /\ f.rrs = a.rrs
  BY RefilledOK
<1>2. LowSRVResult(q, a) = IF a.rrs # <<>> /\ a.rrs[1] # q.host THEN m ELSE InitConnected(f)
  BY DEF LowSRVResult
<1>3. a.rrs # <<>> => 1 \in 1 .. Len(a.rrs)
  BY ClientAssumption
<1> HIDE DEF f
<1>4. a.rrs # <<>> =>
        ClientOK(m) /\ m.up = q.up /\ m.tasks = q.tasks /\ m.state # "Disconnected"
  BY <1>1, <1>3 DEF ClientOK, Clients, MachineStates, ConnectedStates
<1> HIDE DEF m
<1>5. QED
  BY <1>1, <1>2, <1>4, InitConnectedOK DEF ClientOK

(***************************************************************************)
(* An attempt to connect succeeds.                                         *)
(***************************************************************************)
LEMMA ConnectedEventOK ==
  ASSUME NEW q, ClientOK(q)
  PROVE  LET r == ConnectedEvent(q)
         IN  ClientOK(r) /\ r.up /\ r.tasks = q.tasks + 1 /\ r.state # "Disconnected"
<1> DEFINE k == q.tasks + 1
           l == [q EXCEPT !.up = TRUE, !.tasks = k]
<1>1. ConnectedEvent(q) = InitConnected(l)
  BY DEF ConnectedEvent, ClientOK, Clients
<1>2. k \in Nat /\ k = q.tasks + 1
  BY DEF ClientOK, Clients
<1> HIDE DEF k
<1>3. l \in Clients /\ l.up /\ l.tasks = k
  BY <1>2 DEF ClientOK, Clients
<1> HIDE DEF l
<1>4. QED
  BY <1>1, <1>2, <1>3, InitConnectedOK

(***************************************************************************)
(* The connection is replaced by a better one.                             *)
(***************************************************************************)
LEMMA BgConnectedEventOK ==
  ASSUME NEW q, ClientOK(q), q.state = "LowTryConnect"
  PROVE  LET r == BgConnectedEvent(q)
         IN  ClientOK(r) /\ r.up = q.up /\ r.tasks = q.tasks + 1 /\ r.state # "Disconnected"
<1> DEFINE h == q.rrs[q.next]
           k == q.tasks + 1
           l == [q EXCEPT !.host = h, !.tasks = k]
<1>1. h \in Hosts /\ k \in Nat /\ k = q.tasks + 1
  BY DEF ClientOK, Clients
<1>2. BgConnectedEvent(q) = InitConnected(l)
  BY DEF BgConnectedEvent, ClientOK, Clients
<1> HIDE DEF h, k
<1>3. l \in Clients /\ l.up = q.up /\ l.tasks = q.tasks + 1
  BY <1>1 DEF ClientOK, Clients
<1> HIDE DEF l
<1>4. QED
  BY <1>2, <1>3, InitConnectedOK

(***************************************************************************)
(* A better server cannot be reached.                                      *)
(***************************************************************************)
LEMMA BgDisconnectedEventOK ==
  ASSUME NEW q, ClientOK(q), q.state = "LowTryConnect"
  PROVE  LET r == BgDisconnectedEvent(q)
         IN  ClientOK(r) /\ r.up = q.up /\ r.tasks = q.tasks /\ r.state # "Disconnected"
<1> DEFINE l == [q EXCEPT !.next = @ + 1]
           m == [l EXCEPT !.state = "LowIdle"]
<1>1. BgDisconnectedEvent(q) = IF ~AtEnd(l) /\ l.rrs[l.next] # q.host THEN l ELSE m
  BY DEF BgDisconnectedEvent, ClientOK, Clients
<1>2. /\ l \in Clients /\ l.up = q.up /\ l.tasks = q.tasks /\ l.state = q.state
      /\ l.rrs = q.rrs /\ l.next = q.next + 1
  BY DEF ClientOK, Clients
<1> HIDE DEF l
<1>3. ~AtEnd(l) => l.next \in 1 .. Len(l.rrs)
  BY <1>2 DEF AtEnd, ClientOK, Clients
<1>4. ~AtEnd(l) => ClientOK(l) /\ l.state # "Disconnected"
  BY <1>2, <1>3 DEF ClientOK
<1>5. ClientOK(m) /\ m.up = q.up /\ m.tasks = q.tasks /\ m.state # "Disconnected"
  BY <1>2 DEF ClientOK, Clients, MachineStates, ConnectedStates
<1> HIDE DEF m
<1>6. QED
  BY <1>1, <1>2, <1>4, <1>5

(***************************************************************************)
(* The connection is lost, or an attempt to connect fails.                 *)
(***************************************************************************)
LEMMA DisconnectedEventOK ==
  ASSUME NEW q, ClientOK(q), ~q.up, q.state # "Disconnected"
  PROVE  LET r == DisconnectedEvent(q)
         IN  ClientOK(r) /\ ~r.up /\ r.tasks = q.tasks /\ r.state # "Disconnected"
<1> DEFINE i == [q EXCEPT !.state = "ConnIdle"]
<1>1. ClientOK(i) /\ ~i.up /\ i.tasks = q.tasks /\ i.state # "Disconnected"
  BY DEF ClientOK, Clients, MachineStates
<1>2. DisconnectedEvent(q) \in {i, ConnectToNext(q), q}
  BY DEF DisconnectedEvent
<1> HIDE DEF i
<1>3. QED
  BY <1>1, <1>2, ConnectToNextOK

(***************************************************************************)
(* The client is told to disconnect, and to connect again.                 *)
(***************************************************************************)
LEMMA DisconnectEventOK ==
  ASSUME NEW q, ClientOK(q)
  PROVE  LET r == DisconnectEvent(q)
         IN  /\ ClientOK(r) /\ ~r.up /\ r.tasks = q.tasks /\ r.state = "Disconnected"
             /\ ClientOK(ConnectEvent(r)) /\ ~ConnectEvent(r).up
             /\ ConnectEvent(r).tasks = q.tasks /\ ConnectEvent(r).state # "Disconnected"
<1> DEFINE r == DisconnectEvent(q)
           c == [r EXCEPT !.state = "SRVLookup"]
<1>1. ClientOK(r) /\ ~r.up /\ r.tasks = q.tasks /\ r.state = "Disconnected"
  BY DEF ClientOK, Clients, MachineStates, DisconnectEvent
<1>2. ConnectEvent(r) = c
  BY <1>1 DEF ConnectEvent
<1> HIDE DEF r
<1>3. ClientOK(c) /\ ~c.up /\ c.tasks = q.tasks /\ c.state # "Disconnected"
  BY <1>1 DEF ClientOK, Clients, MachineStates
<1>4. QED
  BY <1>1, <1>2, <1>3 DEF r

-----------------------------------------------------------------------------
(***************************************************************************)
(* The session.                                                            *)
(***************************************************************************)

(***************************************************************************)
(* Every counter and timer starts within its range, and above zero.        *)
(***************************************************************************)
LEMMA Starts ==
  /\ UDP_HEARTBEAT_TX \in 0 .. UDP_HEARTBEAT_TX /\ UDP_HEARTBEAT_TX > 0
  /\ UDP_HEARTBEAT_RX \in 0 .. UDP_HEARTBEAT_RX
  /\ TCP_HEARTBEAT_RX \in 0 .. TCP_HEARTBEAT_RX
  /\ 1 + RECONNECT \in 0 .. (1 + RECONNECT) /\ 1 + RECONNECT > 0
  /\ 0 \in 0 .. (1 + RECONNECT)
  /\ 1 + FLUSH_TIMEOUT \in 0 .. (1 + FLUSH_TIMEOUT) /\ 1 + FLUSH_TIMEOUT > 0
  /\ 0 \in 0 .. (1 + FLUSH_TIMEOUT)
  /\ 1 + TALK_TIMEOUT \in 0 .. (1 + TALK_TIMEOUT) /\ 1 + TALK_TIMEOUT > 0
  /\ 0 \in 0 .. (1 + TALK_TIMEOUT)
BY SessionAssumption

(***************************************************************************)
(* onDisconnected stops what the heartbeat timer and the flush timer watch *)
(* and ends the streams.                                                   *)
(***************************************************************************)
LEMMA OnDisconnectedOK ==
  ASSUME NEW q, NEW s \in Sessions, Backed(q, s), NEW ordered \in BOOLEAN
  PROVE  LET r == OnDisconnected(s, ordered)
         IN  /\ r \in Sessions /\ r.state = "DISCONNECTED"
             /\ ~r.ticking /\ ~r.tick /\ ~r.dec /\ r.enc # "flushing"
             /\ r.ghost = s.ghost
             /\ ordered => r.recon > 0
<1> DEFINE c == IF ordered THEN 1 + RECONNECT ELSE 0
           e == IF s.flush > 0 THEN "idle" ELSE s.enc
           d == s.dec /\ s.talk = 0
           o == [s EXCEPT !.state = "DISCONNECTED", !.ticking = FALSE, !.tick = FALSE,
                          !.sock = FALSE, !.recon = c, !.flush = 0, !.enc = e,
                          !.dec = d, !.talk = 0]
<1>1. OnDisconnected(s, ordered) = o
  BY DEF OnDisconnected, Sessions
<1>2. c \in 0 .. (1 + RECONNECT) /\ (ordered => c > 0)
  BY Starts
<1>3. e \in {"idle", "open"}
  BY Starts DEF Sessions, Backed
<1>4. d = FALSE
  BY DEF Sessions, Backed
<1> HIDE DEF c, e, d
<1>5. o \in Sessions
  BY <1>2, <1>3, <1>4, Starts DEF Sessions
<1>6. /\ o.state = "DISCONNECTED" /\ ~o.ticking /\ ~o.tick /\ ~o.dec
      /\ o.enc = e /\ o.recon = c /\ o.ghost = s.ghost
  BY <1>4 DEF Sessions
<1>7. QED
  BY <1>1, <1>2, <1>3, <1>5, <1>6

(***************************************************************************)
(* A step of the client alone that neither makes nor closes a connection.  *)
(***************************************************************************)
LEMMA ClientAlone ==
  ASSUME NEW q, NEW s, Good(q, s), NEW r, ClientOK(r),
         r.up = q.up, r.tasks = q.tasks, r.state # "Disconnected"
  PROVE  Good(r, s)
BY DEF Good, Backed, Ghosts

(***************************************************************************)
(* A session without a connection and without a timer needs nothing.       *)
(***************************************************************************)
LEMMA SessionOver ==
  ASSUME NEW q, ClientOK(q), NEW s \in Sessions,
         s.state = "DISCONNECTED", ~s.dec, s.enc # "flushing", s.tick => s.ticking,
         s.ticking /\ ~q.up => s.ghost, q.state = "Disconnected" => s.recon > 0 \/ s.ghost
  PROVE  Good(q, s)
BY DEF Good, Backed, Ghosts, Sessions

(***************************************************************************)
(* disconnect enables the reconnect timer, unless the client had no        *)
(* connection; then onConnected was run without one.                       *)
(***************************************************************************)
LEMMA DisconnectOK ==
  ASSUME NEW s, Good(p, s), p.up \/ s.ticking, Disconnect(s)
  PROVE  IInv'
<1> DEFINE o == OnDisconnected(s, TRUE)
           r == [o EXCEPT !.state = "DISCONNECTED"]
           t == [s EXCEPT !.state = "DISCONNECTED"]
<1>1. ClientOK(p') /\ ~p'.up /\ p'.tasks = p.tasks
  BY DisconnectEventOK DEF Good, Disconnect
<1>2. CASE p.up
  <2>1. n' = r
    BY <1>2 DEF Disconnect
  <2>2. /\ o \in Sessions /\ ~o.ticking /\ ~o.tick /\ ~o.dec /\ o.enc # "flushing"
        /\ o.recon > 0
    BY OnDisconnectedOK DEF Good
  <2> HIDE DEF o
  <2>3. /\ r \in Sessions /\ r.state = "DISCONNECTED" /\ ~r.ticking /\ ~r.tick
        /\ ~r.dec /\ r.enc # "flushing" /\ r.recon > 0
    BY <2>2 DEF Sessions
  <2> HIDE DEF r
  <2>4. QED
    BY <1>1, <2>1, <2>3, SessionOver DEF IInv
<1>3. CASE ~p.up
  <2>1. n' = t
    BY <1>3 DEF Disconnect
  <2>2. s.ticking /\ s.ghost /\ ~s.dec
    BY <1>3 DEF Good, Backed, Ghosts
  <2>3. /\ t \in Sessions /\ t.state = "DISCONNECTED" /\ t.ticking /\ t.ghost /\ ~t.dec
        /\ (t.enc = "flushing" => t.flush > 0)
    BY <2>2 DEF Good, Backed, Sessions
  <2> HIDE DEF t
  <2>4. QED
    BY <1>1, <2>1, <2>3 DEF IInv, Good, Backed, Ghosts
<1>4. QED
  BY <1>2, <1>3

(***************************************************************************)
(* reconnect leaves a client that tries to connect.                        *)
(***************************************************************************)
LEMMA ReconnectOK ==
  ASSUME NEW s \in Sessions, ClientOK(p), Backed(p, s), s.tick => s.ticking,
         s.ticking /\ ~p.up => s.ghost, Reconnect(s)
  PROVE  IInv'
<1> DEFINE o == OnDisconnected(s, TRUE)
           r == [o EXCEPT !.state = "DISCONNECTED", !.recon = 0]
           t == [s EXCEPT !.state = "DISCONNECTED", !.recon = 0]
<1>1. ClientOK(p') /\ ~p'.up /\ p'.state # "Disconnected"
  BY DisconnectEventOK DEF Reconnect
<1>2. CASE p.up
  <2>1. n' = r
    BY <1>2 DEF Reconnect
  <2>2. o \in Sessions /\ ~o.ticking /\ ~o.tick /\ ~o.dec /\ o.enc # "flushing"
    BY OnDisconnectedOK
  <2> HIDE DEF o
  <2>3. /\ r \in Sessions /\ r.state = "DISCONNECTED" /\ ~r.ticking /\ ~r.tick
        /\ ~r.dec /\ r.enc # "flushing"
    BY <2>2, Starts DEF Sessions
  <2> HIDE DEF r
  <2>4. QED
    BY <1>1, <2>1, <2>3, SessionOver DEF IInv
<1>3. CASE ~p.up
  <2>1. n' = t
    BY <1>3 DEF Reconnect
  <2>2. ~s.dec
    BY <1>3 DEF Backed
  <2>3. /\ t \in Sessions /\ t.state = "DISCONNECTED" /\ ~t.dec
        /\ (t.enc = "flushing" => t.flush > 0)
        /\ (t.tick => t.ticking) /\ (t.ticking => t.ghost)
    BY <1>3, <2>2, Starts DEF Backed, Sessions
  <2> HIDE DEF t
  <2>4. QED
    BY <1>1, <2>1, <2>3 DEF IInv, Good, Backed, Ghosts
<1>4. QED
  BY <1>2, <1>3

-----------------------------------------------------------------------------
(***************************************************************************)
(* Initially there is no connection and nothing is due.                    *)
(***************************************************************************)
LEMMA InitOK == Init => IInv
<1> SUFFICES ASSUME NEW h \in Hosts, p = Connecting(h), Init
             PROVE  IInv
  BY DEF Init
<1>1. p \in Clients /\ ~p.up /\ p.state = "SRVLookup"
  BY DEF Connecting, Clients, MachineStates
<1>2. /\ n \in Sessions /\ n.state = "DISCONNECTED" /\ ~n.dec /\ n.enc # "flushing"
      /\ ~n.tick /\ ~n.ticking
  BY Starts DEF Init, Sessions
<1>3. ClientOK(p)
  BY <1>1 DEF ClientOK
<1>4. QED
  BY <1>1, <1>2, <1>3, SessionOver DEF IInv

(***************************************************************************)
(* The steps of the client.                                                *)
(***************************************************************************)
LEMMA LookupReadyOK ==
  ASSUME IInv, LookupReady
  PROVE  IInv'
<1>1. PICK a \in Answers :
        p' = IF p.state = "SRVLookup" THEN SRVResult(p, a) ELSE LowSRVResult(p, a)
  BY DEF LookupReady
<1>2. ClientOK(p) /\ p.state # "LowTryConnect" /\ (p.state = "SRVLookup" => ~p.up)
  BY DEF IInv, Good, ClientOK, ConnectedStates, LookupReady
<1>3. CASE p.state = "SRVLookup"
  BY <1>1, <1>2, <1>3, SRVResultOK, ClientAlone DEF IInv, LookupReady, ClientOK, Clients
<1>4. CASE p.state # "SRVLookup"
  BY <1>1, <1>2, <1>4, LowSRVResultOK, ClientAlone DEF IInv, LookupReady
<1>5. QED
  BY <1>3, <1>4

\* The connection is made, and the task that reports it is still to be run.
LEMMA ConnectsOK ==
  ASSUME IInv, Connects
  PROVE  IInv'
<1>1. ClientOK(p) /\ ~p.up /\ p.tasks \in Nat
  BY DEF IInv, Good, ClientOK, Clients, ConnectedStates, Connects
<1>2. ClientOK(p') /\ p'.up /\ p'.tasks = p.tasks + 1 /\ p'.state # "Disconnected"
  BY <1>1, ConnectedEventOK DEF Connects
<1>3. QED
  BY <1>1, <1>2 DEF IInv, Good, Backed, Ghosts, Connects

\* An attempt to connect fails: onDisconnected is called.
LEMMA ConnectFailsOK ==
  ASSUME IInv, ConnectFails
  PROVE  IInv'
<1>1. ClientOK(p) /\ ~p.up /\ p.state # "Disconnected"
  BY DEF IInv, Good, ClientOK, ConnectedStates, ConnectFails
<1>2. ClientOK(p') /\ p'.state # "Disconnected"
  BY <1>1, DisconnectedEventOK DEF ConnectFails
<1>3. QED
  BY <1>2, OnDisconnectedOK, SessionOver DEF IInv, Good, ConnectFails

\* The connection is closed by the reflector.
LEMMA RemoteCloseOK ==
  ASSUME IInv, RemoteClose
  PROVE  IInv'
<1> DEFINE q == [p EXCEPT !.up = FALSE]
<1>1. ClientOK(q) /\ ~q.up /\ q.state # "Disconnected"
  BY DEF IInv, Good, ClientOK, Clients, ConnectedStates, RemoteClose
<1>2. p' = DisconnectedEvent(q)
  BY DEF RemoteClose
<1> HIDE DEF q
<1>3. ClientOK(p') /\ p'.state # "Disconnected"
  BY <1>1, <1>2, DisconnectedEventOK
<1>4. QED
  BY <1>3, OnDisconnectedOK, SessionOver DEF IInv, Good, RemoteClose

\* A lookup is started, with or without a connection.
LEMMA IdleTimeoutOK ==
  ASSUME IInv, ConnIdleTimeout \/ LowIdleTimeout
  PROVE  IInv'
<1>1. /\ ClientOK(p') /\ p'.up = p.up /\ p'.tasks = p.tasks /\ p'.state # "Disconnected"
      /\ UNCHANGED n
  BY DEF IInv, Good, ClientOK, Clients, MachineStates, ConnectedStates,
         ConnIdleTimeout, LowIdleTimeout
<1>2. QED
  BY <1>1, ClientAlone DEF IInv

\* The connection is replaced: the node is told that it lost the one it had.
LEMMA BgConnectsOK ==
  ASSUME IInv, BgConnects
  PROVE  IInv'
<1>1. ClientOK(p') /\ p'.state # "Disconnected"
  BY BgConnectedEventOK DEF IInv, Good, BgConnects
<1>2. QED
  BY <1>1, OnDisconnectedOK, SessionOver DEF IInv, Good, BgConnects, Switched

\* A better server that refuses changes nothing for the session.
LEMMA BgConnectFailsOK ==
  ASSUME IInv, BgConnectFails
  PROVE  IInv'
BY BgDisconnectedEventOK, ClientAlone DEF IInv, Good, BgConnectFails

\* onConnected: the session starts, on a connection or on none.
LEMMA RunTasksOK ==
  ASSUME IInv, RunTasks
  PROVE  IInv'
<1> DEFINE u == ~p.up
           r == [n EXCEPT !.state = "EXPECT_CA_INFO", !.ticking = TRUE, !.talk = 0,
                          !.udpTx = UDP_HEARTBEAT_TX, !.udpRx = UDP_HEARTBEAT_RX,
                          !.tcpRx = TCP_HEARTBEAT_RX, !.ghost = u]
<1>1. ClientOK(p') /\ p'.up = p.up /\ p'.state = p.state
  BY DEF IInv, Good, ClientOK, Clients, RunTasks
<1>2. ~n.dec /\ (n.enc = "flushing" => n.flush > 0)
  BY DEF IInv, Good, Backed, RunTasks, ClientOK, Clients
<1>3. n' = r
  BY DEF RunTasks, OnConnected
<1>4. u \in BOOLEAN /\ u = ~p'.up
  BY <1>1
<1> HIDE DEF u
<1>5. r \in Sessions
  BY <1>4, Starts DEF IInv, Good, Sessions
<1>6. /\ r.state = "EXPECT_CA_INFO" /\ r.ticking /\ r.ghost = u /\ ~r.dec
      /\ (r.enc = "flushing" => r.flush > 0)
  BY <1>2 DEF IInv, Good, Sessions
<1> HIDE DEF r
<1>7. p'.state = "Disconnected" => ~p'.up
  BY <1>1 DEF ClientOK, ConnectedStates
<1>8. QED
  BY <1>1, <1>3, <1>4, <1>5, <1>6, <1>7 DEF IInv, Good, Backed, Ghosts

-----------------------------------------------------------------------------
(***************************************************************************)
(* The frames.                                                             *)
(***************************************************************************)

(***************************************************************************)
(* A frame restarts the counter of the silence on TCP, and nothing else.   *)
(***************************************************************************)
LEMMA HeardOK ==
  ASSUME IInv, NEW type
  PROVE  LET r == Heard(n, type)
         IN  /\ Good(p, r) /\ r.state = n.state /\ r.ghost = n.ghost /\ r.dec = n.dec
             /\ r.ticking = n.ticking /\ r.sock = n.sock /\ r.udpTx = n.udpTx
<1> DEFINE h == [n EXCEPT !.tcpRx = TCP_HEARTBEAT_RX]
<1>1. /\ Good(p, h) /\ h.state = n.state /\ h.ghost = n.ghost /\ h.dec = n.dec
      /\ h.ticking = n.ticking /\ h.sock = n.sock /\ h.udpTx = n.udpTx
  BY Starts DEF IInv, Good, Backed, Ghosts, Sessions
<1>2. Heard(n, type) = IF type = "SslReady" THEN n ELSE h
  BY DEF Heard
<1> HIDE DEF h
<1>3. QED
  BY <1>1, <1>2 DEF IInv

(***************************************************************************)
(* The login runs between onConnected and the first heartbeat on UDP; the  *)
(* socket is there before it is needed, and so is the counter.             *)
(***************************************************************************)
LEMMA LoginStepsAre ==
  ASSUME NEW step \in LoginSteps
  PROVE  /\ step[1] \notin {"DISCONNECTED", "CONNECTED"}
         /\ step[3] \notin {"DISCONNECTED", "CONNECTED", "EXPECT_CA_INFO"}
         /\ step[3] \in {"EXPECT_CA_BUNDLE", "EXPECT_START_ENCRYPTION",
                         "EXPECT_SSL_CON_READY", "EXPECT_AUTH_ANSWER", "EXPECT_SERVER_INFO",
                         "EXPECT_START_UDP_ENCRYPTION", "EXPECT_UDP_HEARTBEAT"}
         /\ step[3] = "EXPECT_START_UDP_ENCRYPTION" => step[2] = "ServerInfo"
         /\ step[3] = "EXPECT_UDP_HEARTBEAT" =>
              step[1] = "EXPECT_START_UDP_ENCRYPTION" /\ step[2] = "StartUdpEncryption"
BY DEF LoginSteps

\* Each frame of the login is answered in the state that expects it.
LEMMA LoginProceedsOK ==
  ASSUME IInv, NEW type, LoginProceeds(type)
  PROVE  IInv'
<1>1. PICK step \in LoginSteps :
        /\ step[1] = n.state /\ step[2] = type
        /\ n' = [Registered(Heard(n, type), type) EXCEPT
                   !.state = step[3], !.sock = @ \/ type = "ServerInfo"]
  BY DEF LoginProceeds
<1> DEFINE h == Heard(n, type)
           x == IF type = "StartUdpEncryption" THEN UDP_HEARTBEAT_TX ELSE h.udpTx
           k == h.sock \/ type = "ServerInfo"
           st == step[3]
           r == [h EXCEPT !.udpTx = x, !.state = st, !.sock = k]
<1>2. /\ Good(p, h) /\ h.state = n.state /\ h.ghost = n.ghost /\ h.dec = n.dec
      /\ h.sock = n.sock
  BY HeardOK
<1> HIDE DEF h
<1>3. h \in Sessions
  BY <1>2 DEF Good
<1>4. n' = r
  BY <1>1, <1>3 DEF Registered, Sessions, h
<1>5. n.state \notin {"DISCONNECTED", "CONNECTED"}
  BY <1>1, LoginStepsAre
<1>6. /\ st \in {"EXPECT_CA_BUNDLE", "EXPECT_START_ENCRYPTION",
                 "EXPECT_SSL_CON_READY", "EXPECT_AUTH_ANSWER", "EXPECT_SERVER_INFO",
                 "EXPECT_START_UDP_ENCRYPTION", "EXPECT_UDP_HEARTBEAT"}
  BY LoginStepsAre
<1>7. st = "EXPECT_START_UDP_ENCRYPTION" => k = TRUE
  BY <1>1, LoginStepsAre
<1>8. st = "EXPECT_UDP_HEARTBEAT" =>
        n.state = "EXPECT_START_UDP_ENCRYPTION" /\ type = "StartUdpEncryption"
  BY <1>1, LoginStepsAre
<1>9. st = "EXPECT_UDP_HEARTBEAT" => k = TRUE /\ x > 0
  BY <1>2, <1>8, Starts DEF Good, Backed
<1>10. x \in 0 .. UDP_HEARTBEAT_TX /\ k \in BOOLEAN
  BY <1>3, Starts DEF Sessions
<1> HIDE DEF st, x, k
<1>11. ~h.dec /\ h.ticking /\ ~h.ghost /\ p.up /\ p.tasks = 0
       /\ (h.enc = "flushing" => h.flush > 0)
  BY <1>2, <1>5 DEF Good, Backed, Ghosts, LoginProceeds, Greeted
<1>12. r \in Sessions
  BY <1>3, <1>6, <1>10 DEF Sessions
<1>13. /\ r.state = st /\ r.sock = k /\ r.udpTx = x /\ ~r.dec /\ r.ticking /\ ~r.ghost
       /\ (r.enc = "flushing" => r.flush > 0)
  BY <1>3, <1>11 DEF Sessions
<1> HIDE DEF r
<1>14. ClientOK(p) /\ p' = p /\ (p.up => p.state # "Disconnected")
  BY DEF IInv, Good, ClientOK, ConnectedStates, LoginProceeds
<1>15. QED
  BY <1>4, <1>6, <1>7, <1>9, <1>11, <1>12, <1>13, <1>14 DEF IInv, Good, Backed, Ghosts

\* A message that is refused ends in disconnect.
LEMMA RefusedOK ==
  ASSUME IInv, NEW type,
         \/ LoginRefused(type)
         \/ HandleMsgError
         \/ UserFrameRefused
  PROVE  IInv'
<1>1. p.up /\ Good(p, n) /\ Good(p, Heard(n, "Error")) /\ Good(p, Heard(n, "User"))
      /\ Good(p, Heard(n, type))
  BY HeardOK DEF IInv, LoginRefused, HandleMsgError, UserFrameRefused, Greeted
<1>2. PICK s \in {n, Heard(n, "Error"), Heard(n, "User"), Heard(n, type)} : Disconnect(s)
  BY DEF LoginRefused, HandleMsgError, UserFrameRefused
<1>3. Good(p, s)
  BY <1>1, <1>2
<1>4. QED
  BY <1>1, <1>2, <1>3, DisconnectOK

\* A new certificate ends in reconnect, or in disconnect when it is of no use.
LEMMA HandleMsgClientCertOK ==
  ASSUME IInv, HandleMsgClientCert
  PROVE  IInv'
<1> DEFINE h == Heard(n, "ClientCert")
<1>1. p.up /\ Good(p, h)
  BY HeardOK DEF HandleMsgClientCert, Greeted
<1>2. Reconnect(h) \/ Disconnect(h)
  BY DEF HandleMsgClientCert
<1> HIDE DEF h
<1>3. CASE Reconnect(h)
  BY <1>1, <1>3, ReconnectOK DEF Good, Ghosts
<1>4. CASE Disconnect(h)
  BY <1>1, <1>4, DisconnectOK
<1>5. QED
  BY <1>2, <1>3, <1>4

\* Whatever frame arrives.
LEMMA FrameOK ==
  ASSUME IInv, Frame
  PROVE  IInv'
<1>1. ASSUME NEW type \in LoginTypes, LoginProceeds(type) \/ LoginRefused(type)
      PROVE  IInv'
  BY <1>1, LoginProceedsOK, RefusedOK
<1>2. CASE OtherFrame
  BY <1>2, HeardOK DEF OtherFrame, IInv
<1>3. QED
  BY <1>1, <1>2, HandleMsgClientCertOK, RefusedOK DEF Frame

-----------------------------------------------------------------------------
(***************************************************************************)
(* The datagrams.  They are only received on a connection.                 *)
(***************************************************************************)

\* The first heartbeat ends the login.
LEMMA UdpHeartbeatOK ==
  ASSUME IInv, UdpHeartbeat
  PROVE  IInv'
<1> DEFINE st == IF UdpVerifying THEN "CONNECTED" ELSE n.state
           k == p.marked \/ UdpVerifying
           r == [n EXCEPT !.udpRx = UDP_HEARTBEAT_RX, !.state = st]
           q == [p EXCEPT !.marked = k]
<1>1. n' = r /\ p' = q
  BY DEF UdpHeartbeat, UdpHeard, IInv, Good, ClientOK, Clients, Sessions
<1>2. k \in BOOLEAN
  BY DEF UdpVerifying, IInv, Good, ClientOK, Clients
<1>3. st = n.state \/ (st = "CONNECTED" /\ n.state = "EXPECT_UDP_HEARTBEAT")
  BY DEF UdpVerifying
<1>4. st \in {"EXPECT_START_UDP_ENCRYPTION", "EXPECT_UDP_HEARTBEAT", "CONNECTED"}
  BY DEF UdpHeartbeat, UdpReceivable, TcpLoggedIn, LoggedIn, UdpVerifying
<1> HIDE DEF st, k
<1>5. ClientOK(q) /\ q.up = p.up /\ q.tasks = p.tasks /\ q.state = p.state
  BY <1>2 DEF IInv, Good, ClientOK, Clients
<1>6. r \in Sessions
  BY <1>4, Starts DEF IInv, Good, Sessions
<1>7. Backed(p, r) /\ Ghosts(p, r)
  BY <1>3 DEF IInv, Good, Backed, Ghosts, Sessions
<1> HIDE DEF q, r
<1>8. QED
  BY <1>1, <1>5, <1>6, <1>7 DEF IInv, Good, Backed, Ghosts

\* A datagram that is only a sign of life.
LEMMA UdpIgnoredOK ==
  ASSUME IInv, UdpIgnored
  PROVE  IInv'
BY Starts DEF UdpIgnored, UdpHeard, IInv, Good, Backed, Ghosts, Sessions

\* Audio is noted with the time it came.
LEMMA UdpAudioOK ==
  ASSUME IInv, UdpAudio
  PROVE  IInv'
<1> DEFINE r == [n EXCEPT !.udpRx = UDP_HEARTBEAT_RX, !.talk = 1 + TALK_TIMEOUT, !.dec = TRUE]
<1>1. n' = r /\ p' = p /\ n.state = "CONNECTED"
  BY DEF UdpAudio, UdpHeard, AudioNoted, LoggedIn, IInv, Good, Sessions
<1>2. r \in Sessions
  BY Starts DEF IInv, Good, Sessions
<1>3. r.talk > 0 /\ r.state = "CONNECTED"
  BY <1>1, Starts DEF IInv, Good, Sessions
<1>4. Backed(p, r) /\ Ghosts(p, r)
  BY <1>3 DEF IInv, Good, Backed, Ghosts, Sessions
<1> HIDE DEF r
<1>5. QED
  BY <1>1, <1>2, <1>4 DEF IInv, Good

\* The end of the audio stops its timer.
LEMMA UdpFlushSamplesOK ==
  ASSUME IInv, UdpFlushSamples
  PROVE  IInv'
<1> DEFINE r == [n EXCEPT !.udpRx = UDP_HEARTBEAT_RX, !.dec = FALSE, !.talk = 0]
<1>1. n' = r /\ p' = p
  BY DEF UdpFlushSamples, UdpHeard, IInv, Good, Sessions
<1>2. r \in Sessions
  BY Starts DEF IInv, Good, Sessions
<1>3. Backed(p, r) /\ Ghosts(p, r)
  BY DEF IInv, Good, Backed, Ghosts, Sessions
<1> HIDE DEF r
<1>4. QED
  BY <1>1, <1>2, <1>3 DEF IInv, Good

\* The answer of the reflector ends the flush.
LEMMA UdpAllSamplesFlushedOK ==
  ASSUME IInv, UdpAllSamplesFlushed
  PROVE  IInv'
<1> DEFINE e == IF n.enc = "flushing" THEN "idle" ELSE n.enc
           r == [n EXCEPT !.udpRx = UDP_HEARTBEAT_RX, !.enc = e]
<1>1. n' = r /\ p' = p
  BY DEF UdpAllSamplesFlushed, UdpHeard, IInv, Good, Sessions
<1>2. e \in {"idle", "open"}
  BY DEF IInv, Good, Sessions
<1> HIDE DEF e
<1>3. r \in Sessions
  BY <1>2, Starts DEF IInv, Good, Sessions
<1>4. Backed(p, r) /\ Ghosts(p, r)
  BY <1>2 DEF IInv, Good, Backed, Ghosts, Sessions
<1> HIDE DEF r
<1>5. QED
  BY <1>1, <1>3, <1>4 DEF IInv, Good

-----------------------------------------------------------------------------
(***************************************************************************)
(* The audio from the logic.                                               *)
(***************************************************************************)

\* Audio stops the flush timer together with the flush it waits for.
LEMMA SendEncodedAudioOK ==
  ASSUME IInv, SendEncodedAudio
  PROVE  IInv'
<1> DEFINE a == [n EXCEPT !.udpTx = UDP_HEARTBEAT_TX, !.flush = 0, !.enc = "open"]
           b == [n EXCEPT !.enc = "open"]
<1>1. n' \in {a, b} /\ p' = p
  BY DEF SendEncodedAudio, UdpSent, IInv, Good, Sessions
<1>2. Good(p, a)
  BY Starts DEF IInv, Good, Backed, Ghosts, Sessions
<1>3. Good(p, b)
  BY DEF IInv, Good, Backed, Ghosts, Sessions
<1> HIDE DEF a, b
<1>4. QED
  BY <1>1, <1>2, <1>3 DEF IInv

\* A flush waits for the reflector, by a timer, or ends at once.
LEMMA FlushEncodedAudioOK ==
  ASSUME IInv, FlushEncodedAudio
  PROVE  IInv'
<1> DEFINE a == [n EXCEPT !.udpTx = UDP_HEARTBEAT_TX, !.enc = "flushing",
                          !.flush = 1 + FLUSH_TIMEOUT]
           b == [n EXCEPT !.enc = "idle", !.flush = 0]
<1>1. n' \in {a, b} /\ p' = p
  BY DEF FlushEncodedAudio, Flushed, UdpSent, IInv, Good, Sessions
<1>2. Good(p, a)
  BY Starts DEF IInv, Good, Backed, Ghosts, Sessions
<1>3. Good(p, b)
  BY Starts DEF IInv, Good, Backed, Ghosts, Sessions
<1> HIDE DEF a, b
<1>4. QED
  BY <1>1, <1>2, <1>3 DEF IInv

\* A datagram goes out, which restarts the heartbeat.
LEMMA AllEncodedSamplesFlushedOK ==
  ASSUME IInv, AllEncodedSamplesFlushed
  PROVE  IInv'
BY Starts DEF AllEncodedSamplesFlushed, UdpSent, IInv, Good, Backed, Ghosts, Sessions

-----------------------------------------------------------------------------
(***************************************************************************)
(* Time.                                                                   *)
(***************************************************************************)

(***************************************************************************)
(* Counting down leaves the range and the sign of a timer as they are.     *)
(***************************************************************************)
LEMMA CountDownIs ==
  ASSUME NEW b \in Nat, NEW t \in 0 .. b
  PROVE  CountDown(t) \in 0 .. b /\ (t > 0 => CountDown(t) > 0)
BY DEF CountDown

\* A counter of the heartbeats stays in its range.
LEMMA LessIs ==
  ASSUME NEW b \in Nat, NEW k \in 0 .. b
  PROVE  Less(k) \in 0 .. b
BY DEF Less

\* The timers count down and do not pass their end.
LEMMA SecondPassesOK ==
  ASSUME IInv, SecondPasses
  PROVE  IInv'
<1> DEFINE c == CountDown(n.recon)
           f == CountDown(n.flush)
           t == CountDown(n.talk)
           r == [n EXCEPT !.tick = n.ticking, !.recon = c, !.flush = f, !.talk = t]
<1>1. n' = r /\ p' = p
  BY DEF SecondPasses, IInv, Good, Sessions
<1>2. c \in 0 .. (1 + RECONNECT) /\ (n.recon > 0 => c > 0)
  BY CountDownIs, SessionAssumption DEF IInv, Good, Sessions
<1>3. f \in 0 .. (1 + FLUSH_TIMEOUT) /\ (n.flush > 0 => f > 0)
  BY CountDownIs, SessionAssumption DEF IInv, Good, Sessions
<1>4. t \in 0 .. (1 + TALK_TIMEOUT) /\ (n.talk > 0 => t > 0)
  BY CountDownIs, SessionAssumption DEF IInv, Good, Sessions
<1>5. n.recon \in Nat
  BY SessionAssumption DEF IInv, Good, Sessions
<1> HIDE DEF c, f, t
<1>6. r \in Sessions
  BY <1>2, <1>3, <1>4 DEF IInv, Good, Sessions
<1>7. Backed(p, r)
  BY <1>3, <1>4 DEF IInv, Good, Backed, Sessions
<1>8. Ghosts(p, r)
  BY <1>2, <1>5 DEF IInv, Good, Ghosts, Sessions
<1> HIDE DEF r
<1>9. QED
  BY <1>1, <1>6, <1>7, <1>8 DEF IInv, Good

\* Silence ends in disconnect, on the state that the rest of the tick has left.
LEMMA HandleTimerTickOK ==
  ASSUME IInv, HandleTimerTick
  PROVE  IInv'
<1> DEFINE d == IF n.talk = 1 THEN FALSE ELSE n.dec
           t == IF n.talk = 1 THEN 0 ELSE n.talk
           x == UdpTxCounted(n.udpTx)
           u == Less(n.udpRx)
           c == Less(n.tcpRx)
           s == [n EXCEPT !.dec = d, !.talk = t, !.tick = FALSE, !.udpTx = x,
                          !.udpRx = u, !.tcpRx = c]
           z == [StreamEnded(n) EXCEPT !.tick = FALSE, !.udpTx = UdpTxCounted(@),
                                       !.udpRx = Less(@), !.tcpRx = Less(@)]
<1>1. z = s
  BY DEF StreamEnded, IInv, Good, Sessions
<1>2. Disconnect(z) \/ (n' = z /\ UNCHANGED p)
  BY DEF HandleTimerTick
<1> HIDE DEF z
<1>3. Disconnect(s) \/ (n' = s /\ p' = p)
  BY <1>1, <1>2
<1>4. /\ d \in BOOLEAN /\ t \in 0 .. (1 + TALK_TIMEOUT)
      /\ (d => n.dec /\ t > 0)
  BY Starts DEF IInv, Good, Backed, Sessions
<1>5. x \in 0 .. UDP_HEARTBEAT_TX
  BY LessIs, Starts, SessionAssumption DEF UdpTxCounted, IInv, Good, Sessions
<1>6. n.state \in {"EXPECT_UDP_HEARTBEAT", "CONNECTED"} => x > 0
  BY SessionAssumption DEF UdpTxCounted, Less, UdpVerifying, LoggedIn,
                           IInv, Good, Backed, Sessions
<1>7. u \in 0 .. UDP_HEARTBEAT_RX /\ c \in 0 .. TCP_HEARTBEAT_RX
  BY LessIs, SessionAssumption DEF IInv, Good, Sessions
<1> HIDE DEF d, t, x, u, c
<1>8. s \in Sessions
  BY <1>4, <1>5, <1>7 DEF IInv, Good, Sessions
<1>9. Backed(p, s)
  BY <1>4, <1>6 DEF IInv, Good, Backed, Sessions
<1>10. Ghosts(p, s) /\ s.ticking
  BY DEF HandleTimerTick, IInv, Good, Ghosts, Sessions
<1> HIDE DEF s
<1>11. Good(p, s)
  BY <1>8, <1>9, <1>10 DEF IInv, Good
<1>12. QED
  BY <1>3, <1>10, <1>11, DisconnectOK DEF IInv

\* The reconnect timer asks the client to connect.
LEMMA ReconnectTimeoutOK ==
  ASSUME IInv, ReconnectTimeout
  PROVE  IInv'
<1> DEFINE s == [n EXCEPT !.recon = 0]
<1>1. Reconnect(s)
  BY DEF ReconnectTimeout
<1>2. s \in Sessions
  BY Starts DEF IInv, Good, Sessions
<1>3. Backed(p, s)
  BY DEF IInv, Good, Backed, Sessions
<1>4. (s.tick => s.ticking) /\ (s.ticking /\ ~p.up => s.ghost)
  BY DEF IInv, Good, Ghosts, Sessions
<1> HIDE DEF s
<1>5. QED
  BY <1>1, <1>2, <1>3, <1>4, ReconnectOK DEF IInv, Good

\* The flush ends without the answer.
LEMMA FlushTimeoutOK ==
  ASSUME IInv, FlushTimeout
  PROVE  IInv'
<1> DEFINE e == IF n.enc = "flushing" THEN "idle" ELSE n.enc
           r == [n EXCEPT !.flush = 0, !.enc = e]
<1>1. n' = r /\ p' = p
  BY DEF FlushTimeout, IInv, Good, Sessions
<1>2. e \in {"idle", "open"}
  BY DEF IInv, Good, Sessions
<1> HIDE DEF e
<1>3. r \in Sessions
  BY <1>2, Starts DEF IInv, Good, Sessions
<1>4. Backed(p, r) /\ Ghosts(p, r)
  BY <1>2 DEF IInv, Good, Backed, Ghosts, Sessions
<1> HIDE DEF r
<1>5. QED
  BY <1>1, <1>3, <1>4 DEF IInv, Good

-----------------------------------------------------------------------------
(***************************************************************************)
(* The results.                                                            *)
(***************************************************************************)

(***************************************************************************)
(* Every step keeps the invariant.                                         *)
(***************************************************************************)
LEMMA NextOK ==
  ASSUME IInv, [Next]_vars
  PROVE  IInv'
<1>1. CASE UNCHANGED vars
  BY <1>1 DEF vars, IInv
<1>2. CASE Datagram
  BY <1>2, UdpHeartbeatOK, UdpIgnoredOK, UdpAudioOK, UdpFlushSamplesOK,
     UdpAllSamplesFlushedOK DEF Datagram
<1>3. CASE \/ LookupReady \/ Connects \/ ConnectFails \/ RemoteClose
           \/ ConnIdleTimeout \/ LowIdleTimeout \/ BgConnects \/ BgConnectFails
           \/ RunTasks
  BY <1>3, LookupReadyOK, ConnectsOK, ConnectFailsOK, RemoteCloseOK, IdleTimeoutOK,
     BgConnectsOK, BgConnectFailsOK, RunTasksOK
<1>4. CASE \/ SendEncodedAudio \/ FlushEncodedAudio \/ AllEncodedSamplesFlushed
           \/ SecondPasses \/ HandleTimerTick \/ ReconnectTimeout \/ FlushTimeout
  BY <1>4, SendEncodedAudioOK, FlushEncodedAudioOK, AllEncodedSamplesFlushedOK,
     SecondPassesOK, HandleTimerTickOK, ReconnectTimeoutOK, FlushTimeoutOK
<1>5. QED
  BY <1>1, <1>2, <1>3, <1>4, FrameOK DEF Next

(***************************************************************************)
(* The invariant always holds.                                             *)
(***************************************************************************)
THEOREM Invariance == Spec => []IInv
<1>1. IInv /\ [Next]_vars => IInv'
  BY NextOK
<1>2. QED
  BY InitOK, <1>1, PTL DEF Spec

(***************************************************************************)
(* A node that takes itself for logged in has a connection, a heartbeat    *)
(* timer and a UDP socket; no stream is left open without a timer that     *)
(* ends it; and the counter of the UDP heartbeats is above zero when they  *)
(* are needed.                                                             *)
(***************************************************************************)
THEOREM AlwaysSupervised == Spec => []Supervised
<1>1. IInv => SessionIsLive
  BY DEF SessionIsLive, LoggedIn, IInv, Good, Backed
<1>2. IInv => AudioNeverHangs
  BY DEF AudioNeverHangs, IInv, Good, Backed
<1>3. IInv => UdpKeptAlive
  BY DEF UdpKeptAlive, UdpVerifying, LoggedIn, IInv, Good, Backed
<1>4. IInv => Supervised
  BY <1>1, <1>2, <1>3 DEF Supervised
<1>5. QED
  BY Invariance, <1>4, PTL

(***************************************************************************)
(* A client that was disconnected is followed up by the reconnect timer,   *)
(* unless a task reported a connection that was closed already.            *)
(***************************************************************************)
THEOREM OnlyTasksStrand == Spec => []StrandedByTaskOnly
<1>1. IInv => StrandedByTaskOnly
  BY DEF StrandedByTaskOnly, Stranded, IInv, Good, Ghosts
<1>2. QED
  BY Invariance, <1>1, PTL

-----------------------------------------------------------------------------
(***************************************************************************)
(* The sequence numbers of the datagrams.                                  *)
(*                                                                         *)
(* First about numbers that wrap around: the difference of two of them     *)
(* tells which is the newer one, if they are less than half the range      *)
(* apart.  Then, that the numbers a receiver compares are: what was sent   *)
(* since the newest datagram that was handled is bounded by the time its   *)
(* heartbeat counter has counted.                                          *)
(***************************************************************************)

\* What division with remainder gives.
LEMMA ModDef ==
    ASSUME NEW r \in Nat \ {0}, NEW a \in Int
    PROVE  /\ a % r \in 0 .. r - 1
           /\ \E q \in Int : a = r * q + (a % r)
  <1>1. a % r \in 0 .. r - 1
    BY SMT
  <1>2. a \div r \in Int /\ a = r * (a \div r) + (a % r)
    BY SMT
  <1> QED BY <1>1, <1>2

\* A multiple of r that is near a number smaller than r is -r, 0 or r.
LEMMA SmallQuotient ==
    ASSUME NEW r \in Nat \ {0}, NEW q \in Int, NEW x \in Int, NEW lim \in Int,
           -r < x, x < r, r * q + x < lim, lim <= r, -r <= r * q + x
    PROVE  q \in {-1, 0, 1}
  <1>1. CASE q >= 2
    <2>1. r * q >= r * 2 BY <1>1, SMT
    <2> QED BY <2>1, SMT
  <1>2. CASE q <= -2
    <2>1. r * q <= r * (-2) BY <1>2, SMT
    <2> QED BY <2>1, SMT
  <1> QED BY <1>1, <1>2, SMT

\* The difference of two numbers from those of quotients and remainders.
LEMMA Distribute ==
    ASSUME NEW r \in Nat, NEW g \in Int, NEW q \in Int, NEW u \in Int, NEW v \in Int,
           NEW a, NEW b, a = r * g + u, b = r * q + v
    PROVE  a - b = r * (g - q) + (u - v)
  BY SMT

\* The comparison of version 2: for numbers that are less than half the range apart, the
\* difference modulo the range is in the lower half exactly if the first is not older.
LEMMA ModWindow ==
    ASSUME NEW h \in Nat \ {0}, NEW r \in Nat \ {0}, r = 2 * h,
           NEW a \in Int, NEW b \in Int, -h <= a - b, a - b < h
    PROVE  (((a % r) - (b % r)) % r < h) <=> a >= b
  <1>1. PICK g \in Int : a = r * g + (a % r) BY ModDef
  <1>2. PICK q \in Int : b = r * q + (b % r) BY ModDef
  <1>3. PICK u \in 0 .. r - 1 : u = a % r BY ModDef
  <1>4. PICK v \in 0 .. r - 1 : v = b % r BY ModDef
  <1>5. PICK k \in Int, x \in Int : k = g - q /\ x = u - v OBVIOUS
  <1>6. a - b = r * k + x
    <2>1. a = r * g + u /\ b = r * q + v BY <1>1, <1>2, <1>3, <1>4
    <2>2. a - b = r * (g - q) + (u - v) BY <2>1, u \in Int, v \in Int, r \in Nat, Distribute
    <2> QED BY <2>2, <1>5
  <1>7. -r < x /\ x < r BY <1>5, SMT
  <1>8. k \in {-1, 0, 1} BY <1>6, <1>7, SmallQuotient, SMT
  <1>9. a - b = x \/ a - b = x - r \/ a - b = x + r BY <1>6, <1>8, SMT
  <1>10. PICK j \in Int : x = r * j + (x % r) BY ModDef
  <1>11. PICK z \in 0 .. r - 1 : z = x % r BY ModDef
  <1>12. x = r * j + z BY <1>10, <1>11
  <1>13. j \in {-1, 0, 1} BY <1>7, <1>12, SmallQuotient, SMT
  <1>14. x = z \/ x = z + r \/ x = z - r BY <1>12, <1>13, SMT
  <1>15. (z < h) <=> a >= b BY <1>7, <1>9, <1>14, SMT
  <1> QED BY <1>3, <1>4, <1>5, <1>11, <1>15

\* Quotient and remainder are unique.
LEMMA ModUnique ==
    ASSUME NEW r \in Nat \ {0}, NEW a \in Int, NEW g \in Int, NEW y \in 0 .. r - 1,
           a = r * g + y
    PROVE  a % r = y
  <1>1. PICK q \in Int : a = r * q + (a % r) BY ModDef
  <1>2. a % r \in 0 .. r - 1 BY ModDef
  <1>3. PICK z : z = a % r OBVIOUS
  <1>4. PICK k \in Int : k = q - g OBVIOUS
  <1>5. r * k = y - z BY <1>1, <1>2, <1>3, <1>4, SMT
  <1>6. CASE k >= 1
    <2>1. r * k >= r BY <1>6, SMT
    <2> QED BY <2>1, <1>2, <1>3, <1>5, SMT
  <1>7. CASE k <= -1
    <2>1. r * k <= -r BY <1>7, SMT
    <2> QED BY <2>1, <1>2, <1>3, <1>5, SMT
  <1> QED BY <1>2, <1>3, <1>5, <1>6, <1>7, SMT

\* The successor of a number that has wrapped around.
LEMMA ModSuccessor ==
    ASSUME NEW r \in Nat \ {0}, NEW a \in Int
    PROVE  ((a % r) + 1) % r = (a + 1) % r
  <1>1. PICK g \in Int : a = r * g + (a % r) BY ModDef
  <1>2. a % r \in 0 .. r - 1 BY ModDef
  <1>3. PICK y : y = (a % r) + 1 OBVIOUS
  <1>4. y \in 1 .. r BY <1>2, <1>3, SMT
  <1>5. a + 1 = r * g + y BY <1>1, <1>2, <1>3, SMT
  <1>6. CASE y < r
    <2>1. y = r * 0 + y /\ y \in 0 .. r - 1 BY <1>4, <1>6, SMT
    <2>2. y % r = y BY <2>1, ModUnique
    <2>3. (a + 1) % r = y BY <2>1, <1>5, a + 1 \in Int, ModUnique
    <2> QED BY <2>2, <2>3, <1>3
  <1>7. CASE y = r
    <2>1. y = r * 1 + 0 /\ a + 1 = r * (g + 1) + 0 BY <1>5, <1>7, SMT
    <2>2. y % r = 0 BY <2>1, <1>4, ModUnique
    <2>3. (a + 1) % r = 0
      BY <2>1, a + 1 \in Int, g + 1 \in Int, 0 \in 0 .. r - 1, ModUnique
    <2> QED BY <2>2, <2>3, <1>3
  <1> QED BY <1>4, <1>6, <1>7, SMT

----------------------------------------------------------------------------
(* The invariant *)

\* What was sent since the newest datagram that was handled: it may have been as late as
\* MAX_DELAY, and RATE datagrams were sent in each second counted since.
Backlog(d) == MAX_DELAY + RATE * (RX_CNT_RESET[d] - cnt[d]) + burst[d]

WindowInv(d) ==
    /\ tx[d] \in Nat /\ top[d] \in Int /\ -1 <= top[d] /\ top[d] < tx[d]
    /\ cnt[d] \in 1 .. RX_CNT_RESET[d] /\ burst[d] \in 0 .. RATE
    /\ next[d] = After(top[d])
    /\ ver = 2 => tx[d] - top[d] - 1 <= Backlog(d)

TypeInv ==
    /\ ver \in {2, 3} /\ {loggedIn, known, registers} \subseteq BOOLEAN
    /\ tx \in [Directions -> Int] /\ next \in [Directions -> Int]
    /\ cnt \in [Directions -> Int] /\ burst \in [Directions -> Int]
    /\ top \in [Directions -> Int]

UdpInv ==
    /\ TypeInv
    /\ registers => ver = 3
    /\ ver = 3 => tx["up"] >= 1
    /\ ~known => burst["down"] = 0
    /\ \A d \in Directions : WindowInv(d)

\* The receivers' time-outs bound what is sent while one of them runs.
LEMMA SentInTime ==
    ASSUME NEW r \in Nat \ {0}, NEW t \in Nat \ {0}, NEW c \in 1 .. t
    PROVE  /\ r * (t - c) \in Nat
           /\ r * (t - c) + r <= r * t
           /\ r * (t - (c - 1)) = r * (t - c) + r
  <1>1. r * (t - (c - 1)) = r * (t - c) + r BY SMT
  <1>2. t - c \in Nat BY SMT
  <1>3. r * (t - c) \in Nat BY <1>2, SMT
  <1>4. r * t = r * (t - c) + r * c BY SMT
  <1>5. r * c >= r BY SMT
  <1> QED BY <1>1, <1>3, <1>4, <1>5, SMT

\* The number after one that was handled.
LEMMA AfterValue ==
    ASSUME NEW k \in Int, k >= -1
    PROVE  /\ ver = 2 => After(k) = (k + 1) % RANGE
           /\ ver # 2 => After(k) = k + 1
  <1>1. RANGE \in Nat \ {0} BY UdpAssumption, SMT DEF RANGE
  <1>2. ((k % RANGE) + 1) % RANGE = (k + 1) % RANGE BY <1>1, ModSuccessor
  <1> QED BY <1>2 DEF After, SeqNo

\* The invariant makes the windows exact.
LEMMA InvImpliesWindow == UdpInv => WindowExact
  <1> SUFFICES ASSUME UdpInv, NEW d \in Directions, NEW k \in InFlight(d) \cup {tx[d]}
               PROVE  InSequence(k, next[d]) <=> k > top[d]
    BY DEF WindowExact
  <1>1. WindowInv(d) /\ ver \in {2, 3} BY DEF UdpInv, TypeInv
  <1>2. k \in Int /\ k <= tx[d] /\ k >= tx[d] - MAX_DELAY
    BY <1>1, UdpAssumption, SMT DEF InFlight, First, WindowInv
  <1>3. CASE ver = 3
    <2>1. next[d] = top[d] + 1 BY <1>1, <1>3, AfterValue DEF WindowInv
    <2> QED BY <1>1, <1>2, <1>3, <2>1, SMT DEF InSequence, WindowInv
  <1>4. CASE ver = 2
    <2>1. next[d] = (top[d] + 1) % RANGE BY <1>1, <1>4, AfterValue DEF WindowInv
    <2>2. /\ HALF \in Nat \ {0} /\ RANGE \in Nat \ {0} /\ RANGE = 2 * HALF
          /\ RX_CNT_RESET[d] \in Nat \ {0} /\ RATE \in Nat \ {0} /\ MAX_DELAY \in Nat
          /\ MAX_DELAY + RATE * RX_CNT_RESET[d] < HALF
      BY UdpAssumption DEF RANGE
    <2>3. /\ RATE * (RX_CNT_RESET[d] - cnt[d]) \in Nat
          /\ RATE * (RX_CNT_RESET[d] - cnt[d]) + RATE <= RATE * RX_CNT_RESET[d]
      BY <1>1, <2>2, SentInTime DEF WindowInv
    <2>4. RATE * RX_CNT_RESET[d] \in Nat BY <2>2, SMT
    <2>5. -HALF <= k - (top[d] + 1) /\ k - (top[d] + 1) < HALF
      BY <1>1, <1>2, <1>4, <2>2, <2>3, <2>4, SMT DEF WindowInv, Backlog
    <2>6. PICK b \in Int : b = top[d] + 1 BY <1>1 DEF WindowInv
    <2>7. (((k % RANGE) - (b % RANGE)) % RANGE < HALF) <=> k >= b
      <3>1. -HALF <= k - b /\ k - b < HALF BY <2>5, <2>6
      <3> QED BY <1>2, <2>2, <3>1, ModWindow
    <2>8. InSequence(k, next[d]) <=> k >= top[d] + 1
      BY <1>4, <2>1, <2>6, <2>7 DEF InSequence, Difference, SeqNo
    <2> QED BY <1>1, <1>2, <2>8, SMT DEF WindowInv
  <1> QED BY <1>1, <1>3, <1>4

\* The state in which a connection begins.
LEMMA UdpInitInv == UdpInit => UdpInv
  <1> SUFFICES ASSUME UdpInit PROVE UdpInv OBVIOUS
  <1>1. TypeInv
    <2>1. {loggedIn, known, registers} \subseteq BOOLEAN BY DEF UdpInit
    <2>2. cnt \in [Directions -> Int] BY UdpAssumption, SMT DEF UdpInit
    <2>3. tx \in [Directions -> Int] BY SMT DEF UdpInit, First
    <2> QED BY <2>1, <2>2, <2>3, SMT DEF UdpInit, TypeInv, Zero
  <1>2. ver = 3 => tx["up"] >= 1 BY SMT DEF UdpInit, First, Directions
  <1>3. ~known => burst["down"] = 0 BY DEF UdpInit, Zero, Directions
  <1>4. ASSUME NEW d \in Directions PROVE WindowInv(d)
    <2>1. /\ top[d] = -1 /\ cnt[d] = RX_CNT_RESET[d] /\ burst[d] = 0 /\ next[d] = 0
          /\ tx[d] = IF ver = 3 /\ d = "up" THEN 1 ELSE 0
      BY DEF UdpInit, First, Zero
    <2>2. /\ HALF \in Nat \ {0} /\ MAX_DELAY \in Nat /\ RATE \in Nat \ {0}
          /\ RX_CNT_RESET[d] \in Nat \ {0}
      BY UdpAssumption
    <2>3. After(-1) = 0
      <3>1. RANGE \in Nat \ {0} /\ RANGE = RANGE BY <2>2, SMT DEF RANGE
      <3>2. 0 % RANGE = 0 BY <3>1, SMT
      <3> QED BY <3>2, AfterValue, -1 + 1 = 0 DEF UdpInit
    <2>4. Backlog(d) \in Nat BY <2>1, <2>2, SMT DEF Backlog
    <2> QED BY <2>1, <2>2, <2>3, <2>4, SMT DEF WindowInv
  <1> QED BY <1>1, <1>2, <1>3, <1>4 DEF UdpInv, UdpInit

\* A direction in which nothing happens.
LEMMA SameDirection ==
    ASSUME NEW d \in Directions, WindowInv(d), ver' = ver, tx'[d] = tx[d],
           next'[d] = next[d], cnt'[d] = cnt[d], burst'[d] = burst[d], top'[d] = top[d]
    PROVE  WindowInv(d)'
  BY DEF WindowInv, Backlog, After, SeqNo

\* A datagram is sent.
LEMMA CountKeeps ==
    ASSUME NEW d \in Directions, WindowInv(d), ver' = ver, burst[d] < RATE,
           tx'[d] = tx[d] + 1, burst'[d] = burst[d] + 1,
           next'[d] = next[d], cnt'[d] = cnt[d], top'[d] = top[d]
    PROVE  WindowInv(d)'
  <1>1. next'[d] = After(top[d])' BY DEF WindowInv, After, SeqNo
  <1>2. RATE \in Nat \ {0} /\ MAX_DELAY \in Nat /\ RX_CNT_RESET[d] \in Nat \ {0}
    BY UdpAssumption
  <1>3. RATE * (RX_CNT_RESET[d] - cnt[d]) \in Nat BY <1>2, SentInTime DEF WindowInv
  <1> QED BY <1>1, <1>2, <1>3, SMT DEF WindowInv, Backlog

\* A datagram is handled or dropped: one that is handled is no later than MAX_DELAY.
LEMMA ReceiveKeeps ==
    ASSUME NEW d \in Directions, TypeInv, WindowInv(d), ver' = ver, tx'[d] = tx[d],
           burst'[d] = burst[d],
           NEW k \in Int, k >= 0, k < tx[d], ver = 2 => k >= tx[d] - MAX_DELAY,
           NEW expected, Receive(d, k, expected),
           expected = next[d] \/ InSequence(k, expected)
    PROVE  WindowInv(d)'
  <1>1. CASE InSequence(k, expected)
    <2>1. next'[d] = After(k) /\ cnt'[d] = RX_CNT_RESET[d] /\ top'[d] = k
      BY <1>1 DEF Receive, TypeInv
    <2>2. next'[d] = After(top[d])' BY <2>1 DEF After, SeqNo
    <2>3. RATE \in Nat \ {0} /\ MAX_DELAY \in Nat /\ RX_CNT_RESET[d] \in Nat \ {0}
      BY UdpAssumption
    <2>4. RATE * (RX_CNT_RESET[d] - cnt'[d]) = 0 BY <2>1, <2>3, SMT
    <2> QED BY <2>1, <2>2, <2>3, <2>4, SMT DEF WindowInv, Backlog
  <1>2. CASE ~InSequence(k, expected)
    <2>1. next'[d] = next[d] /\ cnt' = cnt /\ top' = top BY <1>2 DEF Receive, TypeInv
    <2> QED BY <2>1, SameDirection
  <1> QED BY <1>1, <1>2

\* A second passes.
LEMMA TickKeeps ==
    ASSUME NEW d \in Directions, WindowInv(d), ver' = ver, cnt[d] # 1,
           tx'[d] = tx[d], next'[d] = next[d], top'[d] = top[d],
           cnt'[d] = cnt[d] - 1, burst'[d] = 0
    PROVE  WindowInv(d)'
  <1>1. next'[d] = After(top[d])' BY DEF WindowInv, After, SeqNo
  <1>2. RATE \in Nat \ {0} /\ MAX_DELAY \in Nat /\ RX_CNT_RESET[d] \in Nat \ {0}
    BY UdpAssumption
  <1>3. /\ RATE * (RX_CNT_RESET[d] - cnt[d]) \in Nat
        /\ RATE * (RX_CNT_RESET[d] - cnt'[d])
             = RATE * (RX_CNT_RESET[d] - cnt[d]) + RATE
    BY <1>2, SentInTime DEF WindowInv
  <1> QED BY <1>1, <1>2, <1>3, SMT DEF WindowInv, Backlog

\* The reflector learns the source of the node, and answers.
LEMMA SourceKeeps ==
    ASSUME UdpInv, SetRemoteUdpSource
    PROVE  /\ tx'["up"] = tx["up"] /\ burst'["up"] = burst["up"]
           /\ \/ tx'["down"] = tx["down"] /\ burst'["down"] = burst["down"]
              \/ /\ tx'["down"] = tx["down"] + 1 /\ burst'["down"] = burst["down"] + 1
                 /\ burst["down"] < RATE
           /\ tx' \in [Directions -> Int] /\ burst' \in [Directions -> Int] /\ known'
  <1>1. CASE known
    BY <1>1 DEF SetRemoteUdpSource, UdpInv, TypeInv
  <1>2. CASE ~known
    <2>1. Count("down") /\ known' BY <1>2 DEF SetRemoteUdpSource
    <2>2. burst["down"] = 0 BY <1>2 DEF UdpInv
    <2> QED BY <2>1, <2>2, UdpAssumption, SMT DEF Count, UdpInv, TypeInv, Directions
  <1> QED BY <1>1, <1>2

\* What a receiver does to its own direction, and to no other.
LEMMA ReceiveTypes ==
    ASSUME UdpInv, NEW d \in Directions, NEW k \in Int, k >= 0, NEW expected \in Int,
           Receive(d, k, expected)
    PROVE  /\ next' \in [Directions -> Int] /\ cnt' \in [Directions -> Int]
           /\ top' \in [Directions -> Int]
           /\ \A e \in Directions \ {d} :
                next'[e] = next[e] /\ cnt'[e] = cnt[e] /\ top'[e] = top[e]
  <1>1. After(k) \in Int
    <2>1. RANGE \in Nat \ {0} BY UdpAssumption, SMT DEF RANGE
    <2>2. (k + 1) % RANGE \in Int BY <2>1, SMT
    <2> QED BY <2>2, AfterValue, SMT
  <1>2. RX_CNT_RESET[d] \in Int BY UdpAssumption
  <1>3. CASE InSequence(k, expected)
    BY <1>1, <1>2, <1>3 DEF Receive, UdpInv, TypeInv
  <1>4. CASE ~InSequence(k, expected)
    BY <1>4 DEF Receive, UdpInv, TypeInv
  <1> QED BY <1>3, <1>4

\* The reflector handles a datagram, with the number it expects or after a registration.
LEMMA ReflectorKeeps ==
    ASSUME UdpInv, SetRemoteUdpSource, NEW k \in Int, k >= 0, k < tx["up"],
           ver = 2 => k >= tx["up"] - MAX_DELAY,
           NEW expected \in Int, Receive("up", k, expected),
           expected = next["up"] \/ InSequence(k, expected),
           UNCHANGED <<ver, loggedIn, registers>>
    PROVE  UdpInv'
  <1> USE DEF Directions
  <1>1. /\ tx'["up"] = tx["up"] /\ burst'["up"] = burst["up"]
        /\ \/ tx'["down"] = tx["down"] /\ burst'["down"] = burst["down"]
           \/ /\ tx'["down"] = tx["down"] + 1 /\ burst'["down"] = burst["down"] + 1
              /\ burst["down"] < RATE
        /\ tx' \in [Directions -> Int] /\ burst' \in [Directions -> Int] /\ known'
    BY SourceKeeps
  <1>2. /\ next' \in [Directions -> Int] /\ cnt' \in [Directions -> Int]
        /\ top' \in [Directions -> Int]
        /\ next'["down"] = next["down"] /\ cnt'["down"] = cnt["down"]
        /\ top'["down"] = top["down"]
    BY ReceiveTypes
  <1>3. TypeInv' BY <1>1, <1>2 DEF UdpInv, TypeInv, SetRemoteUdpSource
  <1>4. WindowInv("up")' BY <1>1, ReceiveKeeps DEF UdpInv
  <1>5. WindowInv("down")' BY <1>1, <1>2, SameDirection, CountKeeps DEF UdpInv
  <1> QED BY <1>1, <1>3, <1>4, <1>5 DEF UdpInv

\* The node handles a datagram.
LEMMA NodeKeeps ==
    ASSUME UdpInv, NEW k \in InFlight("down"), NodeReceives(k)
    PROVE  UdpInv'
  <1> USE DEF Directions
  <1>1. /\ k \in Int /\ k >= 0 /\ k < tx["down"] /\ k >= tx["down"] - MAX_DELAY
        /\ next["down"] \in Int
    BY UdpAssumption, SMT DEF InFlight, First, UdpInv, TypeInv
  <1>2. Receive("down", k, next["down"]) /\ UNCHANGED <<ver, known, registers, tx, burst>>
    BY DEF NodeReceives
  <1>3. /\ next' \in [Directions -> Int] /\ cnt' \in [Directions -> Int]
        /\ top' \in [Directions -> Int]
        /\ next'["up"] = next["up"] /\ cnt'["up"] = cnt["up"] /\ top'["up"] = top["up"]
    BY <1>1, <1>2, ReceiveTypes
  <1>4. loggedIn' \in BOOLEAN BY DEF NodeReceives
  <1>5. TypeInv' BY <1>2, <1>3, <1>4 DEF UdpInv, TypeInv
  <1>6. WindowInv("down")' BY <1>1, <1>2, ReceiveKeeps DEF UdpInv
  <1>7. WindowInv("up")' BY <1>2, <1>3, SameDirection DEF UdpInv
  <1> QED BY <1>2, <1>5, <1>6, <1>7 DEF UdpInv

\* A datagram is sent, within the rate.
LEMMA SendKeeps ==
    ASSUME UdpInv, NEW d \in Directions, SendUdpMsg(d)
    PROVE  UdpInv'
  <1>1. /\ Count(d) /\ burst[d] < RATE /\ (d = "down" => known)
        /\ UNCHANGED <<ver, loggedIn, known, registers, next, cnt, top>>
    BY DEF SendUdpMsg
  <1>2. /\ tx'[d] = tx[d] + 1 /\ burst'[d] = burst[d] + 1
        /\ tx' \in [Directions -> Int] /\ burst' \in [Directions -> Int]
        /\ \A e \in Directions \ {d} : tx'[e] = tx[e] /\ burst'[e] = burst[e]
    BY <1>1, SMT DEF Count, UdpInv, TypeInv
  <1>3. TypeInv' BY <1>1, <1>2 DEF UdpInv, TypeInv
  <1>4. ASSUME NEW e \in Directions PROVE WindowInv(e)'
    BY <1>1, <1>2, SameDirection, CountKeeps DEF UdpInv
  <1>5. ver = 3 => tx'["up"] >= 1
    BY <1>2, SMT DEF UdpInv, TypeInv, Directions
  <1>6. ~known => burst'["down"] = 0 BY <1>1, <1>2 DEF UdpInv, Directions
  <1> QED BY <1>1, <1>3, <1>4, <1>5, <1>6 DEF UdpInv

\* The next connection begins like the first.
LEMMA NewConnectionKeeps == NewConnection => UdpInv'
  <1>1. UdpInit => UdpInv BY UdpInitInv
  <1>2. UdpInit' => UdpInv' BY <1>1, PTL
  <1> QED BY <1>2 DEF NewConnection, UdpInit, Zero, First

\* A second of a receiver, which may end the connection.
LEMMA SecondKeeps ==
    ASSUME UdpInv, NEW d \in Directions, Tick(d)
    PROVE  UdpInv'
  <1>1. CASE cnt[d] = 1 BY <1>1, NewConnectionKeeps DEF Tick
  <1>2. CASE cnt[d] # 1
    <2>1. /\ cnt'[d] = cnt[d] - 1 /\ burst'[d] = 0
          /\ cnt' \in [Directions -> Int] /\ burst' \in [Directions -> Int]
          /\ \A e \in Directions \ {d} : cnt'[e] = cnt[e] /\ burst'[e] = burst[e]
          /\ UNCHANGED <<ver, loggedIn, known, registers, tx, next, top>>
      BY <1>2, SMT DEF Tick, UdpInv, TypeInv
    <2>2. TypeInv' BY <2>1 DEF UdpInv, TypeInv
    <2>3. ASSUME NEW e \in Directions PROVE WindowInv(e)'
      BY <1>2, <2>1, <2>3, SameDirection, TickKeeps DEF UdpInv
    <2>4. ~known => burst'["down"] = 0 BY <2>1 DEF UdpInv, Directions
    <2> QED BY <2>1, <2>2, <2>3, <2>4 DEF UdpInv
  <1> QED BY <1>1, <1>2

\* Every step keeps the invariant.
LEMMA UdpNextInv == UdpInv /\ [UdpNext]_udpVars => UdpInv'
  <1> SUFFICES ASSUME UdpInv, [UdpNext]_udpVars PROVE UdpInv' OBVIOUS
  <1> USE DEF Directions
  <1>1. CASE SendUdpRegisterMsg
    <2>1. /\ UNCHANGED <<ver, loggedIn, known, tx, next, cnt, burst, top>>
          /\ registers' = TRUE /\ ver = 3
      BY <1>1 DEF SendUdpRegisterMsg
    <2>2. TypeInv' BY <2>1 DEF UdpInv, TypeInv
    <2>3. ASSUME NEW d \in Directions PROVE WindowInv(d)'
      BY <2>1, <2>3, SameDirection DEF UdpInv
    <2> QED BY <2>1, <2>2, <2>3 DEF UdpInv
  <1>2. CASE ReflectorRegisters
    <2>1. /\ SetRemoteUdpSource /\ Receive("up", 0, 0) /\ ver = 3
          /\ UNCHANGED <<ver, loggedIn, registers>>
      BY <1>2 DEF ReflectorRegisters, UdpInv
    <2>2. 0 < tx["up"] /\ InSequence(0, 0)
      BY <2>1, SMT DEF UdpInv, TypeInv, InSequence
    <2> QED BY <2>1, <2>2, ReflectorKeeps
  <1>3. ASSUME NEW k \in InFlight("up"), ReflectorReceives(k) PROVE UdpInv'
    <2>1. /\ k \in Int /\ k >= 0 /\ k < tx["up"] /\ k >= tx["up"] - MAX_DELAY
          /\ next["up"] \in Int
      BY UdpAssumption, SMT DEF InFlight, First, UdpInv, TypeInv
    <2> QED BY <1>3, <2>1, ReflectorKeeps DEF ReflectorReceives
  <1>4. ASSUME NEW k \in InFlight("down"), NodeReceives(k) PROVE UdpInv'
    BY <1>4, NodeKeeps
  <1>5. ASSUME NEW d \in Directions, SendUdpMsg(d) \/ Tick(d) PROVE UdpInv'
    BY <1>5, SendKeeps, SecondKeeps
  <1>6. CASE UNCHANGED udpVars
    <2>1. ASSUME NEW d \in Directions PROVE WindowInv(d)'
      BY <1>6, <2>1, SameDirection DEF UdpInv, udpVars
    <2> QED BY <1>6, <2>1 DEF UdpInv, TypeInv, udpVars
  <1> QED BY <1>1, <1>2, <1>3, <1>4, <1>5, <1>6 DEF UdpNext

(***************************************************************************)
(* The receive windows of both versions are exact in every reachable state *)
(* (Reflector::udpDatagramReceived, ReflectorLogic::udpDatagramReceived).  *)
(***************************************************************************)
THEOREM WindowAlwaysExact == UdpSpec => []WindowExact
  BY UdpInitInv, UdpNextInv, InvImpliesWindow, PTL DEF UdpSpec
=============================================================================
