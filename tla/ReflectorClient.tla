-------------------------- MODULE ReflectorClient ---------------------------
(***************************************************************************)
(* The life of the client objects of the reflector, class ReflectorClient  *)
(* of svxlink/reflector/ReflectorClient.cpp: the handshake that leads from *)
(* an accepted TCP connection to a logged in node, the heartbeats that     *)
(* supervise it, the registration of its UDP source, and the ways it ends. *)
(*                                                                         *)
(* The handlers run one at a time in the event loop of the server.  What   *)
(* they do to one client object is an operator on its record; the static   *)
(* maps from callsigns and UDP sources to client objects are variables.    *)
(* Talk groups, audio and the blocking of talkers are in Reflector.tla.    *)
(***************************************************************************)
EXTENDS Integers, FiniteSets, Functions

CONSTANTS
    Cons,           \* TCP connections; each has a client object while it lives
    Callsigns,      \* the valid callsigns
    Srcs,           \* UDP sources, pairs of address and port
    SrcsOf,         \* SrcsOf[x]: the sources the node behind x may send from
    NoCon,          \* no client object
    NoCallsign,     \* the empty callsign
    NoSrc,          \* UDP port 0, no source known
    HEARTBEAT_TX_CNT_RESET,
    HEARTBEAT_RX_CNT_RESET,
    UDP_HEARTBEAT_TX_CNT_RESET,
    UDP_HEARTBEAT_RX_CNT_RESET

ASSUME ConstantAssumption ==
    /\ NoCon \notin Cons /\ NoCallsign \notin Callsigns /\ NoSrc \notin Srcs
    /\ SrcsOf \in [Cons -> SUBSET Srcs]
    /\ HEARTBEAT_TX_CNT_RESET \in Nat \ {0}
    /\ HEARTBEAT_RX_CNT_RESET \in Nat \ {0}
    /\ UDP_HEARTBEAT_TX_CNT_RESET \in Nat \ {0}
    /\ UDP_HEARTBEAT_RX_CNT_RESET \in Nat \ {0}

VARIABLES
    client,         \* client[x]: the client object of connection x, or NoCon
    callsignMap,    \* client_callsign_map: callsign -> connection
    srcMap          \* client_src_map: UDP source -> connection, NoCon for an
                    \* entry whose object is deleted

vars == <<client, callsignMap, srcMap>>

-----------------------------------------------------------------------------
(***************************************************************************)
(* Client objects.  An unsigned counter that is decremented below zero     *)
(* wraps around and will not come back to zero: that is Wrapped.           *)
(***************************************************************************)
Wrapped == -1

ConStates == {"EXPECT_PROTO_VER", "EXPECT_START_ENCRYPTION",
              "EXPECT_SSL_CON_READY", "EXPECT_CSR", "EXPECT_AUTH_RESPONSE",
              "CONNECTED", "EXPECT_DISCONNECT"}

\* What the client says in MsgProtoVer: older than 0.6, 0.6 to 2.x, 3.0,
\* or newer than the server.
ProtoVers == {"too_old", "v2", "v3", "too_new"}

Objects == [state     : ConStates,
            callsign  : Callsigns \cup {NoCallsign},
            ver       : ProtoVers,
            tls       : {"off", "pending", "no_cert", "cert", "renewed"},
            beating   : BOOLEAN,    \* m_heartbeat_timer is enabled
            closing   : BOOLEAN,    \* m_disc_timer is enabled
            txCnt     : Int,
            rxCnt     : Int,
            udpTxCnt  : Int,
            udpRxCnt  : Int,
            port      : Srcs \cup {NoSrc},  \* source m_remote_udp_port is taken from
            src       : Srcs \cup {NoSrc}]  \* m_client_src

\* The null pointer is not an object.
ASSUME ObjectAssumption == NoCon \notin Objects

NewObject == [state |-> "EXPECT_PROTO_VER", callsign |-> NoCallsign,
              ver |-> "too_old", tls |-> "off", beating |-> TRUE, closing |-> FALSE,
              txCnt |-> HEARTBEAT_TX_CNT_RESET,
              rxCnt |-> HEARTBEAT_RX_CNT_RESET,
              udpTxCnt |-> UDP_HEARTBEAT_TX_CNT_RESET,
              udpRxCnt |-> UDP_HEARTBEAT_RX_CNT_RESET,
              port |-> NoSrc, src |-> NoSrc]

Live == {x \in Cons : client[x] # NoCon}

(***************************************************************************)
(* sendError: tell the node, then give it ten seconds to go away.          *)
(***************************************************************************)
\* Mutants: sendError forgets the state; it starts no timer.
SendErrorKeepsState(o) == [o EXCEPT !.beating = FALSE, !.closing = TRUE, !.port = NoSrc]
SendErrorWithoutTimer(o) == [o EXCEPT !.state = "EXPECT_DISCONNECT",
                                      !.beating = FALSE, !.port = NoSrc]

SendError(o) == [o EXCEPT !.state = "EXPECT_DISCONNECT",
                          !.beating = FALSE, !.closing = TRUE, !.port = NoSrc]

SendMsg(o) == [o EXCEPT !.txCnt = HEARTBEAT_TX_CNT_RESET]

SendUdpMsg(o) ==
    IF o.port = NoSrc THEN o
    ELSE [o EXCEPT !.udpTxCnt = UDP_HEARTBEAT_TX_CNT_RESET]

(***************************************************************************)
(* The top of onFrameReceived: who is listened to, and the receive counter *)
(* that every frame of a client that is listened to resets.                *)
(***************************************************************************)
Listens(x) == x \in Live /\ client[x].state # "EXPECT_DISCONNECT"

FrameIn(x) == [client[x] EXCEPT !.rxCnt = HEARTBEAT_RX_CNT_RESET]

Becomes(x, o) == /\ client' = [client EXCEPT ![x] = o]
                 /\ UNCHANGED <<callsignMap, srcMap>>

(***************************************************************************)
(* disconnect() and the destructor it leads to: the object leaves the map  *)
(* of callsigns, and the map of sources under its last source.  Its        *)
(* entries under earlier sources stay, and lead to a deleted object.       *)
(***************************************************************************)
WithoutObject(x, left) ==
    [s \in left |-> IF srcMap[s] = x THEN NoCon ELSE srcMap[s]]

\* Mutants: the callsign is forgotten; the source is forgotten.
GoneKeepsCallsign(x) ==
    /\ client' = [client EXCEPT ![x] = NoCon]
    /\ srcMap' = WithoutObject(x, DOMAIN srcMap \ {client[x].src})
    /\ UNCHANGED callsignMap
GoneKeepsSource(x) ==
    /\ client' = [client EXCEPT ![x] = NoCon]
    /\ callsignMap' = Restrict(callsignMap, DOMAIN callsignMap \ {client[x].callsign})
    /\ srcMap' = WithoutObject(x, DOMAIN srcMap)

Gone(x) ==
    /\ client' = [client EXCEPT ![x] = NoCon]
    /\ callsignMap' = Restrict(callsignMap, DOMAIN callsignMap \ {client[x].callsign})
    /\ srcMap' = WithoutObject(x, DOMAIN srcMap \ {client[x].src})

(***************************************************************************)
(* connectionAuthenticated: the node list of the server decides whether    *)
(* the callsign is free; it holds the callsigns of all client objects.     *)
(***************************************************************************)
\* Mutant: only the clients that are still connected count.
NodeListConnected ==
    {client[y].callsign : y \in {z \in Live : client[z].state = "CONNECTED"}}

NodeList == {client[y].callsign : y \in Live} \ {NoCallsign}

ConnectionAuthenticated(x, o, cs) ==
    IF cs \in NodeList
      THEN Becomes(x, SendError(o))
      ELSE /\ client' = [client EXCEPT ![x] =
                           [SendMsg(o) EXCEPT !.callsign = cs, !.state = "CONNECTED"]]
           /\ callsignMap' = [c \in DOMAIN callsignMap \cup {cs} |->
                                IF c = cs THEN x ELSE callsignMap[c]]
           /\ UNCHANGED srcMap

-----------------------------------------------------------------------------
(***************************************************************************)
(* The handshake                                                           *)
(***************************************************************************)
Init == /\ client = [x \in Cons |-> NoCon]
        /\ callsignMap = [cs \in {} |-> NoCon]
        /\ srcMap = [s \in {} |-> NoCon]

ClientConnected(x) == x \notin Live /\ Becomes(x, NewObject)

(***************************************************************************)
(* handleMsgProtoVer: a client that is too new is asked to try again.      *)
(***************************************************************************)
HandleMsgProtoVer(x, v) ==
    LET o == [FrameIn(x) EXCEPT !.ver = v]
    IN /\ Listens(x)
       /\ Becomes(x,
            IF client[x].state # "EXPECT_PROTO_VER" THEN SendError(FrameIn(x))
            ELSE CASE v = "too_new" -> SendMsg(o)
                   [] v = "too_old" -> SendError(o)
                   [] v = "v3" ->
                        [SendMsg(o) EXCEPT !.state = "EXPECT_START_ENCRYPTION"]
                   [] v = "v2" ->
                        [SendMsg(o) EXCEPT !.state = "EXPECT_AUTH_RESPONSE"])

HandleMsgCABundleRequest(x) ==
    /\ Listens(x)
    /\ \/ /\ client[x].state = "EXPECT_START_ENCRYPTION"
          /\ Becomes(x, SendMsg(FrameIn(x)))
       \/ /\ client[x].state # "EXPECT_START_ENCRYPTION"
          /\ Gone(x)

HandleMsgStartEncryptionRequest(x) ==
    /\ Listens(x)
    /\ \/ /\ client[x].state = "EXPECT_START_ENCRYPTION"
          /\ Becomes(x, [SendMsg(FrameIn(x)) EXCEPT
                           !.state = "EXPECT_SSL_CON_READY", !.tls = "pending"])
       \/ /\ client[x].state # "EXPECT_START_ENCRYPTION"
          /\ Gone(x)

(***************************************************************************)
(* onSslConnectionReady: the TLS handshake is completed, with the callsign *)
(* of the certificate of the client, with NoCallsign for a name that is    *)
(* not accepted, or without a certificate.                                 *)
(***************************************************************************)
OnSslConnectionReady(x, hasCert, cs) ==
    /\ x \in Live /\ client[x].tls = "pending"
    /\ IF client[x].state # "EXPECT_SSL_CON_READY" THEN Gone(x)
       ELSE IF ~hasCert
         THEN Becomes(x, [SendMsg(client[x]) EXCEPT !.state = "EXPECT_CSR",
                                                    !.tls = "no_cert"])
       ELSE IF cs = NoCallsign THEN Gone(x)
       ELSE ConnectionAuthenticated(x, [client[x] EXCEPT !.tls = "cert"], cs)

(***************************************************************************)
(* handleMsgAuthResponse: NoCallsign stands for a response that is         *)
(* malformed, has an invalid callsign or the wrong key.                    *)
(***************************************************************************)
HandleMsgAuthResponse(x, cs) ==
    /\ Listens(x)
    /\ IF client[x].state # "EXPECT_AUTH_RESPONSE" \/ cs = NoCallsign
         THEN Becomes(x, SendError(FrameIn(x)))
         ELSE ConnectionAuthenticated(x, FrameIn(x), cs)

(***************************************************************************)
(* handleMsgClientCsr: a signed certificate is sent when there is one, and *)
(* the node is then expected to reconnect; no timer waits for that.        *)
(***************************************************************************)
HandleMsgClientCsr(x, answer) ==
    LET o == FrameIn(x)
    IN /\ Listens(x)
       /\ Becomes(x,
            IF o.state \notin {"CONNECTED", "EXPECT_CSR"} \/ answer = "refused"
              THEN SendError(o)
            ELSE IF answer = "cert"
              THEN [SendMsg(o) EXCEPT !.state = "EXPECT_DISCONNECT"]
            ELSE IF o.state = "EXPECT_CSR"
              THEN [SendMsg(o) EXCEPT !.state = "EXPECT_AUTH_RESPONSE"]
            ELSE o)

(***************************************************************************)
(* Frames with nothing to handle here: heartbeats, and in a logged in      *)
(* client the user messages.  User messages of others are ignored.         *)
(***************************************************************************)
OtherFrame(x) == Listens(x) /\ Becomes(x, FrameIn(x))

\* A header that cannot be unpacked is found before the counter is reset.
MalformedFrame(x) ==
    Listens(x) /\ \E o \in {client[x], FrameIn(x)} : Becomes(x, SendError(o))

HandleMsgError(x) == Listens(x) /\ Gone(x)

(***************************************************************************)
(* renewClientCertificate: the timer that onSslConnectionReady started for *)
(* the certificate of the client; when a new certificate is at hand it is  *)
(* sent, unless it does not fit a request of the node that is pending, and *)
(* the client is expected to reconnect.                                    *)
(***************************************************************************)
RenewClientCertificate(x) ==
    /\ x \in Live /\ client[x].tls = "cert"
    /\ \E sent \in BOOLEAN :
         LET o == IF sent THEN SendMsg(client[x]) ELSE client[x]
         IN Becomes(x, [o EXCEPT !.state = "EXPECT_DISCONNECT",
                                 !.tls = "renewed"])

-----------------------------------------------------------------------------
(***************************************************************************)
(* UDP.  The server sees the source of a datagram, and finds the client    *)
(* object by the client id in it (protocol version 2, and the registration *)
(* that starts the UDP session of version 3), or by its source.  A node    *)
(* knows its client id when it is logged in.  No two sources share a port. *)
(***************************************************************************)
KnowsId(x, v) == /\ x \in Live /\ client[x].ver = v
                 /\ client[x].callsign # NoCallsign

(***************************************************************************)
(* setRemoteUdpSource, and the heartbeat that follows it.                  *)
(***************************************************************************)
SetRemoteUdpSource(o, s) == SendUdpMsg([o EXCEPT !.port = s])

SrcEntered(x, s) ==
    [t \in DOMAIN srcMap \cup {s} |-> IF t = s THEN x ELSE srcMap[t]]

(***************************************************************************)
(* udpDatagramReceived, from the test of remoteUdpPort on: the client      *)
(* learns its source, a datagram from another port is dropped, and one     *)
(* that passes the check of its sequence number resets the UDP counter.    *)
(***************************************************************************)
DatagramFrom(x, s, inSequence) ==
    LET o == client[x]
        learns == o.port = NoSrc
        known == IF learns THEN SetRemoteUdpSource(o, s) ELSE o
        heard == IF known.port = s /\ inSequence
                   THEN [known EXCEPT !.udpRxCnt = UDP_HEARTBEAT_RX_CNT_RESET]
                   ELSE known
    IN IF learns /\ o.ver = "v3"
         THEN /\ client' = [client EXCEPT ![x] = [heard EXCEPT !.src = s]]
              /\ srcMap' = SrcEntered(x, s)
              /\ UNCHANGED callsignMap
         ELSE Becomes(x, heard)

V2Datagram(x, s, inSequence) == KnowsId(x, "v2") /\ DatagramFrom(x, s, inSequence)

V3Registration(x, s) == KnowsId(x, "v3") /\ DatagramFrom(x, s, TRUE)

V3Datagram(x, s, inSequence) ==
    /\ s \in DOMAIN srcMap /\ srcMap[s] = x
    /\ DatagramFrom(x, s, inSequence)

\* The lookup finds an entry of a deleted object, and the code goes on with it
\* (undefined behaviour); of the outcomes in which the server still runs, the
\* datagram is not decrypted with what is read as the key, and dropped.
DatagramForDeleted(s) ==
    /\ s \in DOMAIN srcMap /\ srcMap[s] = NoCon
    /\ UNCHANGED vars

(***************************************************************************)
(* Other parts of the reflector send to the client: sendMsg, sendUdpMsg.   *)
(***************************************************************************)
MsgSent(x) == x \in Live /\ client[x].state = "CONNECTED"
              /\ Becomes(x, SendMsg(client[x]))

UdpMsgSent(x) == x \in Live /\ Becomes(x, SendUdpMsg(client[x]))

-----------------------------------------------------------------------------
(***************************************************************************)
(* handleHeartbeat: every second, while the heartbeat timer is enabled.    *)
(***************************************************************************)
Dec(n) == IF n <= 0 THEN Wrapped ELSE n - 1

\* Mutant: the UDP counter is not looked at.
TcpTimedOut(o) == o.rxCnt = 0

HeartbeatTimedOut(o) == o.rxCnt = 0 \/ o.udpRxCnt = 0

Ticked(o) ==
    LET t == [o EXCEPT !.txCnt = Dec(@), !.udpTxCnt = Dec(@),
                       !.rxCnt = Dec(@), !.udpRxCnt = Dec(@)]
        tcp == IF t.txCnt = 0 THEN SendMsg(t) ELSE t
        udp == IF t.udpTxCnt = 0 THEN SendUdpMsg(tcp) ELSE tcp
    IN IF HeartbeatTimedOut(t) THEN SendError(SendMsg(udp)) ELSE udp

HandleHeartbeat(x) ==
    /\ x \in Live /\ client[x].beating
    /\ Becomes(x, Ticked(client[x]))

OnDiscTimeout(x) == x \in Live /\ client[x].closing /\ Gone(x)

(***************************************************************************)
(* The connection is closed by the node or breaks.                         *)
(***************************************************************************)
RemoteClose(x) == x \in Live /\ Gone(x)

-----------------------------------------------------------------------------
TcpFrame(x) ==
    \/ \E v \in ProtoVers : HandleMsgProtoVer(x, v)
    \/ HandleMsgCABundleRequest(x)
    \/ HandleMsgStartEncryptionRequest(x)
    \/ \E cs \in Callsigns \cup {NoCallsign} : HandleMsgAuthResponse(x, cs)
    \/ \E answer \in {"refused", "cert", "none"} : HandleMsgClientCsr(x, answer)
    \/ OtherFrame(x)
    \/ MalformedFrame(x)
    \/ HandleMsgError(x)

UdpDatagram(x) ==
    \/ \E s \in SrcsOf[x] : \/ \E q \in BOOLEAN : V2Datagram(x, s, q)
                            \/ V3Registration(x, s)
    \/ \E s \in Srcs, q \in BOOLEAN : V3Datagram(x, s, q)

Next ==
    \/ \E x \in Cons :
         \/ ClientConnected(x)
         \/ TcpFrame(x)
         \/ \E cs \in Callsigns \cup {NoCallsign}, hasCert \in BOOLEAN :
              OnSslConnectionReady(x, hasCert, cs)
         \/ RenewClientCertificate(x)
         \/ UdpDatagram(x)
         \/ MsgSent(x)
         \/ UdpMsgSent(x)
         \/ HandleHeartbeat(x)
         \/ OnDiscTimeout(x)
         \/ RemoteClose(x)
    \/ \E s \in Srcs : DatagramForDeleted(s)

(***************************************************************************)
(* The event loop serves the timers.  Nothing is assumed of the nodes.     *)
(***************************************************************************)
Fairness == \A x \in Cons :
              WF_vars(HandleHeartbeat(x)) /\ WF_vars(OnDiscTimeout(x))

Spec == Init /\ [][Next]_vars

FairSpec == Spec /\ Fairness

-----------------------------------------------------------------------------
(***************************************************************************)
(* Properties                                                              *)
(***************************************************************************)

(***************************************************************************)
(* Every variable has its type.                                            *)
(***************************************************************************)
TypeOK ==
    /\ client \in [Cons -> Objects \cup {NoCon}]
    /\ DOMAIN callsignMap \subseteq Callsigns
    /\ callsignMap \in [DOMAIN callsignMap -> Cons]
    /\ DOMAIN srcMap \subseteq Srcs
    /\ srcMap \in [DOMAIN srcMap -> Cons \cup {NoCon}]

(***************************************************************************)
(* The map of callsigns holds exactly the client objects that have one,    *)
(* under their own callsign: connectionAuthenticated tests the node list   *)
(* and asserts the map, and the two never disagree, also while a client is *)
(* given up but not yet gone.                                              *)
(***************************************************************************)
CallsignsExact ==
    /\ DOMAIN callsignMap = NodeList
    /\ \A x \in Live : client[x].callsign # NoCallsign
                         => callsignMap[client[x].callsign] = x

(***************************************************************************)
(* When the disconnect timer runs the client is expected to disconnect:    *)
(* the assertion of onDiscTimeout holds whatever else arrived meanwhile.   *)
(***************************************************************************)
DiscTimerExpected ==
    \A x \in Live : client[x].closing => client[x].state = "EXPECT_DISCONNECT"

(***************************************************************************)
(* While the client is supervised the counters that make the server send   *)
(* a heartbeat have not run past zero, the UDP one in spite of the seconds *)
(* it counted before there was anyone to send to (sendUdpMsg returns early *)
(* and leaves it; setRemoteUdpSource is followed by a heartbeat).          *)
(***************************************************************************)
KeepaliveArmed ==
    \A x \in Live :
      client[x].beating =>
        /\ client[x].txCnt \in 1 .. HEARTBEAT_TX_CNT_RESET
        /\ client[x].port # NoSrc =>
             client[x].udpTxCnt \in 1 .. UDP_HEARTBEAT_TX_CNT_RESET

(***************************************************************************)
(* The source a client has registered leads to its own client object.      *)
(***************************************************************************)
SrcFindsClient ==
    \A x \in Live : client[x].src # NoSrc =>
      client[x].src \in DOMAIN srcMap /\ srcMap[client[x].src] = x

(***************************************************************************)
(* A lookup by source finds no deleted object, unless the node has changed *)
(* its source: the destructor erases one entry, and a client that is given *)
(* up, which forgets its port, can enter another before it is deleted      *)
(* (setRemoteUdpSource).  Where the node has one source, however often it  *)
(* registers and reconnects, none of its entries is left.                  *)
(***************************************************************************)
DeletedLeaveNoSource ==
    \A s \in DOMAIN srcMap :
      srcMap[s] = NoCon => \A y \in Cons : SrcsOf[y] # {s}

(***************************************************************************)
(* Both maps lead to the right client objects: no lookup by callsign or by *)
(* source finds another client, or one that is deleted unless its node has *)
(* changed its source, whatever order reconnections, errors and disconnect *)
(* timers come in.                                                         *)
(***************************************************************************)
MapsSound == TypeOK /\ CallsignsExact /\ SrcFindsClient /\ DeletedLeaveNoSource

(***************************************************************************)
(* The timers of a client object agree with its state (DiscTimerExpected,  *)
(* KeepaliveArmed).                                                        *)
(***************************************************************************)
TimersSound == DiscTimerExpected /\ KeepaliveArmed

(***************************************************************************)
(* The client objects implement the abstract login.                        *)
(***************************************************************************)
Phase == [x \in Cons |->
            IF x \notin Live THEN "none"
            ELSE CASE client[x].state = "CONNECTED" -> "connected"
                   [] client[x].state = "EXPECT_DISCONNECT" -> "closing"
                   [] OTHER -> "handshake"]
Name == [x \in Cons |-> IF x \in Live THEN client[x].callsign ELSE NoCallsign]

NL == INSTANCE NodeLogin WITH phase <- Phase, name <- Name

NodeLoginSpec == NL!Spec

(***************************************************************************)
(* A client that is expected to disconnect and does not is disconnected,   *)
(* whichever way it got there (sendError, a certificate sent to it).       *)
(***************************************************************************)
GivenUpGoes ==
    \A x \in Cons : (x \in Live /\ client[x].state = "EXPECT_DISCONNECT")
                      ~> (x \notin Live)

(***************************************************************************)
(* A node that falls silent, on TCP or on UDP, does not stay: again and    *)
(* again it is gone, unless frames and datagrams keep coming.              *)
(***************************************************************************)
SilentNodeGoes ==
    \A x \in Cons : \/ []<>(x \notin Live)
                     \/ /\ []<><<TcpFrame(x)>>_vars
                        /\ []<><<UdpDatagram(x)>>_vars
=============================================================================
