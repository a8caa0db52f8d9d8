----------------------------- MODULE NodeSession -----------------------------
(***************************************************************************)
(* The session of a node with its reflector: the part of ReflectorLogic    *)
(* (svxlink/svxlink/ReflectorLogic.cpp) that logs in, keeps the connection *)
(* alive and carries the audio, over the client of TcpPrioClient.tla.      *)
(*                                                                         *)
(* The event loop serves the expired timers in the order of their expiry,  *)
(* one per round, and the ready descriptors of each round after it.  A     *)
(* task (runTask) is a timer that expires at once: events on descriptors   *)
(* may come before it, and timers that were due already, but no other.     *)
(* Writing to a connection only fills a buffer and does not fail.          *)
(*                                                                         *)
(* The reflector is external: it may send any frame and datagram at any    *)
(* time, close the connection, or fall silent.                             *)
(***************************************************************************)
EXTENDS TcpPrioClient

CONSTANTS
    UDP_HEARTBEAT_TX,       \* the values the four heartbeat counters start at; the
    UDP_HEARTBEAT_RX,       \* TCP one for sending has no effect on the node
    TCP_HEARTBEAT_RX,
    RECONNECT,              \* seconds until an ordered disconnect is followed up
    FLUSH_TIMEOUT,          \* seconds to wait for MsgUdpAllSamplesFlushed
    TALK_TIMEOUT,           \* seconds without audio that end the stream received
    MaxTasks                \* bound: connections made before a task is run

ASSUME SessionAssumption ==
    /\ {UDP_HEARTBEAT_TX, UDP_HEARTBEAT_RX, TCP_HEARTBEAT_RX, RECONNECT,
        FLUSH_TIMEOUT, TALK_TIMEOUT, MaxTasks} \subseteq Nat \ {0}

VARIABLES
    p,      \* m_con, the prioritised client
    n       \* the members of ReflectorLogic

vars == <<p, n>>

(***************************************************************************)
(* Counters: a heartbeat counter is unsigned, and 0 once it wrapped around. *)
(* Of the one-shot timers and of the age of the last audio, 0 is off, 1 is *)
(* expired, and 1 + k has k seconds left.                                  *)
(***************************************************************************)
Sessions ==
    [state : {"DISCONNECTED", "EXPECT_CA_INFO", "EXPECT_CA_BUNDLE",
              "EXPECT_START_ENCRYPTION", "EXPECT_SSL_CON_READY",
              "EXPECT_AUTH_ANSWER", "EXPECT_SERVER_INFO",
              "EXPECT_START_UDP_ENCRYPTION", "EXPECT_UDP_HEARTBEAT", "CONNECTED"},
     ticking : BOOLEAN,                 \* m_heartbeat_timer is enabled
     tick    : BOOLEAN,                 \* and expired
     udpTx   : 0..UDP_HEARTBEAT_TX,     \* m_udp_heartbeat_tx_cnt
     udpRx   : 0..UDP_HEARTBEAT_RX,     \* m_udp_heartbeat_rx_cnt
     tcpRx   : 0..TCP_HEARTBEAT_RX,     \* m_tcp_heartbeat_rx_cnt
     recon   : 0..(1 + RECONNECT),      \* m_reconnect_timer
     sock    : BOOLEAN,                 \* m_udp_sock exists
     dec     : BOOLEAN,                 \* a stream to the logic is not flushed
     talk    : 0..(1 + TALK_TIMEOUT),   \* m_last_talker_timestamp
     enc     : {"idle", "open", "flushing"},    \* the stream from the logic
     flush   : 0..(1 + FLUSH_TIMEOUT),  \* m_flush_timeout_timer
     ghost   : BOOLEAN]                 \* history: was onConnected last run without
                                        \* a connection?

TypeOK == p \in Machines /\ p.tasks <= MaxTasks /\ n \in Sessions

\* The node when its initialisation has told the client to connect.
Init ==
    /\ \E h \in Hosts : p = Connecting(h)
    /\ n = [state |-> "DISCONNECTED", ticking |-> FALSE, tick |-> FALSE,
            udpTx |-> UDP_HEARTBEAT_TX, udpRx |-> UDP_HEARTBEAT_RX,
            tcpRx |-> TCP_HEARTBEAT_RX, recon |-> 0, sock |-> FALSE,
            dec |-> FALSE, talk |-> 0, enc |-> "idle", flush |-> 0, ghost |-> FALSE]

UdpVerifying == n.state = "EXPECT_UDP_HEARTBEAT"
LoggedIn == n.state = "CONNECTED"
TcpLoggedIn == LoggedIn \/ UdpVerifying \/ n.state = "EXPECT_START_UDP_ENCRYPTION"

\* The connection has been greeted: only then does the reflector answer.
Greeted == p.up /\ p.tasks = 0

-----------------------------------------------------------------------------
(***************************************************************************)
(* onConnected, onDisconnected, disconnect, reconnect.                     *)
(***************************************************************************)
OnConnected(s, up) ==
    [s EXCEPT !.state = "EXPECT_CA_INFO", !.ticking = TRUE, !.talk = 0,
              !.udpTx = UDP_HEARTBEAT_TX, !.udpRx = UDP_HEARTBEAT_RX,
              !.tcpRx = TCP_HEARTBEAT_RX, !.ghost = ~up]

\* Mutant: the reconnect timer is meant for connections that broke.
OnDisconnectedSwapped(s, ordered) ==
    [s EXCEPT !.state = "DISCONNECTED", !.ticking = FALSE, !.tick = FALSE,
              !.sock = FALSE, !.recon = IF ordered THEN 0 ELSE 1 + RECONNECT,
              !.flush = 0, !.enc = IF s.flush > 0 THEN "idle" ELSE @,
              !.dec = @ /\ s.talk = 0, !.talk = 0]

OnDisconnected(s, ordered) ==
    [s EXCEPT !.state = "DISCONNECTED", !.ticking = FALSE, !.tick = FALSE,
              !.sock = FALSE, !.recon = IF ordered THEN 1 + RECONNECT ELSE 0,
              !.flush = 0, !.enc = IF s.flush > 0 THEN "idle" ELSE @,
              !.dec = @ /\ s.talk = 0, !.talk = 0]

\* disconnect(), called in state s of the node.
Disconnect(s) ==
    /\ p' = DisconnectEvent(p)
    /\ n' = [(IF p.up THEN OnDisconnected(s, TRUE) ELSE s)
               EXCEPT !.state = "DISCONNECTED"]

Reconnect(s) ==
    /\ p' = ConnectEvent(DisconnectEvent(p))
    /\ n' = [(IF p.up THEN OnDisconnected(s, TRUE) ELSE s)
               EXCEPT !.state = "DISCONNECTED", !.recon = 0]

-----------------------------------------------------------------------------
(***************************************************************************)
(* The client: lookups, attempts to connect, and their results.            *)
(***************************************************************************)
LookupReady ==
    /\ p.state \in {"SRVLookup", "LowSRVLookup"}
    /\ \E a \in Answers :
         p' = IF p.state = "SRVLookup" THEN SRVResult(p, a) ELSE LowSRVResult(p, a)
    /\ UNCHANGED n

Connects ==
    /\ p.state = "TryConnect" /\ p.tasks < MaxTasks
    /\ p' = ConnectedEvent(p)
    /\ UNCHANGED n

ConnectFails ==
    /\ p.state = "TryConnect"
    /\ p' = DisconnectedEvent(p)
    /\ n' = OnDisconnected(n, FALSE)

RemoteClose ==
    /\ p.up
    /\ p' = DisconnectedEvent([p EXCEPT !.up = FALSE])
    /\ n' = OnDisconnected(n, FALSE)

ConnIdleTimeout ==
    /\ p.state = "ConnIdle" /\ p.tasks = 0
    /\ p' = [p EXCEPT !.state = "SRVLookup"]
    /\ UNCHANGED n

LowIdleTimeout ==
    /\ p.state = "LowIdle" /\ p.tasks = 0
    /\ p' = [p EXCEPT !.state = "LowSRVLookup"]
    /\ UNCHANGED n

\* Mutant: the node is not told that its connection is replaced.
SwitchedUnseen(s) == s

Switched(s) == OnDisconnected(s, FALSE)

BgConnects ==
    /\ p.state = "LowTryConnect" /\ p.tasks < MaxTasks
    /\ p' = BgConnectedEvent(p)
    /\ n' = Switched(n)

BgConnectFails ==
    /\ p.state = "LowTryConnect"
    /\ p' = BgDisconnectedEvent(p)
    /\ UNCHANGED n

\* Every pending task emits "connected", connection or not.
RunTasks ==
    /\ p.tasks > 0
    /\ p' = [p EXCEPT !.tasks = 0]
    /\ n' = OnConnected(n, p.up)

-----------------------------------------------------------------------------
(***************************************************************************)
(* onFrameReceived and the handlers of the login.  A handler disconnects   *)
(* when its message is not expected or cannot be accepted.                 *)
(***************************************************************************)
LoginSteps ==
    {<<"EXPECT_CA_INFO", "CAInfo", "EXPECT_CA_BUNDLE">>,
     <<"EXPECT_CA_INFO", "CAInfo", "EXPECT_START_ENCRYPTION">>,
     <<"EXPECT_CA_BUNDLE", "CABundle", "EXPECT_START_ENCRYPTION">>,
     <<"EXPECT_START_ENCRYPTION", "StartEncryption", "EXPECT_SSL_CON_READY">>,
     <<"EXPECT_SSL_CON_READY", "SslReady", "EXPECT_AUTH_ANSWER">>,
     <<"EXPECT_AUTH_ANSWER", "AuthChallenge", "EXPECT_AUTH_ANSWER">>,
     <<"EXPECT_AUTH_ANSWER", "ClientCsrRequest", "EXPECT_AUTH_ANSWER">>,
     <<"EXPECT_AUTH_ANSWER", "AuthOk", "EXPECT_SERVER_INFO">>,
     <<"EXPECT_SERVER_INFO", "ServerInfo", "EXPECT_START_UDP_ENCRYPTION">>,
     <<"EXPECT_START_UDP_ENCRYPTION", "StartUdpEncryption", "EXPECT_UDP_HEARTBEAT">>}

LoginTypes == {step[2] : step \in LoginSteps}

\* They have no contents that could be wrong.
Unrefusable == {"StartEncryption", "ClientCsrRequest", "AuthOk"}

\* SslReady is the end of the TLS handshake and not a frame.
Heard(s, type) == IF type = "SslReady" THEN s ELSE [s EXCEPT !.tcpRx = TCP_HEARTBEAT_RX]

Registered(s, type) ==
    IF type = "StartUdpEncryption" THEN [s EXCEPT !.udpTx = UDP_HEARTBEAT_TX] ELSE s

LoginProceeds(type) ==
    /\ Greeted
    /\ \E step \in LoginSteps :
         /\ step[1] = n.state /\ step[2] = type
         /\ n' = [Registered(Heard(n, type), type) EXCEPT
                    !.state = step[3], !.sock = @ \/ type = "ServerInfo"]
    /\ UNCHANGED p

LoginRefused(type) ==
    /\ Greeted
    /\ type \in Unrefusable =>
         ~\E step \in LoginSteps : step[1] = n.state /\ step[2] = type
    /\ Disconnect(IF type = "StartUdpEncryption" /\ ~TcpLoggedIn THEN n ELSE Heard(n, type))

\* The node gets a new certificate and logs in again with it.
HandleMsgClientCert ==
    /\ Greeted
    /\ \/ /\ n.state = "EXPECT_AUTH_ANSWER" \/ n.state = "EXPECT_SERVER_INFO" \/ TcpLoggedIn
          /\ Reconnect(Heard(n, "ClientCert"))
       \/ Disconnect(Heard(n, "ClientCert"))

\* MsgError and MsgProtoVerDowngrade.
HandleMsgError == Greeted /\ Disconnect(Heard(n, "Error"))

\* A heartbeat, or a message about nodes, talkers and talk groups.
OtherFrame ==
    /\ Greeted
    /\ n' = Heard(n, "Heartbeat")
    /\ UNCHANGED p

UserFrameRefused ==
    /\ Greeted
    /\ Disconnect(IF TcpLoggedIn THEN Heard(n, "User") ELSE n)

-----------------------------------------------------------------------------
(***************************************************************************)
(* udpDatagramReceived.  Datagrams that are duplicated, late, or not from  *)
(* the reflector are dropped and change nothing.  The first heartbeat ends *)
(* the login.                                                              *)
(***************************************************************************)
UdpHeard == [n EXCEPT !.udpRx = UDP_HEARTBEAT_RX]

UdpReceivable == n.sock /\ TcpLoggedIn /\ Greeted

UdpHeartbeat ==
    /\ UdpReceivable
    /\ n' = [UdpHeard EXCEPT !.state = IF UdpVerifying THEN "CONNECTED" ELSE @]
    /\ p' = [p EXCEPT !.marked = @ \/ UdpVerifying]

UdpIgnored ==
    /\ UdpReceivable /\ ~LoggedIn
    /\ n' = UdpHeard
    /\ UNCHANGED p

AudioNoted(s) == [s EXCEPT !.talk = 1 + TALK_TIMEOUT, !.dec = TRUE]

UdpAudio ==
    /\ UdpReceivable /\ LoggedIn
    /\ n' = AudioNoted(UdpHeard)
    /\ UNCHANGED p

UdpFlushSamples ==
    /\ UdpReceivable /\ LoggedIn
    /\ n' = [UdpHeard EXCEPT !.dec = FALSE, !.talk = 0]
    /\ UNCHANGED p

\* The timer that waits for it is left running.
UdpAllSamplesFlushed ==
    /\ UdpReceivable /\ LoggedIn
    /\ n' = [UdpHeard EXCEPT !.enc = IF @ = "flushing" THEN "idle" ELSE @]
    /\ UNCHANGED p

-----------------------------------------------------------------------------
(***************************************************************************)
(* Audio from the logic (sendEncodedAudio, flushEncodedAudio), and the     *)
(* answer of the logic to a flush (allEncodedSamplesFlushed).              *)
(***************************************************************************)
UdpSent(s) == [s EXCEPT !.udpTx = UDP_HEARTBEAT_TX]

SendEncodedAudio ==
    /\ n' = IF LoggedIn THEN [UdpSent(n) EXCEPT !.flush = 0, !.enc = "open"]
            ELSE [n EXCEPT !.enc = "open"]
    /\ UNCHANGED p

Flushed(s) ==
    IF LoggedIn THEN [UdpSent(s) EXCEPT !.enc = "flushing", !.flush = 1 + FLUSH_TIMEOUT]
    ELSE [s EXCEPT !.enc = "idle", !.flush = 0]

FlushEncodedAudio ==
    /\ n.enc = "open"
    /\ n' = Flushed(n)
    /\ UNCHANGED p

AllEncodedSamplesFlushed ==
    /\ LoggedIn /\ ~n.dec
    /\ n' = UdpSent(n)
    /\ UNCHANGED p

-----------------------------------------------------------------------------
(***************************************************************************)
(* Time.  No second passes before what is due is served.                   *)
(***************************************************************************)
CountDown(t) == IF t > 1 THEN t - 1 ELSE t

SecondPasses ==
    /\ p.tasks = 0 /\ ~n.tick /\ n.recon # 1 /\ n.flush # 1
    /\ n' = [n EXCEPT !.tick = n.ticking, !.recon = CountDown(@),
                      !.flush = CountDown(@), !.talk = CountDown(@)]
    /\ UNCHANGED p

(***************************************************************************)
(* handleTimerTick.  Both receive counters are tested: the second of two   *)
(* calls of disconnect finds the connection closed.                        *)
(***************************************************************************)
Less(k) == IF k = 0 THEN 0 ELSE k - 1

StreamEnded(s) == IF s.talk = 1 THEN [s EXCEPT !.dec = FALSE, !.talk = 0] ELSE s

UdpTxCounted(k) ==
    IF k # 1 THEN Less(k)
    ELSE IF LoggedIn \/ UdpVerifying THEN UDP_HEARTBEAT_TX ELSE 0

\* Mutant: silence on UDP is not noticed.
SilentTcpOnly(s) == s.tcpRx = 1

Silent(s) == s.udpRx = 1 \/ s.tcpRx = 1

HandleTimerTick ==
    /\ n.tick
    /\ LET s == [StreamEnded(n) EXCEPT !.tick = FALSE,
                                       !.udpTx = UdpTxCounted(@),
                                       !.udpRx = Less(@), !.tcpRx = Less(@)]
       IN  IF Silent(n) THEN Disconnect(s) ELSE n' = s /\ UNCHANGED p

ReconnectTimeout == n.recon = 1 /\ Reconnect([n EXCEPT !.recon = 0])

FlushTimeout ==
    /\ n.flush = 1
    /\ n' = [n EXCEPT !.flush = 0, !.enc = IF @ = "flushing" THEN "idle" ELSE @]
    /\ UNCHANGED p

-----------------------------------------------------------------------------
Frame ==
    \/ \E type \in LoginTypes : LoginProceeds(type) \/ LoginRefused(type)
    \/ HandleMsgClientCert
    \/ HandleMsgError
    \/ OtherFrame
    \/ UserFrameRefused

Datagram ==
    \/ UdpHeartbeat
    \/ UdpIgnored
    \/ UdpAudio
    \/ UdpFlushSamples
    \/ UdpAllSamplesFlushed

Next ==
    \/ LookupReady
    \/ Connects
    \/ ConnectFails
    \/ RemoteClose
    \/ ConnIdleTimeout
    \/ LowIdleTimeout
    \/ BgConnects
    \/ BgConnectFails
    \/ RunTasks
    \/ Frame
    \/ Datagram
    \/ SendEncodedAudio
    \/ FlushEncodedAudio
    \/ AllEncodedSamplesFlushed
    \/ SecondPasses
    \/ HandleTimerTick
    \/ ReconnectTimeout
    \/ FlushTimeout

(***************************************************************************)
(* Time passes, timers and tasks are served, a lookup has a result and an  *)
(* attempt to connect succeeds or fails.  Nothing is assumed of the        *)
(* reflector once connected.                                               *)
(***************************************************************************)
Fairness ==
    /\ WF_vars(SecondPasses)
    /\ WF_vars(HandleTimerTick)
    /\ WF_vars(ReconnectTimeout)
    /\ WF_vars(FlushTimeout)
    /\ WF_vars(RunTasks)
    /\ WF_vars(ConnIdleTimeout)
    /\ WF_vars(LowIdleTimeout)
    /\ WF_vars(LookupReady)
    /\ WF_vars(Connects \/ ConnectFails)
    /\ WF_vars(BgConnects \/ BgConnectFails)

Spec == Init /\ [][Next]_vars

FairSpec == Spec /\ Fairness

-----------------------------------------------------------------------------
(***************************************************************************)
(* Properties                                                              *)
(***************************************************************************)

(***************************************************************************)
(* What is supervised, is.  A node that takes itself for logged in has a   *)
(* connection that the heartbeat timer watches, and a UDP socket: whatever *)
(* closes or replaces the connection has gone through onDisconnected.  No  *)
(* audio stream is left open for ever by a reflector that is gone: the one *)
(* to the logic is timed, by a timer that runs, and the logic waits for    *)
(* the end of a flush only while the flush timer runs.  And the counter of *)
(* the UDP heartbeats has not wrapped around when they are needed, though  *)
(* it counts during the whole login, where reaching zero sends nothing.    *)
(***************************************************************************)
SessionIsLive == LoggedIn => p.up /\ n.ticking /\ n.sock /\ ~n.ghost

AudioNeverHangs ==
    /\ n.dec => n.talk > 0 /\ n.ticking
    /\ n.enc = "flushing" => n.flush > 0

UdpKeptAlive == UdpVerifying \/ LoggedIn => n.udpTx > 0

Supervised == SessionIsLive /\ AudioNeverHangs /\ UdpKeptAlive

(***************************************************************************)
(* A client that was disconnected is followed up by the reconnect timer.   *)
(***************************************************************************)
Stranded == p.state = "Disconnected" /\ n.recon = 0

(***************************************************************************)
(* The only way to a node that gives up for ever is a task that reports a  *)
(* connection which is closed already: nothing else disconnects the client *)
(* without enabling the reconnect timer, in whatever order the timers, the *)
(* frames and the results of the client are served.                        *)
(***************************************************************************)
StrandedByTaskOnly == Stranded => n.ghost

(***************************************************************************)
(* Unless that happens the node never stops trying to connect.             *)
(***************************************************************************)
KeepsTrying == [](~n.ghost) => []<>(p.up \/ p.state = "TryConnect")

(***************************************************************************)
(* A connection on which the reflector falls silent, on TCP or on UDP,     *)
(* ends.                                                                   *)
(***************************************************************************)
SilenceEnds ==
    \/ []<>(~p.up)
    \/ []<><<BgConnects>>_vars
    \/ []<><<Frame>>_vars /\ []<><<Datagram>>_vars

(***************************************************************************)
(* A connection that stays is finally one to the first server of the list, *)
(* if lookups succeed and attempts to connect to it do not keep failing    *)
(* (DNS_DOMAIN, svxlink.conf(5): "The priority determine in which order    *)
(* SvxLink will try to connect to the servers").                           *)
(***************************************************************************)
ReachesPrimary ==
    \/ []<>(~p.up)
    \/ []<>(p.failed)
    \/ []<><<BgConnectFails>>_vars
    \/ <>[](p.rrs # <<>> /\ p.host = p.rrs[1])
=============================================================================
