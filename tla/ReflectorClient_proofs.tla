----------------------- MODULE ReflectorClient_proofs -----------------------
(***************************************************************************)
(* Proofs about the client objects of the reflector, for any number of     *)
(* connections, callsigns and UDP sources and any heartbeat periods: the   *)
(* maps lead to the right objects, the timers fit the state of each        *)
(* object, and the whole implements NodeLogin.tla.                         *)
(*                                                                         *)
(* Nearly every handler keeps the callsign and the registered source of an *)
(* object, and either leaves its phase as it is or gives it up.  Follows   *)
(* says that of an object and what a handler makes of it; it is            *)
(* transitive, so the operators on objects have a lemma each, and a        *)
(* handler is their composition.                                           *)
(***************************************************************************)
EXTENDS ReflectorClient, TLAPS

PhaseOf(o) == CASE o.state = "CONNECTED" -> "connected"
                [] o.state = "EXPECT_DISCONNECT" -> "closing"
                [] OTHER -> "handshake"

\* The counters that make the server send a heartbeat, while it is supervised.
Armed(o) ==
    o.beating =>
      /\ o.txCnt \in 1 .. HEARTBEAT_TX_CNT_RESET
      /\ o.port # NoSrc => o.udpTxCnt \in 1 .. UDP_HEARTBEAT_TX_CNT_RESET

\* Only a login gives an object its callsign.
ObjectOK(o) ==
    /\ o \in Objects
    /\ o.closing => o.state = "EXPECT_DISCONNECT"
    /\ Armed(o)
    /\ PhaseOf(o) = "handshake" => o.callsign = NoCallsign

Follows(o, q) ==
    /\ ObjectOK(q)
    /\ q.callsign = o.callsign /\ q.src = o.src
    /\ PhaseOf(q) \in {PhaseOf(o), "closing"}

ObjectsOK == \A x \in Live : ObjectOK(client[x])

\* An entry of the map of sources leads to an object, or its object is deleted.
EntriesLive ==
    \A s \in DOMAIN srcMap : srcMap[s] # NoCon => srcMap[s] \in Live

IInv == TypeOK /\ ObjectsOK /\ CallsignsExact /\ EntriesLive

(***************************************************************************)
(* What the operators make of one object                                   *)
(***************************************************************************)
LEMMA FollowsTrans ==
  ASSUME NEW o, NEW q, NEW r, Follows(o, q), Follows(q, r)
  PROVE  Follows(o, r)
  BY DEF Follows

LEMMA FollowsSelf == ASSUME NEW o, ObjectOK(o) PROVE Follows(o, o)
  BY DEF Follows

LEMMA NewObjectOK == ObjectOK(NewObject) /\ NewObject.callsign = NoCallsign
                     /\ NewObject.src = NoSrc /\ PhaseOf(NewObject) = "handshake"
  BY ConstantAssumption, SMT
     DEF NewObject, ObjectOK, Objects, ConStates, ProtoVers, Armed, PhaseOf

LEMMA SendMsgOK == ASSUME NEW o, ObjectOK(o) PROVE Follows(o, SendMsg(o))
  BY ConstantAssumption, SMT
     DEF SendMsg, Follows, ObjectOK, Objects, ConStates, ProtoVers, Armed, PhaseOf

LEMMA SendErrorOK == ASSUME NEW o, ObjectOK(o) PROVE Follows(o, SendError(o))
<1> DEFINE q == SendError(o)
<1>1. o \in Objects BY DEF ObjectOK
<1>2. q \in Objects BY <1>1, ZenonT(60) DEF SendError, Objects, ConStates
<1>3. /\ q.state = "EXPECT_DISCONNECT" /\ q.beating = FALSE
      /\ q.callsign = o.callsign /\ q.src = o.src
  BY <1>1, SMT DEF SendError, Objects
<1>4. PhaseOf(q) = "closing" BY <1>3, SMT DEF PhaseOf
<1>5. Armed(q) BY <1>3 DEF Armed
<1> HIDE DEF q
<1>6. ObjectOK(q) BY <1>2, <1>3, <1>4, <1>5 DEF ObjectOK
<1> QED BY <1>3, <1>4, <1>6 DEF Follows, q

LEMMA SendUdpMsgOK == ASSUME NEW o, ObjectOK(o) PROVE Follows(o, SendUdpMsg(o))
  BY ConstantAssumption, SMT
     DEF SendUdpMsg, Follows, ObjectOK, Objects, ConStates, ProtoVers, Armed, PhaseOf

LEMMA FrameInOK ==
  ASSUME IInv, NEW x \in Cons, Listens(x)
  PROVE  /\ ObjectOK(client[x]) /\ Follows(client[x], FrameIn(x))
         /\ FrameIn(x).state = client[x].state
  BY ConstantAssumption, SMT
     DEF IInv, ObjectsOK, Listens, Live, FrameIn, Follows, ObjectOK, Objects, ConStates,
         ProtoVers, Armed, PhaseOf

LEMMA VerOK ==
  ASSUME NEW o, ObjectOK(o), NEW v \in ProtoVers
  PROVE  Follows(o, [o EXCEPT !.ver = v])
<1> DEFINE q == [o EXCEPT !.ver = v]
<1>1. o \in Objects BY DEF ObjectOK
<1>2. q \in Objects BY <1>1, Zenon DEF Objects
<1>3. /\ q.state = o.state /\ q.callsign = o.callsign /\ q.src = o.src
      /\ q.beating = o.beating /\ q.closing = o.closing /\ q.port = o.port
      /\ q.txCnt = o.txCnt /\ q.udpTxCnt = o.udpTxCnt
  BY <1>1 DEF Objects
<1> HIDE DEF q
<1>4. PhaseOf(q) = PhaseOf(o) /\ ObjectOK(q)
  BY <1>2, <1>3 DEF ObjectOK, Armed, PhaseOf
<1> QED BY <1>3, <1>4 DEF Follows, q

\* What the handlers make of the state and the TLS session of an object.
TlsStates == {"off", "pending", "no_cert", "cert", "renewed"}

LEMMA TlsOK ==
  ASSUME NEW o, ObjectOK(o), NEW t \in TlsStates
  PROVE  Follows(o, [o EXCEPT !.tls = t])
<1> DEFINE q == [o EXCEPT !.tls = t]
<1>1. o \in Objects BY DEF ObjectOK
<1>2. q \in Objects BY <1>1, Zenon DEF Objects, TlsStates
<1>3. /\ q.state = o.state /\ q.callsign = o.callsign /\ q.src = o.src
      /\ q.beating = o.beating /\ q.closing = o.closing /\ q.port = o.port
      /\ q.txCnt = o.txCnt /\ q.udpTxCnt = o.udpTxCnt
  BY <1>1 DEF Objects
<1> HIDE DEF q
<1>4. PhaseOf(q) = PhaseOf(o) /\ ObjectOK(q)
  BY <1>2, <1>3 DEF ObjectOK, Armed, PhaseOf
<1> QED BY <1>3, <1>4 DEF Follows, q

LEMMA StateOK ==
  ASSUME NEW o, ObjectOK(o), NEW st \in ConStates \ {"CONNECTED"},
         PhaseOf(o) = "handshake" \/ st = "EXPECT_DISCONNECT"
  PROVE  Follows(o, [o EXCEPT !.state = st])
<1> DEFINE q == [o EXCEPT !.state = st]
<1>1. o \in Objects BY DEF ObjectOK
<1>2. q \in Objects BY <1>1, Zenon DEF Objects
<1>3. /\ q.state = st /\ q.callsign = o.callsign /\ q.src = o.src
      /\ q.beating = o.beating /\ q.closing = o.closing /\ q.port = o.port
      /\ q.txCnt = o.txCnt /\ q.udpTxCnt = o.udpTxCnt
  BY <1>1 DEF Objects
<1> HIDE DEF q
<1>4. /\ PhaseOf(q) = IF st = "EXPECT_DISCONNECT" THEN "closing" ELSE "handshake"
      /\ o.closing => st = "EXPECT_DISCONNECT"
  BY <1>3 DEF ObjectOK, PhaseOf
<1>5. ObjectOK(q) BY <1>2, <1>3, <1>4 DEF ObjectOK, Armed
<1> QED BY <1>3, <1>4, <1>5 DEF Follows, q

(***************************************************************************)
(* A second of a client that is supervised: a counter that reaches zero is *)
(* loaded again before the handler ends.                                   *)
(***************************************************************************)
LEMMA DecType == \A n \in Int : Dec(n) \in Int /\ (n > 0 => Dec(n) = n - 1)
  BY DEF Dec, Wrapped

LEMMA ResetsAreInt ==
  /\ HEARTBEAT_TX_CNT_RESET \in Int /\ UDP_HEARTBEAT_TX_CNT_RESET \in Int
  /\ UDP_HEARTBEAT_RX_CNT_RESET \in Int
  BY ConstantAssumption

LEMMA TickedOK ==
  ASSUME NEW o, ObjectOK(o), o.beating PROVE Follows(o, Ticked(o))
<1> DEFINE t == [o EXCEPT !.txCnt = Dec(@), !.udpTxCnt = Dec(@),
                          !.rxCnt = Dec(@), !.udpRxCnt = Dec(@)]
           tcp == IF t.txCnt = 0 THEN SendMsg(t) ELSE t
           udp == IF t.udpTxCnt = 0 THEN SendUdpMsg(tcp) ELSE tcp
           Same(q) == /\ q.state = o.state /\ q.callsign = o.callsign
                      /\ q.beating = o.beating /\ q.closing = o.closing
                      /\ q.src = o.src /\ q.port = o.port
<1>1. /\ o \in Objects
      /\ o.txCnt \in 1 .. HEARTBEAT_TX_CNT_RESET
      /\ o.port # NoSrc => o.udpTxCnt \in 1 .. UDP_HEARTBEAT_TX_CNT_RESET
  BY DEF ObjectOK, Armed
<1>2. t \in Objects BY <1>1, DecType, Zenon DEF Objects
<1>3. Same(t) /\ t.txCnt = Dec(o.txCnt) /\ t.udpTxCnt = Dec(o.udpTxCnt)
  BY <1>1 DEF Objects
<1> HIDE DEF t
<1>4. SendMsg(t) \in Objects BY <1>2, ResetsAreInt, Zenon DEF SendMsg, Objects
<1>5. /\ Same(SendMsg(t)) /\ SendMsg(t).txCnt = HEARTBEAT_TX_CNT_RESET
      /\ SendMsg(t).udpTxCnt = t.udpTxCnt
  BY <1>2, <1>3 DEF SendMsg, Objects
<1>6. /\ tcp \in Objects /\ Same(tcp) /\ tcp.udpTxCnt = t.udpTxCnt
      /\ tcp.txCnt = IF t.txCnt = 0 THEN HEARTBEAT_TX_CNT_RESET ELSE t.txCnt
  BY <1>2, <1>3, <1>4, <1>5, Zenon
<1>7. tcp.txCnt \in 1 .. HEARTBEAT_TX_CNT_RESET
  BY <1>1, <1>3, <1>6, DecType, ConstantAssumption
<1> HIDE DEF tcp
<1>8. SendUdpMsg(tcp) \in Objects
  BY <1>6, ResetsAreInt, Zenon DEF SendUdpMsg, Objects
<1>9. /\ Same(SendUdpMsg(tcp)) /\ SendUdpMsg(tcp).txCnt = tcp.txCnt
      /\ o.port # NoSrc => SendUdpMsg(tcp).udpTxCnt = UDP_HEARTBEAT_TX_CNT_RESET
  BY <1>6 DEF SendUdpMsg, Objects
<1>10. /\ udp \in Objects /\ Same(udp) /\ udp.txCnt = tcp.txCnt
       /\ o.port # NoSrc =>
            udp.udpTxCnt = IF t.udpTxCnt = 0 THEN UDP_HEARTBEAT_TX_CNT_RESET
                                             ELSE t.udpTxCnt
  BY <1>6, <1>8, <1>9, Zenon
<1>11. o.port # NoSrc => udp.udpTxCnt \in 1 .. UDP_HEARTBEAT_TX_CNT_RESET
  BY <1>1, <1>3, <1>10, DecType, ConstantAssumption
<1> HIDE DEF udp
<1>12. PhaseOf(udp) = PhaseOf(o) BY <1>10 DEF PhaseOf
<1>13. ObjectOK(udp) BY <1>7, <1>10, <1>11, <1>12 DEF ObjectOK, Armed
<1>14. Follows(o, udp) BY <1>10, <1>12, <1>13 DEF Follows
<1>15. Follows(o, SendError(SendMsg(udp)))
  <2>1. Follows(udp, SendMsg(udp)) BY <1>13, SendMsgOK
  <2>2. Follows(SendMsg(udp), SendError(SendMsg(udp)))
    BY <2>1, SendErrorOK DEF Follows
  <2> QED BY <1>14, <2>1, <2>2, FollowsTrans
<1>16. Ticked(o) = IF HeartbeatTimedOut(t) THEN SendError(SendMsg(udp)) ELSE udp
  BY DEF Ticked, t, tcp, udp
<1> QED BY <1>14, <1>15, <1>16

(***************************************************************************)
(* A datagram: the object may learn its port, which is followed by a       *)
(* heartbeat, and its counter may be reset; the source it is registered    *)
(* under is entered separately.                                            *)
(***************************************************************************)
Heard(o, s, inSequence) ==
    LET known == IF o.port = NoSrc THEN SetRemoteUdpSource(o, s) ELSE o
    IN IF known.port = s /\ inSequence
         THEN [known EXCEPT !.udpRxCnt = UDP_HEARTBEAT_RX_CNT_RESET] ELSE known

LEMMA HeardOK ==
  ASSUME NEW o, ObjectOK(o), NEW s \in Srcs, NEW inSequence
  PROVE  /\ Follows(o, Heard(o, s, inSequence))
         /\ PhaseOf(Heard(o, s, inSequence)) = PhaseOf(o)
<1> DEFINE p == [o EXCEPT !.port = s]
           known == IF o.port = NoSrc THEN SendUdpMsg(p) ELSE o
           q == Heard(o, s, inSequence)
           Same(r) == /\ r.state = o.state /\ r.callsign = o.callsign
                      /\ r.beating = o.beating /\ r.closing = o.closing
                      /\ r.src = o.src /\ r.txCnt = o.txCnt
           UdpArmed(r) == /\ r.port # NoSrc
                          /\ o.beating =>
                               r.udpTxCnt \in 1 .. UDP_HEARTBEAT_TX_CNT_RESET
<1>1. o \in Objects BY DEF ObjectOK
<1>2. p \in Objects BY <1>1, Zenon DEF Objects
<1>3. Same(p) /\ p.port = s BY <1>1 DEF Objects
<1> HIDE DEF p
<1>4. known \in Objects
  <2>1. SendUdpMsg(p) \in Objects
    BY <1>2, ResetsAreInt, Zenon DEF SendUdpMsg, Objects
  <2> QED BY <1>1, <2>1
<1>5. Same(known) /\ UdpArmed(known)
  BY <1>1, <1>2, <1>3, ConstantAssumption DEF SendUdpMsg, Objects, ObjectOK, Armed
<1>6. q = IF known.port = s /\ inSequence
            THEN [known EXCEPT !.udpRxCnt = UDP_HEARTBEAT_RX_CNT_RESET] ELSE known
  BY DEF Heard, SetRemoteUdpSource, p
<1> HIDE DEF known, q
<1>7. q \in Objects
  <2>1. [known EXCEPT !.udpRxCnt = UDP_HEARTBEAT_RX_CNT_RESET] \in Objects
    BY <1>4, ResetsAreInt, Zenon DEF Objects
  <2> QED BY <1>4, <1>6, <2>1
<1>8. Same(q) /\ UdpArmed(q) BY <1>4, <1>5, <1>6 DEF Objects
<1>9. PhaseOf(q) = PhaseOf(o) BY <1>8 DEF PhaseOf
<1>10. ObjectOK(q) BY <1>7, <1>8, <1>9 DEF ObjectOK, Armed
<1> QED BY <1>8, <1>9, <1>10 DEF Follows, q

-----------------------------------------------------------------------------
(***************************************************************************)
(* What the handlers do: a step is of one of five kinds                    *)
(***************************************************************************)
Enters(x) == x \notin Live /\ Becomes(x, NewObject)

Stays(x) == x \in Live /\ \E q \in Objects : Follows(client[x], q) /\ Becomes(x, q)

Leaves(x) == x \in Live /\ Gone(x)

LogsIn(x) ==
    /\ x \in Live /\ PhaseOf(client[x]) = "handshake"
    /\ \E q \in Objects, cs \in Callsigns \ NodeList :
         /\ ObjectOK(q) /\ PhaseOf(q) = "connected"
         /\ q.callsign = cs /\ q.src = client[x].src
         /\ client' = [client EXCEPT ![x] = q]
         /\ callsignMap' = [c \in DOMAIN callsignMap \cup {cs} |->
                              IF c = cs THEN x ELSE callsignMap[c]]
         /\ UNCHANGED srcMap

Registers(x) ==
    /\ x \in Live
    /\ \E q \in Objects, s \in Srcs :
         /\ s \in SrcsOf[x] \/ (s \in DOMAIN srcMap /\ srcMap[s] = x)
         /\ ObjectOK(q) /\ PhaseOf(q) = PhaseOf(client[x])
         /\ q.callsign = client[x].callsign /\ q.src = s
         /\ client' = [client EXCEPT ![x] = q]
         /\ srcMap' = SrcEntered(x, s)
         /\ UNCHANGED callsignMap

Step(x) == Enters(x) \/ Stays(x) \/ Leaves(x) \/ LogsIn(x) \/ Registers(x)

LEMMA LiveOK ==
  ASSUME IInv, NEW x \in Live
  PROVE  x \in Cons /\ ObjectOK(client[x]) /\ client[x] \in Objects
  BY DEF IInv, ObjectsOK, ObjectOK, Live

LEMMA ListensOK ==
  ASSUME IInv, NEW x \in Cons, Listens(x)
  PROVE  /\ x \in Live /\ Follows(client[x], FrameIn(x)) /\ ObjectOK(FrameIn(x))
         /\ FrameIn(x).state = client[x].state
         /\ PhaseOf(FrameIn(x)) = PhaseOf(client[x])
  BY FrameInOK DEF Listens, Follows, PhaseOf

LEMMA BecomesStays ==
  ASSUME NEW x \in Live, NEW q, Follows(client[x], q), Becomes(x, q)
  PROVE  Step(x)
  BY DEF Step, Stays, Follows, ObjectOK

LEMMA GoneLeaves == ASSUME NEW x \in Live, Gone(x) PROVE Step(x)
  BY DEF Step, Leaves

(***************************************************************************)
(* A login, in either protocol version                                     *)
(***************************************************************************)
LEMMA AuthenticatedStep ==
  ASSUME IInv, NEW x \in Live, NEW o, Follows(client[x], o),
         PhaseOf(client[x]) = "handshake", PhaseOf(o) = "handshake",
         NEW cs \in Callsigns, ConnectionAuthenticated(x, o, cs)
  PROVE  Step(x)
<1>1. CASE cs \in NodeList
  <2>1. Follows(o, SendError(o)) BY SendErrorOK DEF Follows
  <2>2. Becomes(x, SendError(o)) BY <1>1 DEF ConnectionAuthenticated
  <2> QED BY <2>1, <2>2, FollowsTrans, BecomesStays
<1>2. CASE cs \notin NodeList
  <2> DEFINE p == SendMsg(o)
             q == [p EXCEPT !.callsign = cs, !.state = "CONNECTED"]
  <2>1. Follows(o, p) BY SendMsgOK DEF Follows
  <2>2. p \in Objects /\ ObjectOK(p) /\ PhaseOf(p) = "handshake"
    <3>1. p.state = o.state BY DEF SendMsg, Follows, ObjectOK, Objects
    <3> QED BY <2>1, <3>1 DEF Follows, ObjectOK, PhaseOf
  <2>3. p.src = client[x].src BY <2>1 DEF Follows
  <2> HIDE DEF p
  <2>4. q \in Objects BY <2>2, Zenon DEF Objects, ConStates
  <2>5. /\ q.state = "CONNECTED" /\ q.callsign = cs /\ q.src = p.src
        /\ q.beating = p.beating /\ q.closing = p.closing /\ q.port = p.port
        /\ q.txCnt = p.txCnt /\ q.udpTxCnt = p.udpTxCnt
    BY <2>2 DEF Objects
  <2>6. /\ client' = [client EXCEPT ![x] = q] /\ UNCHANGED srcMap
        /\ callsignMap' = [c \in DOMAIN callsignMap \cup {cs} |->
                             IF c = cs THEN x ELSE callsignMap[c]]
    BY <1>2 DEF ConnectionAuthenticated, p
  <2> HIDE DEF q
  <2>7. PhaseOf(q) = "connected" BY <2>5 DEF PhaseOf
  <2>8. ~p.closing BY <2>2 DEF ObjectOK, PhaseOf
  <2>9. ObjectOK(q) BY <2>2, <2>4, <2>5, <2>7, <2>8 DEF ObjectOK, Armed
  <2>10. LogsIn(x) BY <1>2, <2>3, <2>4, <2>5, <2>6, <2>7, <2>9 DEF LogsIn
  <2> QED BY <2>10 DEF Step
<1> QED BY <1>1, <1>2

(***************************************************************************)
(* The handshake                                                           *)
(***************************************************************************)
LEMMA ClientConnectedStep == ASSUME NEW x, ClientConnected(x) PROVE Step(x)
  BY DEF ClientConnected, Step, Enters

LEMMA HandleMsgProtoVerStep ==
  ASSUME IInv, NEW x \in Cons, NEW v \in ProtoVers, HandleMsgProtoVer(x, v)
  PROVE  Step(x)
<1> DEFINE f == FrameIn(x)
           o == [f EXCEPT !.ver = v]
<1>1. Listens(x) BY DEF HandleMsgProtoVer
<1>2. /\ x \in Live /\ Follows(client[x], f) /\ ObjectOK(f)
      /\ f.state = client[x].state
  BY <1>1, ListensOK
<1>3. Becomes(x,
        IF client[x].state # "EXPECT_PROTO_VER" THEN SendError(f)
        ELSE CASE v = "too_new" -> SendMsg(o)
               [] v = "too_old" -> SendError(o)
               [] v = "v3" -> [SendMsg(o) EXCEPT !.state = "EXPECT_START_ENCRYPTION"]
               [] v = "v2" -> [SendMsg(o) EXCEPT !.state = "EXPECT_AUTH_RESPONSE"])
  BY DEF HandleMsgProtoVer
<1>4. Follows(f, o) BY <1>2, VerOK
<1>5. o.state = f.state BY <1>2 DEF ObjectOK, Objects
<1> HIDE DEF f, o
<1>6. ObjectOK(o) /\ Follows(client[x], o)
  BY <1>2, <1>4, FollowsTrans DEF Follows
<1>7. Follows(client[x], SendError(f)) BY <1>2, SendErrorOK, FollowsTrans
<1>8. Follows(client[x], SendError(o)) BY <1>6, SendErrorOK, FollowsTrans
<1>9. Follows(o, SendMsg(o)) /\ ObjectOK(SendMsg(o)) /\ Follows(client[x], SendMsg(o))
  BY <1>6, SendMsgOK, FollowsTrans DEF Follows
<1>10. ASSUME client[x].state = "EXPECT_PROTO_VER",
              NEW st \in {"EXPECT_START_ENCRYPTION", "EXPECT_AUTH_RESPONSE"}
       PROVE  Follows(client[x], [SendMsg(o) EXCEPT !.state = st])
  <2>1. SendMsg(o).state = "EXPECT_PROTO_VER"
    BY <1>2, <1>5, <1>6, <1>10 DEF SendMsg, ObjectOK, Objects
  <2>2. PhaseOf(SendMsg(o)) = "handshake" BY <2>1 DEF PhaseOf
  <2>3. st \in ConStates \ {"CONNECTED"} BY DEF ConStates
  <2>4. Follows(SendMsg(o), [SendMsg(o) EXCEPT !.state = st])
    BY <1>9, <2>2, <2>3, StateOK
  <2> QED BY <1>9, <2>4, FollowsTrans
<1>11. CASE client[x].state # "EXPECT_PROTO_VER"
  BY <1>2, <1>3, <1>7, <1>11, BecomesStays
<1>12. CASE client[x].state = "EXPECT_PROTO_VER"
  <2>1. CASE v = "too_new" BY <1>2, <1>3, <1>9, <1>12, <2>1, BecomesStays
  <2>2. CASE v = "too_old" BY <1>2, <1>3, <1>8, <1>12, <2>2, BecomesStays
  <2>3. CASE v = "v3" BY <1>2, <1>3, <1>10, <1>12, <2>3, BecomesStays
  <2>4. CASE v = "v2" BY <1>2, <1>3, <1>10, <1>12, <2>4, BecomesStays
  <2> QED BY <2>1, <2>2, <2>3, <2>4 DEF ProtoVers
<1> QED BY <1>11, <1>12

LEMMA HandleMsgCABundleRequestStep ==
  ASSUME IInv, NEW x \in Cons, HandleMsgCABundleRequest(x) PROVE Step(x)
<1>1. x \in Live /\ Follows(client[x], FrameIn(x)) /\ ObjectOK(FrameIn(x))
  BY ListensOK DEF HandleMsgCABundleRequest
<1>2. Follows(client[x], SendMsg(FrameIn(x))) BY <1>1, SendMsgOK, FollowsTrans
<1> QED BY <1>1, <1>2, BecomesStays, GoneLeaves DEF HandleMsgCABundleRequest

LEMMA HandleMsgStartEncryptionRequestStep ==
  ASSUME IInv, NEW x \in Cons, HandleMsgStartEncryptionRequest(x) PROVE Step(x)
<1> DEFINE o == SendMsg(FrameIn(x))
           p == [o EXCEPT !.state = "EXPECT_SSL_CON_READY"]
           q == [p EXCEPT !.tls = "pending"]
<1>1. /\ x \in Live /\ Follows(client[x], FrameIn(x)) /\ ObjectOK(FrameIn(x))
      /\ FrameIn(x).state = client[x].state
  BY ListensOK DEF HandleMsgStartEncryptionRequest
<1>2. CASE client[x].state = "EXPECT_START_ENCRYPTION"
  <2>1. Follows(client[x], o) /\ ObjectOK(o)
    BY <1>1, SendMsgOK, FollowsTrans DEF Follows
  <2>2. o.state = "EXPECT_START_ENCRYPTION"
    BY <1>1, <1>2 DEF SendMsg, ObjectOK, Objects
  <2>3. PhaseOf(o) = "handshake" BY <2>2 DEF PhaseOf
  <2> HIDE DEF o
  <2>4. Follows(o, p) BY <2>1, <2>3, StateOK DEF ConStates
  <2>5. Follows(p, q)
    <3>1. ObjectOK(p) BY <2>4 DEF Follows
    <3>2. "pending" \in TlsStates BY DEF TlsStates
    <3> HIDE DEF p
    <3> QED BY <3>1, <3>2, TlsOK
  <2>6. Follows(client[x], q) BY <2>1, <2>4, <2>5, FollowsTrans
  <2>7. Becomes(x, q)
    <3>1. Becomes(x, [o EXCEPT !.state = "EXPECT_SSL_CON_READY", !.tls = "pending"])
      BY <1>2 DEF HandleMsgStartEncryptionRequest, o
    <3> QED BY <3>1
  <2> QED BY <1>1, <2>6, <2>7, BecomesStays
<1>3. CASE client[x].state # "EXPECT_START_ENCRYPTION"
  BY <1>1, <1>3, GoneLeaves DEF HandleMsgStartEncryptionRequest
<1> QED BY <1>2, <1>3

LEMMA OnSslConnectionReadyStep ==
  ASSUME IInv, NEW x \in Cons, NEW hasCert \in BOOLEAN,
         NEW cs \in Callsigns \cup {NoCallsign}, OnSslConnectionReady(x, hasCert, cs)
  PROVE  Step(x)
<1>1. x \in Live /\ ObjectOK(client[x])
  BY LiveOK DEF OnSslConnectionReady
<1>2. CASE client[x].state # "EXPECT_SSL_CON_READY"
  BY <1>1, <1>2, GoneLeaves DEF OnSslConnectionReady
<1>3. CASE client[x].state = "EXPECT_SSL_CON_READY"
  <2>1. PhaseOf(client[x]) = "handshake" BY <1>3 DEF PhaseOf
  <2>2. CASE ~hasCert
    <3> DEFINE o == SendMsg(client[x])
               p == [o EXCEPT !.state = "EXPECT_CSR"]
               q == [p EXCEPT !.tls = "no_cert"]
    <3>1. Follows(client[x], o) /\ ObjectOK(o) BY <1>1, SendMsgOK DEF Follows
    <3>2. o.state = "EXPECT_SSL_CON_READY"
      BY <1>1, <1>3 DEF SendMsg, ObjectOK, Objects
    <3>3. PhaseOf(o) = "handshake" BY <3>2 DEF PhaseOf
    <3>4. Becomes(x, [o EXCEPT !.state = "EXPECT_CSR", !.tls = "no_cert"])
      BY <1>3, <2>2 DEF OnSslConnectionReady
    <3> HIDE DEF o
    <3>5. Follows(o, p) BY <3>1, <3>3, StateOK DEF ConStates
    <3>6. Follows(p, q)
      <4>1. ObjectOK(p) /\ "no_cert" \in TlsStates BY <3>5 DEF Follows, TlsStates
      <4> HIDE DEF p
      <4> QED BY <4>1, TlsOK
    <3>7. Follows(client[x], q) BY <3>1, <3>5, <3>6, FollowsTrans
    <3> QED BY <1>1, <3>4, <3>7, BecomesStays
  <2>3. CASE hasCert /\ cs = NoCallsign
    BY <1>1, <1>3, <2>3, GoneLeaves DEF OnSslConnectionReady
  <2>4. CASE hasCert /\ cs # NoCallsign
    <3> DEFINE o == [client[x] EXCEPT !.tls = "cert"]
    <3>1. ConnectionAuthenticated(x, o, cs)
      BY <1>3, <2>4 DEF OnSslConnectionReady
    <3>2. Follows(client[x], o) BY <1>1, TlsOK DEF TlsStates
    <3>3. o.state = client[x].state BY <1>1 DEF ObjectOK, Objects
    <3>4. PhaseOf(o) = "handshake" BY <1>3, <3>3 DEF PhaseOf
    <3> HIDE DEF o
    <3> QED BY <1>1, <2>1, <2>4, <3>1, <3>2, <3>4, AuthenticatedStep
  <2> QED BY <2>2, <2>3, <2>4
<1> QED BY <1>2, <1>3

LEMMA HandleMsgAuthResponseStep ==
  ASSUME IInv, NEW x \in Cons, NEW cs \in Callsigns \cup {NoCallsign},
         HandleMsgAuthResponse(x, cs)
  PROVE  Step(x)
<1>1. /\ x \in Live /\ Follows(client[x], FrameIn(x)) /\ ObjectOK(FrameIn(x))
      /\ PhaseOf(FrameIn(x)) = PhaseOf(client[x])
  BY ListensOK DEF HandleMsgAuthResponse
<1>2. Follows(client[x], SendError(FrameIn(x))) BY <1>1, SendErrorOK, FollowsTrans
<1>3. CASE client[x].state # "EXPECT_AUTH_RESPONSE" \/ cs = NoCallsign
  BY <1>1, <1>2, <1>3, BecomesStays DEF HandleMsgAuthResponse
<1>4. CASE client[x].state = "EXPECT_AUTH_RESPONSE" /\ cs # NoCallsign
  <2>1. PhaseOf(client[x]) = "handshake" BY <1>4 DEF PhaseOf
  <2>2. ConnectionAuthenticated(x, FrameIn(x), cs)
    BY <1>4 DEF HandleMsgAuthResponse
  <2> QED BY <1>1, <1>4, <2>1, <2>2, AuthenticatedStep
<1> QED BY <1>3, <1>4

LEMMA HandleMsgClientCsrStep ==
  ASSUME IInv, NEW x \in Cons, NEW answer, HandleMsgClientCsr(x, answer)
  PROVE  Step(x)
<1> DEFINE o == FrameIn(x)
           p == SendMsg(o)
<1>1. /\ x \in Live /\ Follows(client[x], o) /\ ObjectOK(o)
  BY ListensOK DEF HandleMsgClientCsr
<1>2. Becomes(x,
        IF o.state \notin {"CONNECTED", "EXPECT_CSR"} \/ answer = "refused"
          THEN SendError(o)
        ELSE IF answer = "cert" THEN [p EXCEPT !.state = "EXPECT_DISCONNECT"]
        ELSE IF o.state = "EXPECT_CSR" THEN [p EXCEPT !.state = "EXPECT_AUTH_RESPONSE"]
        ELSE o)
  BY DEF HandleMsgClientCsr
<1>3. p.state = o.state BY <1>1 DEF SendMsg, ObjectOK, Objects
<1> HIDE DEF o
<1>4. Follows(client[x], p) /\ ObjectOK(p)
  BY <1>1, SendMsgOK, FollowsTrans DEF Follows
<1> HIDE DEF p
<1>5. Follows(client[x], SendError(o)) BY <1>1, SendErrorOK, FollowsTrans
<1>6. Follows(client[x], [p EXCEPT !.state = "EXPECT_DISCONNECT"])
  <2>1. Follows(p, [p EXCEPT !.state = "EXPECT_DISCONNECT"])
    BY <1>4, StateOK DEF ConStates
  <2> QED BY <1>4, <2>1, FollowsTrans
<1>7. ASSUME o.state = "EXPECT_CSR"
      PROVE  Follows(client[x], [p EXCEPT !.state = "EXPECT_AUTH_RESPONSE"])
  <2>1. PhaseOf(p) = "handshake" BY <1>3, <1>7 DEF PhaseOf
  <2>2. Follows(p, [p EXCEPT !.state = "EXPECT_AUTH_RESPONSE"])
    BY <1>4, <2>1, StateOK DEF ConStates
  <2> QED BY <1>4, <2>2, FollowsTrans
<1>8. CASE o.state \notin {"CONNECTED", "EXPECT_CSR"} \/ answer = "refused"
  BY <1>1, <1>2, <1>5, <1>8, BecomesStays
<1>9. CASE o.state \in {"CONNECTED", "EXPECT_CSR"} /\ answer = "cert"
  BY <1>1, <1>2, <1>6, <1>9, BecomesStays
<1>10. CASE o.state = "EXPECT_CSR" /\ answer \notin {"refused", "cert"}
  BY <1>1, <1>2, <1>7, <1>10, BecomesStays
<1>11. CASE o.state = "CONNECTED" /\ answer \notin {"refused", "cert"}
  BY <1>1, <1>2, <1>11, BecomesStays
<1> QED BY <1>8, <1>9, <1>10, <1>11

LEMMA TcpFrameStep == ASSUME IInv, NEW x \in Cons, TcpFrame(x) PROVE Step(x)
<1>1. ASSUME NEW v \in ProtoVers, HandleMsgProtoVer(x, v) PROVE Step(x)
  BY <1>1, HandleMsgProtoVerStep
<1>2. CASE HandleMsgCABundleRequest(x) BY <1>2, HandleMsgCABundleRequestStep
<1>3. CASE HandleMsgStartEncryptionRequest(x)
  BY <1>3, HandleMsgStartEncryptionRequestStep
<1>4. ASSUME NEW cs \in Callsigns \cup {NoCallsign}, HandleMsgAuthResponse(x, cs)
      PROVE  Step(x)
  BY <1>4, HandleMsgAuthResponseStep
<1>5. ASSUME NEW answer \in {"refused", "cert", "none"}, HandleMsgClientCsr(x, answer)
      PROVE  Step(x)
  BY <1>5, HandleMsgClientCsrStep
<1>6. CASE OtherFrame(x) BY <1>6, ListensOK, BecomesStays DEF OtherFrame
<1>7. CASE MalformedFrame(x)
  <2>1. x \in Live /\ Follows(client[x], FrameIn(x)) /\ ObjectOK(FrameIn(x))
    BY <1>7, ListensOK DEF MalformedFrame
  <2>2. ObjectOK(client[x]) BY <2>1, LiveOK
  <2>3. Follows(client[x], SendError(client[x])) BY <2>2, SendErrorOK
  <2>4. Follows(client[x], SendError(FrameIn(x)))
    BY <2>1, SendErrorOK, FollowsTrans
  <2> QED BY <1>7, <2>1, <2>3, <2>4, BecomesStays DEF MalformedFrame
<1>8. CASE HandleMsgError(x) BY <1>8, GoneLeaves DEF HandleMsgError, Listens
<1> QED BY <1>1, <1>2, <1>3, <1>4, <1>5, <1>6, <1>7, <1>8 DEF TcpFrame

LEMMA RenewClientCertificateStep ==
  ASSUME IInv, NEW x \in Cons, RenewClientCertificate(x) PROVE Step(x)
<1>1. x \in Live /\ ObjectOK(client[x])
  BY LiveOK DEF RenewClientCertificate
<1>2. PICK sent \in BOOLEAN :
        Becomes(x, [IF sent THEN SendMsg(client[x]) ELSE client[x]
                      EXCEPT !.state = "EXPECT_DISCONNECT", !.tls = "renewed"])
  BY DEF RenewClientCertificate
<1> DEFINE o == IF sent THEN SendMsg(client[x]) ELSE client[x]
           p == [o EXCEPT !.state = "EXPECT_DISCONNECT"]
           q == [p EXCEPT !.tls = "renewed"]
<1>3. Follows(client[x], o) /\ ObjectOK(o)
  BY <1>1, SendMsgOK, FollowsSelf DEF Follows
<1>4. Becomes(x, [o EXCEPT !.state = "EXPECT_DISCONNECT", !.tls = "renewed"])
  BY <1>2
<1> HIDE DEF o
<1>5. Becomes(x, q) BY <1>4
<1>6. Follows(o, p) BY <1>3, StateOK DEF ConStates
<1>7. Follows(p, q)
  <2>1. ObjectOK(p) /\ "renewed" \in TlsStates BY <1>6 DEF Follows, TlsStates
  <2> HIDE DEF p
  <2> QED BY <2>1, TlsOK
<1>8. Follows(client[x], q) BY <1>3, <1>6, <1>7, FollowsTrans
<1> QED BY <1>1, <1>5, <1>8, BecomesStays

(***************************************************************************)
(* Datagrams                                                               *)
(***************************************************************************)
LEMMA DatagramStep ==
  ASSUME IInv, NEW x \in Live, NEW s \in Srcs, NEW inSequence,
         s \in SrcsOf[x] \/ (s \in DOMAIN srcMap /\ srcMap[s] = x),
         DatagramFrom(x, s, inSequence)
  PROVE  Step(x)
<1> DEFINE o == client[x]
           h == Heard(o, s, inSequence)
           q == [h EXCEPT !.src = s]
<1>1. ObjectOK(o) BY LiveOK
<1>2. Follows(o, h) /\ PhaseOf(h) = PhaseOf(o) /\ h \in Objects
  BY <1>1, HeardOK DEF Follows, ObjectOK
<1>3. CASE o.port = NoSrc /\ o.ver = "v3"
  <2>1. /\ client' = [client EXCEPT ![x] = q] /\ srcMap' = SrcEntered(x, s)
        /\ UNCHANGED callsignMap
    BY <1>3 DEF DatagramFrom, Heard
  <2> HIDE DEF h
  <2>2. q \in Objects BY <1>2, Zenon DEF Objects
  <2>3. /\ q.src = s /\ q.state = h.state /\ q.callsign = h.callsign
        /\ q.beating = h.beating /\ q.closing = h.closing /\ q.port = h.port
        /\ q.txCnt = h.txCnt /\ q.udpTxCnt = h.udpTxCnt
    BY <1>2 DEF Objects
  <2> HIDE DEF q
  <2>4. PhaseOf(q) = PhaseOf(h) BY <2>3 DEF PhaseOf
  <2>5. ObjectOK(q) BY <1>2, <2>2, <2>3, <2>4 DEF Follows, ObjectOK, Armed
  <2>6. q.callsign = o.callsign BY <1>2, <2>3 DEF Follows
  <2> QED BY <1>2, <2>1, <2>2, <2>3, <2>4, <2>5, <2>6 DEF Registers, Step
<1>4. CASE ~(o.port = NoSrc /\ o.ver = "v3")
  <2>1. Becomes(x, h) BY <1>4 DEF DatagramFrom, Heard
  <2> HIDE DEF h
  <2> QED BY <1>2, <2>1, BecomesStays
<1> QED BY <1>3, <1>4

LEMMA UdpDatagramStep ==
  ASSUME IInv, NEW x \in Cons, UdpDatagram(x) PROVE Step(x)
<1>1. \A s \in SrcsOf[x] : s \in Srcs BY ConstantAssumption
<1>2. ASSUME NEW s \in SrcsOf[x], NEW q \in BOOLEAN, V2Datagram(x, s, q)
      PROVE  Step(x)
  BY <1>1, <1>2, DatagramStep DEF V2Datagram, KnowsId
<1>3. ASSUME NEW s \in SrcsOf[x], V3Registration(x, s) PROVE Step(x)
  BY <1>1, <1>3, DatagramStep DEF V3Registration, KnowsId
<1>4. ASSUME NEW s \in Srcs, NEW q \in BOOLEAN, V3Datagram(x, s, q)
      PROVE  Step(x)
  <2>1. s \in DOMAIN srcMap /\ srcMap[s] = x /\ DatagramFrom(x, s, q)
    BY <1>4 DEF V3Datagram
  <2>2. x \in Live BY <2>1, ConstantAssumption DEF IInv, EntriesLive
  <2> QED BY <2>1, <2>2, DatagramStep
<1> QED BY <1>2, <1>3, <1>4 DEF UdpDatagram

LEMMA NextStep ==
  ASSUME IInv, Next PROVE (\E x \in Cons : Step(x)) \/ UNCHANGED vars
<1> SUFFICES ASSUME ~ \E s \in Srcs : DatagramForDeleted(s)
             PROVE  \E x \in Cons : Step(x)
  BY DEF DatagramForDeleted
<1>1. PICK x \in Cons :
        \/ ClientConnected(x)
        \/ TcpFrame(x)
        \/ \E cs \in Callsigns \cup {NoCallsign}, hasCert \in BOOLEAN :
             OnSslConnectionReady(x, hasCert, cs)
        \/ RenewClientCertificate(x)
        \/ UdpDatagram(x)
        \/ MsgSent(x)
        \/ UdpMsgSent(x)
        \/ HandleHeartbeat(x)
        \/ OnDiscTimeout(x)
        \/ RemoteClose(x)
  BY DEF Next
<1>2. x \in Live => ObjectOK(client[x]) BY LiveOK
<1>3. CASE ClientConnected(x) BY <1>3, ClientConnectedStep
<1>4. CASE TcpFrame(x) BY <1>4, TcpFrameStep
<1>5. CASE \E cs \in Callsigns \cup {NoCallsign}, hasCert \in BOOLEAN :
             OnSslConnectionReady(x, hasCert, cs)
  BY <1>5, OnSslConnectionReadyStep
<1>6. CASE RenewClientCertificate(x) BY <1>6, RenewClientCertificateStep
<1>7. CASE UdpDatagram(x) BY <1>7, UdpDatagramStep
<1>8. CASE MsgSent(x) BY <1>2, <1>8, SendMsgOK, BecomesStays DEF MsgSent
<1>9. CASE UdpMsgSent(x) BY <1>2, <1>9, SendUdpMsgOK, BecomesStays DEF UdpMsgSent
<1>10. CASE HandleHeartbeat(x)
  BY <1>2, <1>10, TickedOK, BecomesStays DEF HandleHeartbeat
<1>11. CASE OnDiscTimeout(x) BY <1>11, GoneLeaves DEF OnDiscTimeout
<1>12. CASE RemoteClose(x) BY <1>12, GoneLeaves DEF RemoteClose
<1> QED BY <1>1, <1>3, <1>4, <1>5, <1>6, <1>7, <1>8, <1>9, <1>10, <1>11, <1>12

-----------------------------------------------------------------------------
(***************************************************************************)
(* The invariant is kept by every kind of step                             *)
(***************************************************************************)
LEMMA InitOK == ASSUME Init PROVE IInv
<1>1. client \in [Cons -> Objects \cup {NoCon}] /\ Live = {} BY DEF Init, Live
<1>2. DOMAIN callsignMap = {} /\ DOMAIN srcMap = {} BY DEF Init
<1>3. NodeList = {} BY <1>1 DEF NodeList
<1>4. /\ callsignMap \in [DOMAIN callsignMap -> Cons]
      /\ srcMap \in [DOMAIN srcMap -> Cons \cup {NoCon}]
  BY <1>2 DEF Init
<1> QED BY <1>1, <1>2, <1>3, <1>4
        DEF IInv, TypeOK, ObjectsOK, CallsignsExact, EntriesLive

\* An object in place of another under the same callsign, or of none.
LEMMA Installed ==
  ASSUME IInv, NEW x \in Cons, NEW q \in Objects, ObjectOK(q),
         client' = [client EXCEPT ![x] = q],
         IF x \in Live THEN q.callsign = client[x].callsign ELSE q.callsign = NoCallsign,
         UNCHANGED callsignMap
  PROVE  /\ client' \in [Cons -> Objects \cup {NoCon}]
         /\ ObjectsOK' /\ CallsignsExact' /\ Live' = Live \cup {x}
<1>1. client' \in [Cons -> Objects \cup {NoCon}] BY DEF IInv, TypeOK
<1>2. client'[x] = q /\ \A y \in Cons : y # x => client'[y] = client[y]
  BY DEF IInv, TypeOK
<1>3. Live' = Live \cup {x} BY <1>2, ObjectAssumption DEF Live
<1>4. ObjectsOK'
  <2>1. ASSUME NEW y \in Live' PROVE ObjectOK(client'[y])
    <3>1. CASE y = x BY <1>2, <3>1
    <3>2. CASE y # x BY <1>2, <1>3, <2>1, <3>2, LiveOK DEF Live
    <3> QED BY <3>1, <3>2
  <2> QED BY <2>1 DEF ObjectsOK, ObjectOK, Armed, PhaseOf
<1>5. NodeList' = NodeList BY <1>2, <1>3 DEF NodeList, Live
<1>6. CallsignsExact' BY <1>2, <1>3, <1>5 DEF IInv, CallsignsExact, Live
<1> QED BY <1>1, <1>3, <1>4, <1>6

LEMMA NoCallsignOutside == ASSUME IInv PROVE NoCallsign \notin DOMAIN callsignMap
  BY ConstantAssumption DEF IInv, TypeOK

LEMMA LeavesOK == ASSUME IInv, NEW x \in Cons, Leaves(x) PROVE IInv' /\ Live' = Live \ {x}
<1> DEFINE cs == client[x].callsign
<1>1. x \in Live /\ client' = [client EXCEPT ![x] = NoCon]
      /\ callsignMap' = Restrict(callsignMap, DOMAIN callsignMap \ {cs})
      /\ srcMap' = WithoutObject(x, DOMAIN srcMap \ {client[x].src})
  BY DEF Leaves, Gone
<1>2. client'[x] = NoCon /\ \A y \in Cons : y # x => client'[y] = client[y]
  BY <1>1 DEF IInv, TypeOK
<1>3. Live' = Live \ {x} BY <1>2 DEF Live
<1>4. /\ DOMAIN callsignMap' = DOMAIN callsignMap \ {cs}
      /\ \A c \in DOMAIN callsignMap' : callsignMap'[c] = callsignMap[c]
      /\ DOMAIN srcMap' = DOMAIN srcMap \ {client[x].src}
      /\ \A s \in DOMAIN srcMap' :
           srcMap'[s] = IF srcMap[s] = x THEN NoCon ELSE srcMap[s]
  BY <1>1 DEF Restrict, WithoutObject
<1>5. TypeOK'
  <2>1. client' \in [Cons -> Objects \cup {NoCon}] BY <1>1 DEF IInv, TypeOK
  <2>2. callsignMap' \in [DOMAIN callsignMap' -> Cons]
    BY <1>1, <1>4 DEF IInv, TypeOK, Restrict
  <2>3. srcMap' \in [DOMAIN srcMap' -> Cons \cup {NoCon}]
    BY <1>1, <1>4 DEF IInv, TypeOK, WithoutObject
  <2> QED BY <1>4, <2>1, <2>2, <2>3 DEF IInv, TypeOK
<1>6. ObjectsOK'
  <2>1. ASSUME NEW y \in Live' PROVE ObjectOK(client'[y])
    BY <1>2, <1>3, <2>1, LiveOK DEF Live
  <2> QED BY <2>1 DEF ObjectsOK, ObjectOK, Armed, PhaseOf
<1>7. \A y \in Live \ {x} : client[y].callsign # NoCallsign => client[y].callsign # cs
  BY <1>1 DEF IInv, CallsignsExact
<1>8. NodeList' = NodeList \ {cs}
  BY <1>2, <1>3, <1>7 DEF NodeList, Live
<1>9. CallsignsExact'
  <2>1. DOMAIN callsignMap' = NodeList' BY <1>4, <1>8 DEF IInv, CallsignsExact
  <2>2. ASSUME NEW y \in Live', client'[y].callsign # NoCallsign
        PROVE  callsignMap'[client'[y].callsign] = y
    <3>1. y \in Live \ {x} /\ client'[y] = client[y]
      BY <1>2, <1>3 DEF Live
    <3>2. client[y].callsign \in NodeList \ {cs}
      BY <1>7, <2>2, <3>1 DEF NodeList
    <3>3. callsignMap'[client[y].callsign] = callsignMap[client[y].callsign]
      BY <1>4, <1>8, <2>1, <3>2
    <3> QED BY <2>2, <3>1, <3>3 DEF IInv, CallsignsExact
  <2> QED BY <2>1, <2>2 DEF CallsignsExact
<1>10. EntriesLive' BY <1>3, <1>4 DEF IInv, EntriesLive
<1> QED BY <1>3, <1>5, <1>6, <1>9, <1>10 DEF IInv

LEMMA LogsInOK == ASSUME IInv, NEW x \in Cons, LogsIn(x) PROVE IInv' /\ Live' = Live
<1>1. PICK q \in Objects, cs \in Callsigns \ NodeList :
        /\ ObjectOK(q) /\ PhaseOf(q) = "connected"
        /\ q.callsign = cs /\ q.src = client[x].src
        /\ client' = [client EXCEPT ![x] = q]
        /\ callsignMap' = [c \in DOMAIN callsignMap \cup {cs} |->
                             IF c = cs THEN x ELSE callsignMap[c]]
        /\ UNCHANGED srcMap
  BY DEF LogsIn
<1>2. x \in Live /\ client[x].callsign = NoCallsign
  BY LiveOK DEF LogsIn, ObjectOK
<1>3. client'[x] = q /\ \A y \in Cons : y # x => client'[y] = client[y]
  BY <1>1 DEF IInv, TypeOK
<1>4. Live' = Live BY <1>2, <1>3, ObjectAssumption DEF Live
<1>5. /\ DOMAIN callsignMap' = DOMAIN callsignMap \cup {cs} /\ callsignMap'[cs] = x
      /\ \A c \in DOMAIN callsignMap : c # cs => callsignMap'[c] = callsignMap[c]
  BY <1>1
<1>6. TypeOK'
  <2>1. client' \in [Cons -> Objects \cup {NoCon}] BY <1>1 DEF IInv, TypeOK
  <2>2. callsignMap' \in [DOMAIN callsignMap' -> Cons]
    BY <1>1, <1>5 DEF IInv, TypeOK
  <2> QED BY <1>1, <1>5, <2>1, <2>2 DEF IInv, TypeOK
<1>7. ObjectsOK'
  <2>1. ASSUME NEW y \in Live' PROVE ObjectOK(client'[y])
    <3>1. CASE y = x BY <1>1, <1>3, <3>1
    <3>2. CASE y # x BY <1>3, <1>4, <2>1, <3>2, LiveOK DEF Live
    <3> QED BY <3>1, <3>2
  <2> QED BY <2>1 DEF ObjectsOK, ObjectOK, Armed, PhaseOf
<1>8. cs # NoCallsign BY ConstantAssumption
<1>9. NodeList' = NodeList \cup {cs}
  BY <1>1, <1>2, <1>3, <1>4, <1>8 DEF NodeList, Live
<1>10. CallsignsExact'
  <2>1. DOMAIN callsignMap' = NodeList' BY <1>5, <1>9 DEF IInv, CallsignsExact
  <2>2. ASSUME NEW y \in Live', client'[y].callsign # NoCallsign
        PROVE  callsignMap'[client'[y].callsign] = y
    <3>1. CASE y = x BY <1>1, <1>3, <1>5, <3>1
    <3>2. CASE y # x
      <4>1. y \in Live /\ client'[y] = client[y] BY <1>3, <1>4, <3>2 DEF Live
      <4>2. client[y].callsign \in NodeList BY <2>2, <4>1 DEF NodeList
      <4>3. callsignMap'[client[y].callsign] = callsignMap[client[y].callsign]
        BY <1>1, <1>5, <4>2 DEF IInv, CallsignsExact
      <4> QED BY <2>2, <4>1, <4>3 DEF IInv, CallsignsExact
    <3> QED BY <3>1, <3>2
  <2> QED BY <2>1, <2>2 DEF CallsignsExact
<1> QED BY <1>1, <1>4, <1>6, <1>7, <1>10 DEF IInv, EntriesLive

LEMMA EntersOK ==
  ASSUME IInv, NEW x \in Cons, Enters(x) PROVE IInv' /\ Live' = Live \cup {x}
<1>1. /\ x \notin Live /\ client' = [client EXCEPT ![x] = NewObject]
      /\ UNCHANGED <<callsignMap, srcMap>>
  BY DEF Enters, Becomes
<1>2. NewObject \in Objects /\ ObjectOK(NewObject) /\ NewObject.callsign = NoCallsign
  BY NewObjectOK DEF ObjectOK
<1> HIDE DEF NewObject
<1>3. /\ client' \in [Cons -> Objects \cup {NoCon}]
      /\ ObjectsOK' /\ CallsignsExact' /\ Live' = Live \cup {x}
  BY <1>1, <1>2, Installed
<1> QED BY <1>1, <1>3 DEF IInv, TypeOK, EntriesLive

LEMMA StaysOK == ASSUME IInv, NEW x \in Cons, Stays(x) PROVE IInv' /\ Live' = Live
<1>1. PICK q \in Objects : Follows(client[x], q) /\ Becomes(x, q) BY DEF Stays
<1>2. x \in Live BY DEF Stays
<1>3. /\ client' = [client EXCEPT ![x] = q] /\ UNCHANGED <<callsignMap, srcMap>>
      /\ ObjectOK(q) /\ q.callsign = client[x].callsign
  BY <1>1 DEF Becomes, Follows
<1>4. /\ client' \in [Cons -> Objects \cup {NoCon}]
      /\ ObjectsOK' /\ CallsignsExact' /\ Live' = Live \cup {x}
  BY <1>2, <1>3, Installed
<1> QED BY <1>2, <1>3, <1>4 DEF IInv, TypeOK, EntriesLive

LEMMA RegistersOK == ASSUME IInv, NEW x \in Cons, Registers(x) PROVE IInv' /\ Live' = Live
<1>1. PICK q \in Objects, s \in Srcs :
        /\ ObjectOK(q) /\ q.callsign = client[x].callsign
        /\ client' = [client EXCEPT ![x] = q]
        /\ srcMap' = SrcEntered(x, s)
        /\ UNCHANGED callsignMap
  BY DEF Registers
<1>2. x \in Live BY DEF Registers
<1>3. /\ client' \in [Cons -> Objects \cup {NoCon}]
      /\ ObjectsOK' /\ CallsignsExact' /\ Live' = Live \cup {x}
  BY <1>1, <1>2, Installed
<1>4. DOMAIN srcMap' = DOMAIN srcMap \cup {s}
      /\ srcMap' \in [DOMAIN srcMap' -> Cons \cup {NoCon}]
      /\ \A t \in DOMAIN srcMap' : srcMap'[t] = IF t = s THEN x ELSE srcMap[t]
  BY <1>1 DEF SrcEntered, IInv, TypeOK
<1>5. EntriesLive' BY <1>2, <1>3, <1>4 DEF IInv, EntriesLive
<1> QED BY <1>1, <1>2, <1>3, <1>4, <1>5 DEF IInv, TypeOK

LEMMA StepOK == ASSUME IInv, NEW x \in Cons, Step(x) PROVE IInv'
  BY EntersOK, StaysOK, LeavesOK, LogsInOK, RegistersOK DEF Step

LEMMA StutterOK == ASSUME IInv, UNCHANGED vars PROVE IInv'
  BY DEF IInv, TypeOK, ObjectsOK, CallsignsExact, EntriesLive, Live, NodeList, vars

LEMMA InvariantOK == Spec => []IInv
<1>1. Init => IInv BY InitOK
<1>2. IInv /\ [Next]_vars => IInv' BY NextStep, StepOK, StutterOK
<1> QED BY <1>1, <1>2, PTL DEF Spec

(***************************************************************************)
(* The timers of every client object agree with its state: onDiscTimeout   *)
(* finds its assertion true, and a client that is supervised is sent       *)
(* heartbeats (TimersSound).                                               *)
(***************************************************************************)
THEOREM TimersAlwaysSound == Spec => []TimersSound
<1>1. IInv => TimersSound
  BY DEF IInv, ObjectsOK, ObjectOK, Armed, TimersSound, DiscTimerExpected, KeepaliveArmed
<1> QED BY <1>1, InvariantOK, PTL

-----------------------------------------------------------------------------
(***************************************************************************)
(* Sources                                                                 *)
(***************************************************************************)

\* No two nodes send from the same source.
SourcesApart == \A x, y \in Cons : x # y => SrcsOf[x] \cap SrcsOf[y] = {}

\* An entry leads to the connection of the node the source belongs to, and
\* the object has registered a source of that node.
EntriesOwn ==
    \A s \in DOMAIN srcMap : srcMap[s] # NoCon =>
      s \in SrcsOf[srcMap[s]] /\ client[srcMap[s]].src \in SrcsOf[srcMap[s]]

SourcesOK == EntriesOwn /\ SrcFindsClient /\ DeletedLeaveNoSource

LEMMA EnteredOK ==
  ASSUME SourcesApart, IInv, SourcesOK, NEW x \in Cons, Registers(x)
  PROVE  SourcesOK'
<1>1. PICK q \in Objects, s \in Srcs :
        /\ s \in SrcsOf[x] \/ (s \in DOMAIN srcMap /\ srcMap[s] = x)
        /\ q.src = s
        /\ client' = [client EXCEPT ![x] = q]
        /\ srcMap' = SrcEntered(x, s)
  BY DEF Registers
<1>2. /\ DOMAIN srcMap' = DOMAIN srcMap \cup {s} /\ srcMap'[s] = x
      /\ \A t \in DOMAIN srcMap : t # s => srcMap'[t] = srcMap[t]
  BY <1>1 DEF SrcEntered
<1>3. x # NoCon /\ s \in SrcsOf[x]
  BY <1>1, ConstantAssumption DEF SourcesOK, EntriesOwn
<1>4. client'[x] = q /\ \A y \in Cons : y # x => client'[y] = client[y]
  BY <1>1 DEF IInv, TypeOK
<1>5. EntriesOwn'
  <2>1. ASSUME NEW t \in DOMAIN srcMap', srcMap'[t] # NoCon
        PROVE  /\ t \in SrcsOf[srcMap'[t]]
               /\ client'[srcMap'[t]].src \in SrcsOf[srcMap'[t]]
    <3>1. CASE t = s BY <1>1, <1>2, <1>3, <1>4, <3>1
    <3>2. CASE t # s
      <4>1. /\ t \in DOMAIN srcMap /\ srcMap'[t] = srcMap[t] /\ srcMap[t] \in Cons
            /\ t \in SrcsOf[srcMap[t]] /\ client[srcMap[t]].src \in SrcsOf[srcMap[t]]
        BY <1>2, <2>1, <3>2 DEF IInv, TypeOK, SourcesOK, EntriesOwn
      <4> QED BY <1>1, <1>3, <1>4, <4>1
    <3> QED BY <3>1, <3>2
  <2> QED BY <2>1 DEF EntriesOwn
<1>6. ASSUME NEW y \in Live', client'[y].src # NoSrc
      PROVE  client'[y].src \in DOMAIN srcMap' /\ srcMap'[client'[y].src] = y
  <2>1. CASE y = x BY <1>1, <1>2, <1>4, <2>1
  <2>2. CASE y # x
    <3>1. y \in Live /\ y \in Cons /\ client'[y] = client[y] /\ y # NoCon
      BY <1>4, <2>2, ConstantAssumption DEF Live
    <3> DEFINE t == client[y].src
    <3>2. t \in DOMAIN srcMap /\ srcMap[t] = y
      BY <1>6, <3>1 DEF SourcesOK, SrcFindsClient
    <3>3. t \in SrcsOf[y] BY <3>1, <3>2 DEF SourcesOK, EntriesOwn
    <3>4. t # s BY <1>3, <2>2, <3>1, <3>3 DEF SourcesApart
    <3> QED BY <1>2, <3>1, <3>2, <3>4
  <2> QED BY <2>1, <2>2
<1>7. DeletedLeaveNoSource'
  BY <1>2, <1>3 DEF SourcesOK, DeletedLeaveNoSource
<1> QED BY <1>5, <1>6, <1>7 DEF SourcesOK, SrcFindsClient

LEMMA SourcesKept ==
  ASSUME SourcesApart, IInv, SourcesOK, NEW x \in Cons, Step(x) PROVE SourcesOK'
<1>1. ASSUME NEW q, client' = [client EXCEPT ![x] = q], UNCHANGED srcMap,
             q.src = IF x \in Live THEN client[x].src ELSE NoSrc
      PROVE  SourcesOK'
  <2>1. client'[x] = q /\ \A y \in Cons : y # x => client'[y] = client[y]
    BY <1>1 DEF IInv, TypeOK
  <2>2. ASSUME NEW y \in Live', client'[y].src # NoSrc
        PROVE  client'[y].src \in DOMAIN srcMap' /\ srcMap'[client'[y].src] = y
    <3>1. y \in Live /\ client'[y].src = client[y].src
      BY <1>1, <2>1, <2>2 DEF Live
    <3> QED BY <1>1, <2>2, <3>1 DEF SourcesOK, SrcFindsClient
  <2>3. EntriesOwn'
    <3>1. ASSUME NEW t \in DOMAIN srcMap, srcMap[t] # NoCon
          PROVE  client'[srcMap[t]].src = client[srcMap[t]].src
      BY <1>1, <2>1, <3>1 DEF IInv, TypeOK, EntriesLive
    <3> QED BY <1>1, <3>1 DEF SourcesOK, EntriesOwn
  <2>4. DeletedLeaveNoSource' BY <1>1 DEF SourcesOK, DeletedLeaveNoSource
  <2> QED BY <2>2, <2>3, <2>4 DEF SourcesOK, SrcFindsClient
<1>2. CASE Enters(x)
  BY <1>1, <1>2, NewObjectOK DEF Enters, Becomes
<1>3. CASE Stays(x)
  <2>1. PICK q \in Objects : Follows(client[x], q) /\ Becomes(x, q)
    BY <1>3 DEF Stays
  <2> QED BY <1>1, <1>3, <2>1 DEF Stays, Follows, Becomes
<1>4. CASE LogsIn(x)
  <2>1. PICK q \in Objects : /\ q.src = client[x].src
                             /\ client' = [client EXCEPT ![x] = q]
    BY <1>4 DEF LogsIn
  <2> QED BY <1>1, <1>4, <2>1 DEF LogsIn
<1>5. CASE Registers(x) BY <1>5, EnteredOK
<1>6. CASE Leaves(x)
  <2>1. /\ client' = [client EXCEPT ![x] = NoCon] /\ x \in Live
        /\ srcMap' = WithoutObject(x, DOMAIN srcMap \ {client[x].src})
    BY <1>6 DEF Leaves, Gone
  <2>2. client'[x] = NoCon /\ \A y \in Cons : y # x => client'[y] = client[y]
    BY <2>1 DEF IInv, TypeOK
  <2>3. /\ DOMAIN srcMap' = DOMAIN srcMap \ {client[x].src}
        /\ \A s \in DOMAIN srcMap' :
             srcMap'[s] = IF srcMap[s] = x THEN NoCon ELSE srcMap[s]
    BY <2>1 DEF WithoutObject
  <2>4. EntriesOwn'
    BY <2>2, <2>3 DEF SourcesOK, EntriesOwn, IInv, TypeOK
  <2>5. ASSUME NEW y \in Live', client'[y].src # NoSrc
        PROVE  client'[y].src \in DOMAIN srcMap' /\ srcMap'[client'[y].src] = y
    <3>1. y \in Live /\ y # x /\ client'[y] = client[y] BY <2>2, <2>5 DEF Live
    <3>2. client[y].src \in DOMAIN srcMap /\ srcMap[client[y].src] = y
      BY <2>5, <3>1 DEF SourcesOK, SrcFindsClient
    <3>3. client[y].src # client[x].src
      <4>1. CASE client[x].src = NoSrc BY <2>5, <3>1, <4>1
      <4>2. CASE client[x].src # NoSrc
        BY <2>1, <3>1, <3>2, <4>2 DEF SourcesOK, SrcFindsClient
      <4> QED BY <4>1, <4>2
    <3> QED BY <2>3, <3>1, <3>2, <3>3
  <2>6. ASSUME NEW s \in DOMAIN srcMap', srcMap'[s] = NoCon, NEW y \in Cons
        PROVE  SrcsOf[y] # {s}
    <3>1. CASE srcMap[s] = NoCon
      BY <2>3, <3>1 DEF SourcesOK, DeletedLeaveNoSource
    <3>2. CASE srcMap[s] = x
      <4>1. x # NoCon /\ s # client[x].src BY <2>3, ConstantAssumption
      <4>2. s \in SrcsOf[x] /\ client[x].src \in SrcsOf[x]
        BY <2>3, <3>2, <4>1 DEF SourcesOK, EntriesOwn
      <4> QED BY <4>1, <4>2 DEF SourcesApart
    <3> QED BY <2>3, <2>6, <3>1, <3>2
  <2> QED BY <2>4, <2>5, <2>6 DEF SourcesOK, SrcFindsClient, DeletedLeaveNoSource
<1> QED BY <1>2, <1>3, <1>4, <1>5, <1>6 DEF Step

LEMMA SourcesAlwaysOK == ASSUME SourcesApart PROVE Spec => []SourcesOK
<1>1. Init => SourcesOK
  BY DEF Init, SourcesOK, EntriesOwn, SrcFindsClient, DeletedLeaveNoSource, Live
<1>2. IInv /\ SourcesOK /\ [Next]_vars => SourcesOK'
  <2>1. ASSUME SourcesOK, UNCHANGED vars PROVE SourcesOK'
    BY <2>1 DEF SourcesOK, EntriesOwn, SrcFindsClient, DeletedLeaveNoSource, Live, vars
  <2>2. ASSUME IInv, SourcesOK, Next PROVE SourcesOK'
    BY <2>1, <2>2, NextStep, SourcesKept
  <2> QED BY <2>1, <2>2
<1> QED BY <1>1, <1>2, InvariantOK, PTL DEF Spec

(***************************************************************************)
(* If no two nodes send from the same source, both maps always lead to the *)
(* right client objects (MapsSound): nobody is found under the callsign or *)
(* the source of another, also while a client is given up but not yet gone *)
(* and while entries of old sources are left behind; and nodes with one    *)
(* source each may register, be given up, register again and reconnect in  *)
(* any order without leaving an entry that leads to a deleted object.      *)
(***************************************************************************)
THEOREM MapsAlwaysSound == ASSUME SourcesApart PROVE Spec => []MapsSound
<1>1. IInv /\ SourcesOK => MapsSound BY DEF IInv, SourcesOK, MapsSound
<1> QED BY <1>1, SourcesAlwaysOK, InvariantOK, PTL

-----------------------------------------------------------------------------
(***************************************************************************)
(* The login                                                               *)
(***************************************************************************)
LEMMA PhaseIs ==
  /\ Phase = [x \in Cons |-> IF x \notin Live THEN "none" ELSE PhaseOf(client[x])]
  /\ Phase' = [x \in Cons |-> IF x \notin Live' THEN "none" ELSE PhaseOf(client'[x])]
  BY DEF Phase, PhaseOf

LEMMA NameIs ==
  /\ Name = [x \in Cons |-> IF x \in Live THEN client[x].callsign ELSE NoCallsign]
  /\ Name' = [x \in Cons |-> IF x \in Live' THEN client'[x].callsign ELSE NoCallsign]
  BY DEF Name

\* A step of x leaves phase and name of the others alone.
LEMMA Mapped ==
  ASSUME IInv, NEW x \in Cons, NEW o, o # NoCon, client' = [client EXCEPT ![x] = o]
  PROVE  /\ Phase' = [Phase EXCEPT ![x] = PhaseOf(o)]
         /\ Name' = [Name EXCEPT ![x] = o.callsign]
<1>1. client'[x] = o /\ \A y \in Cons : y # x => client'[y] = client[y]
  BY DEF IInv, TypeOK
<1>2. x \in Live' /\ \A y \in Cons : y # x => (y \in Live' <=> y \in Live)
  BY <1>1 DEF Live
<1>3. Phase' = [Phase EXCEPT ![x] = PhaseOf(o)] BY <1>1, <1>2, PhaseIs
<1>4. Name' = [Name EXCEPT ![x] = o.callsign] BY <1>1, <1>2, NameIs
<1> QED BY <1>3, <1>4

LEMMA MappedGone ==
  ASSUME IInv, NEW x \in Cons, client' = [client EXCEPT ![x] = NoCon]
  PROVE  /\ Phase' = [Phase EXCEPT ![x] = "none"]
         /\ Name' = [Name EXCEPT ![x] = NoCallsign]
<1>1. client'[x] = NoCon /\ \A y \in Cons : y # x => client'[y] = client[y]
  BY DEF IInv, TypeOK
<1>2. x \notin Live' /\ \A y \in Cons : y # x => (y \in Live' <=> y \in Live)
  BY <1>1 DEF Live
<1>3. Phase' = [Phase EXCEPT ![x] = "none"] BY <1>1, <1>2, PhaseIs
<1>4. Name' = [Name EXCEPT ![x] = NoCallsign] BY <1>1, <1>2, NameIs
<1> QED BY <1>3, <1>4

LEMMA StepSimulation ==
  ASSUME IInv, NEW x \in Cons, Step(x) PROVE NL!Next \/ UNCHANGED NL!vars
<1>1. /\ Phase \in [Cons -> {"none", "handshake", "connected", "closing"}]
      /\ Phase[x] = IF x \notin Live THEN "none" ELSE PhaseOf(client[x])
      /\ DOMAIN Name = Cons
      /\ \A y \in Cons : Name[y] = IF y \in Live THEN client[y].callsign
                                                 ELSE NoCallsign
  BY PhaseIs DEF PhaseOf, Name
<1>2. CASE Enters(x)
  <2>1. x \notin Live /\ client' = [client EXCEPT ![x] = NewObject]
    BY <1>2 DEF Enters, Becomes
  <2>2. /\ NewObject # NoCon /\ PhaseOf(NewObject) = "handshake"
        /\ NewObject.callsign = NoCallsign
    BY NewObjectOK, ObjectAssumption DEF ObjectOK
  <2> HIDE DEF NewObject
  <2>3. /\ Phase' = [Phase EXCEPT ![x] = "handshake"]
        /\ Name' = [Name EXCEPT ![x] = NoCallsign]
    BY <2>1, <2>2, Mapped
  <2>4. Name' = Name BY <2>1, <2>3, NameIs
  <2>5. NL!Open(x) BY <1>1, <2>1, <2>3, <2>4 DEF NL!Open
  <2> QED BY <2>5 DEF NL!Next
<1>3. CASE Stays(x)
  <2>1. PICK q \in Objects : Follows(client[x], q) /\ Becomes(x, q)
    BY <1>3 DEF Stays
  <2>2. x \in Live /\ client' = [client EXCEPT ![x] = q] /\ q # NoCon
    BY <1>3, <2>1, ObjectAssumption DEF Stays, Becomes
  <2>3. /\ Phase' = [Phase EXCEPT ![x] = PhaseOf(q)]
        /\ Name' = [Name EXCEPT ![x] = q.callsign]
    BY <2>2, Mapped
  <2>4. Name' = Name BY <2>1, <2>2, <2>3, NameIs DEF Follows
  <2>5. CASE PhaseOf(q) = Phase[x]
    <3>1. Phase' = Phase BY <1>1, <2>3, <2>5
    <3> QED BY <2>4, <3>1 DEF NL!vars
  <2>6. CASE PhaseOf(q) # Phase[x]
    <3>1. PhaseOf(q) = "closing" /\ Phase[x] \in {"handshake", "connected"}
      BY <1>1, <2>1, <2>2, <2>6 DEF Follows, PhaseOf
    <3>2. NL!GiveUp(x) BY <2>3, <2>4, <3>1 DEF NL!GiveUp
    <3> QED BY <3>2 DEF NL!Next
  <2> QED BY <2>5, <2>6
<1>4. CASE Leaves(x)
  <2>1. x \in Live /\ client' = [client EXCEPT ![x] = NoCon]
    BY <1>4 DEF Leaves, Gone
  <2>2. /\ Phase' = [Phase EXCEPT ![x] = "none"]
        /\ Name' = [Name EXCEPT ![x] = NoCallsign]
    BY <2>1, MappedGone
  <2>3. Phase[x] # "none" BY <1>1, <2>1 DEF PhaseOf
  <2>4. NL!Gone(x) BY <2>2, <2>3 DEF NL!Gone
  <2> QED BY <2>4 DEF NL!Next
<1>5. CASE LogsIn(x)
  <2>1. PICK q \in Objects, cs \in Callsigns \ NodeList :
          /\ PhaseOf(q) = "connected" /\ q.callsign = cs
          /\ client' = [client EXCEPT ![x] = q]
    BY <1>5 DEF LogsIn
  <2>2. x \in Live /\ PhaseOf(client[x]) = "handshake" /\ q # NoCon
    BY <1>5, ObjectAssumption DEF LogsIn
  <2>3. /\ Phase' = [Phase EXCEPT ![x] = "connected"]
        /\ Name' = [Name EXCEPT ![x] = cs]
    BY <2>1, <2>2, Mapped
  <2>4. \A y \in Cons : Name[y] # cs
    BY <1>1, <2>1, ConstantAssumption DEF NodeList
  <2>5. NL!Login(x, cs) BY <1>1, <2>2, <2>3, <2>4 DEF NL!Login
  <2> QED BY <2>1, <2>5 DEF NL!Next
<1>6. CASE Registers(x)
  <2>1. PICK q \in Objects :
          /\ PhaseOf(q) = PhaseOf(client[x]) /\ q.callsign = client[x].callsign
          /\ client' = [client EXCEPT ![x] = q]
    BY <1>6 DEF Registers
  <2>2. x \in Live /\ q # NoCon BY <1>6, ObjectAssumption DEF Registers
  <2>3. /\ Phase' = [Phase EXCEPT ![x] = PhaseOf(q)]
        /\ Name' = [Name EXCEPT ![x] = q.callsign]
    BY <2>1, <2>2, Mapped
  <2>4. Phase' = Phase BY <2>1, <2>2, <2>3, PhaseIs
  <2>5. Name' = Name BY <2>1, <2>2, <2>3, NameIs
  <2> QED BY <2>4, <2>5 DEF NL!vars
<1> QED BY <1>2, <1>3, <1>4, <1>5, <1>6 DEF Step

(***************************************************************************)
(* ReflectorClient implements NodeLogin: however frames, datagrams, timers *)
(* and broken connections interleave, a connection goes through its phases *)
(* in order, and it logs in with a callsign only if no other connection,   *)
(* not even one that is on its way out, has it.                            *)
(***************************************************************************)
THEOREM ImplementsNodeLogin == Spec => NodeLoginSpec
<1>1. Init => NL!Init
  <2> SUFFICES ASSUME Init PROVE NL!Init OBVIOUS
  <2>1. Live = {} BY DEF Init, Live
  <2> QED BY <2>1 DEF NL!Init, Phase, Name
<1>2. IInv /\ [Next]_vars => [NL!Next]_(NL!vars)
  <2>1. ASSUME UNCHANGED vars PROVE UNCHANGED NL!vars
    <3>1. Live' = Live BY <2>1 DEF Live, vars
    <3> QED BY <2>1, <3>1 DEF NL!vars, Phase, Name, vars
  <2>2. ASSUME IInv, Next PROVE NL!Next \/ UNCHANGED NL!vars
    BY <2>1, <2>2, NextStep, StepSimulation
  <2> QED BY <2>1, <2>2
<1> QED BY <1>1, <1>2, InvariantOK, PTL DEF Spec, NodeLoginSpec, NL!Spec
=============================================================================
