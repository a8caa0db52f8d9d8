--------------------------- MODULE NodeTalkGroups ---------------------------
(***************************************************************************)
(* How a node selects its talk group: the part of ReflectorLogic           *)
(* (svxlink/svxlink/ReflectorLogic.cpp) driven by commands, by local       *)
(* activity, by talkers and QSY requests from the reflector, and by its    *)
(* timers, together with the view the reflector has of the node.           *)
(*                                                                         *)
(* The node and the reflector talk over TCP: two FIFO queues that are lost *)
(* with the connection.  The login itself is in NodeSession.tla; here it   *)
(* is three phases.  Time is the one second timer of the talk group        *)
(* selection; the QSY timer counts the same seconds.                       *)
(***************************************************************************)
EXTENDS Integers, Sequences, FiniteSets

CONSTANTS
    TGs,                        \* talk groups
    NoTG,                       \* talk group 0
    MonitorPrio,                \* MONITOR_TGS: monitored talk group -> priority
    DefaultTGs,                 \* values of DEFAULT_TG the node may start with
    TG_SELECT_TIMEOUT,
    TG_SELECT_INHIBIT_TIMEOUT,
    QSY_PENDING_TIMEOUT,        \* 0 when disabled
    TMP_MONITOR_TIMEOUT,
    MUTE_FIRST_TX_LOC,
    MUTE_FIRST_TX_REM,
    MaxUplink,                  \* bound: messages to the reflector in flight
    MaxDownlink                 \* bound: messages to the node in flight

ASSUME ConfigAssumption ==
    /\ NoTG \notin TGs
    /\ DOMAIN MonitorPrio \subseteq TGs /\ MonitorPrio \in [DOMAIN MonitorPrio -> Nat]
    /\ DefaultTGs \subseteq TGs \cup {NoTG}
    /\ TG_SELECT_TIMEOUT \in Nat \ {0}
    /\ {TG_SELECT_INHIBIT_TIMEOUT, QSY_PENDING_TIMEOUT, TMP_MONITOR_TIMEOUT,
        MaxUplink, MaxDownlink} \subseteq Nat
    /\ {MUTE_FIRST_TX_LOC, MUTE_FIRST_TX_REM} \subseteq BOOLEAN

VARIABLES
    node,       \* the selection state of the node
    tmp,        \* temporary monitors: talk group -> seconds left
    link,       \* "down", "auth" (logged in on TCP) or "connected" (UDP as well)
    uplink,     \* messages to the reflector
    downlink,   \* messages to the node
    srv,        \* the reflector's view of the node
    part        \* history: has the user taken part in the selected talk group?

vars == <<node, tmp, link, uplink, downlink, srv, part>>

Max2(a, b) == IF a < b THEN b ELSE a

Nodes == [default   : DefaultTGs,          \* m_default_tg
          sel       : TGs \cup {NoTG},  \* m_selected_tg
          lastQsy   : TGs \cup {NoTG},  \* m_last_qsy
          cnt       : 0..Max2(1 + QSY_PENDING_TIMEOUT,
                              Max2(TG_SELECT_TIMEOUT, TG_SELECT_INHIBIT_TIMEOUT)),
          qsy       : 0..(1 + QSY_PENDING_TIMEOUT), \* 0 stopped, 1 expired, else running
          local     : BOOLEAN,          \* m_tg_local_activity
          usePrio   : BOOLEAN,          \* m_use_prio
          valve     : BOOLEAN,          \* m_logic_con_in_valve is open, or absent
          inIdle    : BOOLEAN,          \* nobody transmits on the local logic
          outIdle   : BOOLEAN]          \* no audio from the reflector

HasValve == MUTE_FIRST_TX_LOC \/ MUTE_FIRST_TX_REM

Idle == node.inIdle /\ node.outIdle

Monitored == DOMAIN MonitorPrio \cup DOMAIN tmp

PrioOf(tg) == IF tg \in DOMAIN MonitorPrio THEN MonitorPrio[tg] ELSE 0

TypeOK ==
    /\ node \in Nodes
    /\ DOMAIN tmp \subseteq TGs \ DOMAIN MonitorPrio
    /\ tmp \in [DOMAIN tmp -> 1..TMP_MONITOR_TIMEOUT]
    /\ link \in {"down", "auth", "connected"}
    /\ link = "down" => uplink = <<>> /\ downlink = <<>>
    /\ srv \in [tg : TGs \cup {NoTG}, mon : SUBSET TGs]
    /\ part \in {"no", "first", "again"}

Init ==
    /\ \E tg \in DefaultTGs :
       node = [default |-> tg, sel |-> NoTG, lastQsy |-> NoTG, cnt |-> 0, qsy |-> 0,
               local |-> FALSE, usePrio |-> TRUE, valve |-> ~HasValve,
               inIdle |-> TRUE, outIdle |-> TRUE]
    /\ tmp = <<>>
    /\ link = "down" /\ uplink = <<>> /\ downlink = <<>>
    /\ srv = [tg |-> NoTG, mon |-> {}]
    /\ part = "no"

-----------------------------------------------------------------------------
(***************************************************************************)
(* selectTg.  The message to the reflector is sent when the selection      *)
(* changes, which every caller leaves to Becomes.                          *)
(***************************************************************************)
\* Mutant: a talk group that is selected leaves the QSY timer running.
TgChangedKeepsTimer(n, tg) ==
    [n EXCEPT !.sel = tg,
              !.local = tg # NoTG /\ ~n.inIdle,
              !.usePrio = @ \/ tg = NoTG]

TgChanged(n, tg) ==
    [n EXCEPT !.sel = tg,
              !.local = tg # NoTG /\ ~n.inIdle,
              !.usePrio = @ \/ tg = NoTG,
              !.qsy = IF tg = NoTG THEN @ ELSE 0]

SelectTg(n, tg, unmute) ==
    [(IF tg = n.sel THEN n ELSE TgChanged(n, tg)) EXCEPT
        !.cnt = IF tg = NoTG THEN 0 ELSE TG_SELECT_TIMEOUT,
        !.valve = unmute \/ ~HasValve]

(***************************************************************************)
(* sendMsg drops messages of a node that is not logged in.                 *)
(***************************************************************************)
Sent(ms) == IF link = "down" THEN uplink ELSE uplink \o ms

SelectMsg(tg) == [type |-> "SelectTG", tg |-> tg]
MonitorMsg(mon) == [type |-> "TgMonitor", mon |-> mon]

\* There is room for k more messages; it bounds users, talkers and logins only.
Room(k) == Len(uplink) + k <= MaxUplink

Becomes(n) ==
    /\ node' = n
    /\ uplink' = Sent(IF n.sel = node.sel THEN <<>> ELSE <<SelectMsg(n.sel)>>)
    /\ UNCHANGED <<tmp, link, srv>>

\* The history after a step that is not the user's.
PartKept == part' = IF node'.sel = node.sel THEN part ELSE "no"

-----------------------------------------------------------------------------
(***************************************************************************)
(* Commands from a logic (remoteCmdReceived): select a talk group or none, *)
(* which the previous one is too; follow the last QSY; monitor for a time. *)
(* A QSY request (command 2) is a message without effect on the node.      *)
(***************************************************************************)
SelectedByUser(tg) ==
    [SelectTg(node, tg, TRUE) EXCEPT !.local = TRUE, !.usePrio = FALSE]

Command ==
    /\ Room(1)
    /\ \E tg \in TGs \cup {NoTG} : Becomes(SelectedByUser(tg))
    /\ part' = IF node'.sel = NoTG THEN "no" ELSE "again"
    /\ UNCHANGED downlink

FollowLastQsy ==
    /\ Room(1)
    /\ node.lastQsy \notin {NoTG, node.sel}
    /\ Becomes(SelectedByUser(node.lastQsy))
    /\ part' = "again"
    /\ UNCHANGED downlink

TmpMonitor(tg) ==
    /\ TMP_MONITOR_TIMEOUT > 0 /\ tg \notin DOMAIN MonitorPrio
    /\ Room(1)
    /\ tmp' = [t \in DOMAIN tmp \cup {tg} |->
                 IF t = tg THEN TMP_MONITOR_TIMEOUT ELSE tmp[t]]
    /\ uplink' = IF tg \in DOMAIN tmp THEN uplink
                 ELSE Sent(<<MonitorMsg(Monitored \cup {tg})>>)
    /\ UNCHANGED <<node, link, downlink, srv, part>>

(***************************************************************************)
(* The receiver of a logic detected the tone of a talk group, or a squelch *)
(* opening without one (remoteReceivedTgUpdated).                          *)
(***************************************************************************)
ReceivedTgUpdated(tg) ==
    /\ Room(1)
    /\ node.sel = NoTG /\ node.cnt = 0
    /\ Becomes([SelectTg(node, tg, tg # NoTG /\ ~MUTE_FIRST_TX_LOC) EXCEPT
                  !.cnt = IF tg = NoTG THEN TG_SELECT_INHIBIT_TIMEOUT ELSE @,
                  !.local = ~MUTE_FIRST_TX_LOC, !.usePrio = FALSE])
    /\ PartKept
    /\ UNCHANGED downlink

(***************************************************************************)
(* A local transmission begins or ends (onLogicConInStreamIsIdle).         *)
(***************************************************************************)
TxBegun(n) ==
    [n EXCEPT !.qsy = IF @ = 0 THEN 0 ELSE 1 + QSY_PENDING_TIMEOUT,
              !.local = TRUE,
              !.usePrio = FALSE,
              !.cnt = IF n.sel # NoTG THEN TG_SELECT_TIMEOUT
                      ELSE IF @ > 0 THEN TG_SELECT_INHIBIT_TIMEOUT ELSE @]

\* Mutant: the valve is opened only when the talk group is selected.
UnmutedNever(n) == n

Unmuted(n) == [n EXCEPT !.valve = @ \/ n.local]

DefaultSelected(n) ==
    IF n.cnt = 0 /\ n.default # NoTG
      THEN SelectTg(n, n.default, ~MUTE_FIRST_TX_LOC)
      ELSE n

TransmissionBegins ==
    /\ Room(1)
    /\ node.inIdle
    /\ Becomes(TxBegun(DefaultSelected(Unmuted([node EXCEPT !.inIdle = FALSE]))))
    /\ part' = IF node'.sel = NoTG THEN "no"
               ELSE IF node'.sel # node.sel \/ part = "no" THEN "first"
               ELSE "again"
    /\ UNCHANGED downlink

TransmissionEnds ==
    /\ Room(1)
    /\ ~node.inIdle
    /\ LET n == [node EXCEPT !.inIdle = TRUE]
       IN  Becomes(IF n.qsy = 0 THEN n
                   ELSE [SelectTg(n, n.lastQsy, TRUE) EXCEPT
                           !.qsy = 0, !.local = TRUE, !.usePrio = FALSE])
    /\ PartKept
    /\ UNCHANGED downlink

(***************************************************************************)
(* Audio from the reflector starts, pauses, or ends                        *)
(* (onLogicConOutStreamStateChanged).                                      *)
(***************************************************************************)
OutStreamChanged(idle) ==
    /\ node.outIdle => ~idle
    /\ Becomes([node EXCEPT !.outIdle = idle,
                            !.cnt = IF ~idle /\ @ > 0 THEN TG_SELECT_TIMEOUT ELSE @])
    /\ UNCHANGED <<downlink, part>>

-----------------------------------------------------------------------------
(***************************************************************************)
(* Timers.  The selection timer counts only while nobody talks.            *)
(***************************************************************************)
\* Mutant: the counter is decremented before the idle tests.
TimeCountedFirst(n) ==
    IF n.cnt = 0 THEN n
    ELSE IF n.cnt = 1 /\ n.inIdle /\ n.outIdle THEN SelectTg(n, NoTG, FALSE)
    ELSE [n EXCEPT !.cnt = @ - 1]

TimeCounted(n) ==
    IF n.cnt = 0 \/ ~(n.inIdle /\ n.outIdle) THEN n
    ELSE IF n.cnt = 1 THEN SelectTg(n, NoTG, FALSE)
    ELSE [n EXCEPT !.cnt = @ - 1]

TgSelectTimerExpired ==
    /\ node.qsy # 1
    /\ Becomes([TimeCounted(node) EXCEPT !.qsy = IF @ > 1 THEN @ - 1 ELSE @])
    /\ PartKept
    /\ UNCHANGED downlink

QsyPendingTimeout ==
    /\ node.qsy = 1
    /\ Becomes([node EXCEPT !.qsy = 0, !.usePrio = TRUE, !.cnt = 0])
    /\ UNCHANGED <<downlink, part>>

CheckTmpMonitorTimeout ==
    /\ tmp # <<>>
    /\ LET left == {t \in DOMAIN tmp : tmp[t] > 1}
       IN  /\ tmp' = [t \in left |-> tmp[t] - 1]
           /\ uplink' = IF left = DOMAIN tmp THEN uplink
                        ELSE Sent(<<MonitorMsg(DOMAIN MonitorPrio \cup left)>>)
    /\ UNCHANGED <<node, link, downlink, srv, part>>

-----------------------------------------------------------------------------
(***************************************************************************)
(* Messages from the reflector.                                            *)
(***************************************************************************)
Received(type) == /\ downlink # <<>> /\ Head(downlink).type = type
                  /\ downlink' = Tail(downlink)

\* Mutant: local activity is not regarded.
SwitchesAlways(tg) == tg \in Monitored /\ PrioOf(tg) > PrioOf(node.sel)

Switches(tg) ==
    node.usePrio /\ tg \in Monitored /\ PrioOf(tg) > PrioOf(node.sel)

HandleMsgTalkerStart ==
    /\ Room(1)
    /\ Received("TalkerStart")
    /\ LET tg == Head(downlink).tg
       IN  Becomes(IF node.cnt = 0 \/ Switches(tg)
                     THEN SelectTg(node, tg, ~MUTE_FIRST_TX_REM)
                     ELSE node)
    /\ PartKept

\* A timer that is running is not started anew (Timer::setEnable).
HandleMsgRequestQsy ==
    /\ Room(1)
    /\ Received("RequestQsy")
    /\ LET tg == Head(downlink).tg
           left == [SelectTg(node, NoTG, FALSE) EXCEPT !.lastQsy = tg]
       IN  Becomes(IF node.local THEN SelectTg(node, tg, TRUE)
                   ELSE IF QSY_PENDING_TIMEOUT > 0
                     THEN [left EXCEPT !.qsy = IF @ = 0 THEN 1 + QSY_PENDING_TIMEOUT
                                               ELSE @,
                                       !.usePrio = FALSE,
                                       !.cnt = 1 + QSY_PENDING_TIMEOUT]
                   ELSE [left EXCEPT !.usePrio = TRUE])
    /\ PartKept

(***************************************************************************)
(* The connection: the reflector makes a new client object for each login  *)
(* and the first UDP heartbeat completes it (end of udpDatagramReceived).  *)
(***************************************************************************)
LoginOnTcp ==
    /\ link = "down"
    /\ link' = "auth" /\ srv' = [tg |-> NoTG, mon |-> {}]
    /\ UNCHANGED <<node, tmp, uplink, downlink, part>>

\* Mutant: only the selected talk group is told.
LoginMsgsNoMonitor == IF node.sel = NoTG THEN <<>> ELSE <<SelectMsg(node.sel)>>

LoginMsgs ==
    (IF node.sel = NoTG THEN <<>> ELSE <<SelectMsg(node.sel)>>) \o
    (IF Monitored = {} THEN <<>> ELSE <<MonitorMsg(Monitored)>>)

UdpVerified ==
    /\ link = "auth"
    /\ Room(2)
    /\ link' = "connected" /\ uplink' = uplink \o LoginMsgs
    /\ UNCHANGED <<node, tmp, downlink, srv, part>>

ConnectionLost ==
    /\ link # "down"
    /\ link' = "down" /\ uplink' = <<>> /\ downlink' = <<>>
    /\ UNCHANGED <<node, tmp, srv, part>>

(***************************************************************************)
(* The reflector's side: handleSelectTG, handleTgMonitor, and what it      *)
(* tells nodes in or monitoring a talk group.  A talk group that is        *)
(* refused to a node is in Reflector.tla.                                  *)
(***************************************************************************)
ServerReceives ==
    /\ uplink # <<>>
    /\ LET m == Head(uplink)
       IN  srv' = IF m.type = "SelectTG" THEN [srv EXCEPT !.tg = m.tg]
                  ELSE [srv EXCEPT !.mon = m.mon]
    /\ uplink' = Tail(uplink)
    /\ UNCHANGED <<node, tmp, link, downlink, part>>

ServerTells(m) ==
    /\ link # "down" /\ Len(downlink) < MaxDownlink
    /\ downlink' = Append(downlink, m)
    /\ UNCHANGED <<node, tmp, link, uplink, srv, part>>

ServerTellsTalker ==
    \E tg \in (srv.mon \cup {srv.tg}) \ {NoTG} :
        ServerTells([type |-> "TalkerStart", tg |-> tg])

ServerRequestsQsy ==
    /\ srv.tg # NoTG
    /\ \E tg \in TGs : ServerTells([type |-> "RequestQsy", tg |-> tg])

-----------------------------------------------------------------------------
Next ==
    \/ Command
    \/ FollowLastQsy
    \/ \E tg \in TGs : TmpMonitor(tg)
    \/ \E tg \in TGs \cup {NoTG} : ReceivedTgUpdated(tg)
    \/ TransmissionBegins
    \/ TransmissionEnds
    \/ \E idle \in BOOLEAN : OutStreamChanged(idle)
    \/ TgSelectTimerExpired
    \/ QsyPendingTimeout
    \/ CheckTmpMonitorTimeout
    \/ HandleMsgTalkerStart
    \/ HandleMsgRequestQsy
    \/ LoginOnTcp
    \/ UdpVerified
    \/ ConnectionLost
    \/ ServerReceives
    \/ ServerTellsTalker
    \/ ServerRequestsQsy

Spec == Init /\ [][Next]_vars

(***************************************************************************)
(* The event loop serves the timers of the node.  TCP, the users and the   *)
(* reflector owe nothing.                                                  *)
(***************************************************************************)
FairSpec == Spec /\ WF_vars(TgSelectTimerExpired) /\ WF_vars(QsyPendingTimeout)

-----------------------------------------------------------------------------
(***************************************************************************)
(* A talk group is never selected without a running time-out, and a QSY is *)
(* pending only while none is selected: neither the QSY timer nor a second *)
(* counted at the wrong moment strands the node on a talk group.           *)
(***************************************************************************)
TimersMatchSelection ==
    /\ node.sel # NoTG => node.cnt > 0
    /\ node.qsy > 0 => node.sel = NoTG

(***************************************************************************)
(* After local activity on the selected talk group, no talker on another   *)
(* one makes the node leave it, whatever its priority.                     *)
(***************************************************************************)
LocalChoiceKept ==
    [][HandleMsgTalkerStart /\ part # "no" => node'.sel = node.sel]_vars

(***************************************************************************)
(* Only the first transmission after a selection may be muted: whoever     *)
(* transmits again, or has selected the talk group by command, is heard.   *)
(***************************************************************************)
HeardAfterFirst == part = "again" /\ ~node.inIdle => node.valve

(***************************************************************************)
(* When the node is connected and no message is in flight, the reflector   *)
(* has it in the talk group it selected, and has its monitors, whatever    *)
(* was selected or expired while the connection was down or half way up.   *)
(***************************************************************************)
ServerAgrees ==
    link = "connected" /\ uplink = <<>> =>
        srv = [tg |-> node.sel, mon |-> Monitored]

(***************************************************************************)
(* A node that nobody talks through and nobody commands returns to no talk *)
(* group, whatever talkers the reflector announces.                        *)
(***************************************************************************)
IdleNodeLeaves ==
    <>[]Idle /\ <>[][~(Command \/ FollowLastQsy \/ HandleMsgRequestQsy)]_vars
        => []<>(node.sel = NoTG)
=============================================================================
