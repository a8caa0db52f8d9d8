------------------------ MODULE NodeTalkGroups_proofs ------------------------
(***************************************************************************)
(* Proofs about the talk group selection of a node, for any talk groups,   *)
(* priorities, time-outs and default talk groups, and whatever number of   *)
(* messages is in flight.                                                  *)
(***************************************************************************)
EXTENDS NodeTalkGroups, SequenceTheorems, TLAPS

AnyTG == TGs \cup {NoTG}

SelectMsgs == [type : {"SelectTG"}, tg : AnyTG]
MonitorMsgs == [type : {"TgMonitor"}, mon : SUBSET TGs]
Uplinks == Seq(SelectMsgs \cup MonitorMsgs)
Downlinks == Seq([type : {"TalkerStart", "RequestQsy"}, tg : TGs])

(***************************************************************************)
(* A node with its types, and with timers that match its selection.        *)
(***************************************************************************)
Timed(n) == /\ n.sel # NoTG => n.cnt > 0
            /\ n.qsy > 0 => n.sel = NoTG

NodeOK(n) == n \in Nodes /\ Timed(n)

CntMax == Max2(1 + QSY_PENDING_TIMEOUT, Max2(TG_SELECT_TIMEOUT, TG_SELECT_INHIBIT_TIMEOUT))

(***************************************************************************)
(* The time-outs are values of the counter.                                *)
(***************************************************************************)
LEMMA Bounds ==
  /\ CntMax \in Nat
  /\ TG_SELECT_TIMEOUT \in 1 .. CntMax
  /\ TG_SELECT_INHIBIT_TIMEOUT \in 0 .. CntMax
  /\ QSY_PENDING_TIMEOUT \in Nat /\ 1 + QSY_PENDING_TIMEOUT \in 1 .. CntMax
  /\ MUTE_FIRST_TX_LOC \in BOOLEAN /\ MUTE_FIRST_TX_REM \in BOOLEAN
  /\ HasValve \in BOOLEAN
  BY ConfigAssumption DEF CntMax, Max2, HasValve

(***************************************************************************)
(* The types of the fields that the handlers compute with.                 *)
(***************************************************************************)
LEMMA FieldTypes ==
  ASSUME NEW n, NodeOK(n)
  PROVE  /\ n.sel \in AnyTG /\ n.lastQsy \in AnyTG
         /\ n.cnt \in 0 .. CntMax /\ n.qsy \in 0 .. (1 + QSY_PENDING_TIMEOUT)
         /\ n.cnt \in Nat /\ n.qsy \in Nat
         /\ n.local \in BOOLEAN /\ n.usePrio \in BOOLEAN /\ n.valve \in BOOLEAN
<1>1. n \in Nodes
  BY DEF NodeOK
<1>2. /\ n.sel \in AnyTG /\ n.lastQsy \in AnyTG
      /\ n.cnt \in 0 .. CntMax /\ n.qsy \in 0 .. (1 + QSY_PENDING_TIMEOUT)
      /\ n.local \in BOOLEAN /\ n.usePrio \in BOOLEAN /\ n.valve \in BOOLEAN
  BY <1>1 DEF Nodes, AnyTG, CntMax
<1>3. QED
  BY <1>2, Bounds

(***************************************************************************)
(* What selectTg does to a node.                                           *)
(***************************************************************************)
LEMMA SelectTgOK ==
  ASSUME NEW n, NodeOK(n), NEW tg \in AnyTG, NEW unmute \in BOOLEAN
  PROVE  LET m == SelectTg(n, tg, unmute)
         IN  /\ NodeOK(m) /\ m.sel = tg
             /\ m.inIdle = n.inIdle /\ m.outIdle = n.outIdle /\ m.default = n.default
             /\ m.lastQsy = n.lastQsy
             /\ unmute => m.valve
             /\ tg = n.sel => m.local = n.local /\ m.usePrio = n.usePrio
             /\ tg # NoTG => m.cnt = TG_SELECT_TIMEOUT
<1> DEFINE m == SelectTg(n, tg, unmute)
           k == IF tg = n.sel THEN n ELSE TgChanged(n, tg)
           c == IF tg = NoTG THEN 0 ELSE TG_SELECT_TIMEOUT
           v == unmute \/ ~HasValve
<1>1. n \in Nodes /\ Timed(n) /\ n.inIdle \in BOOLEAN /\ n.usePrio \in BOOLEAN
  BY DEF NodeOK, Nodes
<1>2. /\ k \in Nodes /\ k.sel = tg
      /\ k.inIdle = n.inIdle /\ k.outIdle = n.outIdle /\ k.default = n.default
      /\ k.lastQsy = n.lastQsy
      /\ tg = n.sel => k.local = n.local /\ k.usePrio = n.usePrio
      /\ tg # NoTG => k.qsy = 0
  <2>1. CASE tg = n.sel
    BY <1>1, <2>1 DEF Timed, Nodes
  <2>2. CASE tg # n.sel
    <3> DEFINE l == tg # NoTG /\ ~n.inIdle
               u == n.usePrio \/ tg = NoTG
               q == IF tg = NoTG THEN n.qsy ELSE 0
    <3>1. l \in BOOLEAN /\ u \in BOOLEAN /\ q \in 0 .. (1 + QSY_PENDING_TIMEOUT)
      BY <1>1, Bounds DEF Nodes
    <3>2. k = [n EXCEPT !.sel = tg, !.local = l, !.usePrio = u, !.qsy = q]
      BY <2>2 DEF TgChanged
    <3>3. tg # NoTG => q = 0
      OBVIOUS
    <3> HIDE DEF l, u, q, k
    <3>4. QED
      BY <1>1, <2>2, <3>1, <3>2, <3>3 DEF Nodes, AnyTG
  <2>3. QED
    BY <2>1, <2>2
<1>3. m = [k EXCEPT !.cnt = c, !.valve = v]
  BY DEF SelectTg
<1>4. /\ c \in 0 .. CntMax /\ v \in BOOLEAN /\ (unmute => v)
      /\ tg # NoTG => c = TG_SELECT_TIMEOUT /\ c > 0
  BY Bounds
<1> HIDE DEF m, k, c, v
<1>5. /\ m \in Nodes /\ m.cnt = c /\ m.valve = v /\ m.sel = k.sel
      /\ m.inIdle = k.inIdle /\ m.outIdle = k.outIdle /\ m.default = k.default
      /\ m.lastQsy = k.lastQsy /\ m.local = k.local /\ m.usePrio = k.usePrio
      /\ m.qsy = k.qsy
  BY <1>2, <1>3, <1>4 DEF Nodes, CntMax
<1>6. Timed(m)
  <2>1. m.qsy \in Int
    BY <1>5, Bounds DEF Nodes
  <2>2. QED
    BY <1>2, <1>4, <1>5, <2>1 DEF Timed
<1>7. QED
  BY <1>2, <1>4, <1>5, <1>6 DEF NodeOK, m

-----------------------------------------------------------------------------
(***************************************************************************)
(* The node leaves its talk group for none.                                *)
(***************************************************************************)
LEMMA LeaveOK ==
  ASSUME NEW n, NodeOK(n)
  PROVE  LET m == SelectTg(n, NoTG, FALSE)
         IN  NodeOK(m) /\ m.sel = NoTG /\ m.inIdle = n.inIdle
<1> DEFINE u == FALSE
<1>1. u \in BOOLEAN /\ NoTG \in AnyTG
  BY DEF AnyTG
<1> HIDE DEF u
<1>2. LET m == SelectTg(n, NoTG, u)
      IN  NodeOK(m) /\ m.sel = NoTG /\ m.inIdle = n.inIdle
  BY <1>1, SelectTgOK
<1>3. QED
  BY <1>2 DEF u

(***************************************************************************)
(* After the messages q, of which none is m or its like unless m is the    *)
(* last of them, the reflector knows m; now says whether it knows already. *)
(***************************************************************************)
After(q, m, now) ==
    \/ \E i \in 1 .. Len(q) :
         q[i] = m /\ \A j \in i + 1 .. Len(q) : q[j].type # m.type
    \/ now /\ \A j \in 1 .. Len(q) : q[j].type # m.type

(***************************************************************************)
(* Without messages in flight the reflector knows what it knows.           *)
(***************************************************************************)
LEMMA AfterNone == ASSUME NEW m, NEW now \in BOOLEAN PROVE After(<<>>, m, now) <=> now
  BY DEF After

(***************************************************************************)
(* A message that is sent is known in the end, and changes nothing about   *)
(* messages of another type.                                               *)
(***************************************************************************)
LEMMA AfterSent ==
  ASSUME NEW q \in Uplinks, NEW a \in SelectMsgs \cup MonitorMsgs, NEW m, NEW now \in BOOLEAN
  PROVE  LET r == q \o <<a>>
         IN  /\ r \in Uplinks
             /\ a = m => After(r, m, now)
             /\ a.type # m.type /\ After(q, m, now) => After(r, m, now)
<1> DEFINE r == q \o <<a>>
<1>1. /\ r \in Uplinks /\ Len(r) = Len(q) + 1 /\ r[Len(q) + 1] = a
      /\ \A j \in 1 .. Len(q) : r[j] = q[j]
      /\ Len(q) \in Nat
  BY DEF Uplinks
<1> HIDE DEF r
<1>2. ASSUME a = m PROVE After(r, m, now)
  BY <1>1, <1>2 DEF After
<1>3. ASSUME a.type # m.type, After(q, m, now) PROVE After(r, m, now)
  <2>1. CASE now /\ \A j \in 1 .. Len(q) : q[j].type # m.type
    <3>1. \A j \in 1 .. Len(r) : r[j].type # m.type
      BY <1>1, <1>3, <2>1
    <3>2. QED
      BY <2>1, <3>1 DEF After
  <2>2. ASSUME NEW i \in 1 .. Len(q),
               q[i] = m, \A j \in i + 1 .. Len(q) : q[j].type # m.type
        PROVE  After(r, m, now)
    <3>1. i \in 1 .. Len(r) /\ r[i] = m
      BY <1>1, <2>2
    <3>2. \A j \in i + 1 .. Len(r) : r[j].type # m.type
      BY <1>1, <1>3, <2>2
    <3>3. QED
      BY <3>1, <3>2 DEF After
  <2>3. QED
    BY <1>3, <2>1, <2>2 DEF After
<1>4. QED
  BY <1>1, <1>2, <1>3 DEF r

(***************************************************************************)
(* The reflector receives a message.                                       *)
(***************************************************************************)
LEMMA AfterReceived ==
  ASSUME NEW q \in Uplinks, q # <<>>, NEW m, NEW now \in BOOLEAN, After(q, m, now)
  PROVE  /\ Head(q) \in SelectMsgs \cup MonitorMsgs /\ Tail(q) \in Uplinks
         /\ After(Tail(q), m, IF Head(q).type = m.type THEN Head(q) = m ELSE now)
<1> DEFINE r == Tail(q)
           then == IF Head(q).type = m.type THEN Head(q) = m ELSE now
<1>1. /\ r \in Uplinks /\ Len(r) = Len(q) - 1 /\ Len(q) \in Nat \ {0}
      /\ \A j \in 1 .. Len(r) : r[j] = q[j + 1]
      /\ Head(q) = q[1] /\ Head(q) \in SelectMsgs \cup MonitorMsgs
  BY HeadTailProperties DEF Uplinks
<1> HIDE DEF r
<1>2. CASE now /\ \A j \in 1 .. Len(q) : q[j].type # m.type
  <2>1. \A j \in 1 .. Len(r) : r[j].type # m.type
    BY <1>1, <1>2
  <2>2. then
    BY <1>1, <1>2
  <2>3. QED
    BY <1>1, <2>1, <2>2 DEF After, r
<1>3. ASSUME NEW i \in 1 .. Len(q), q[i] = m, \A j \in i + 1 .. Len(q) : q[j].type # m.type
      PROVE  After(r, m, then)
  <2>1. \A j \in 1 .. Len(r) : j > i - 1 => r[j].type # m.type
    BY <1>1, <1>3
  <2>2. CASE i = 1
    <3>1. then
      BY <1>1, <1>3, <2>2
    <3>2. QED
      BY <2>1, <2>2, <3>1 DEF After
  <2>3. CASE i > 1
    <3>1. i - 1 \in 1 .. Len(r) /\ r[i - 1] = m
      BY <1>1, <1>3, <2>3
    <3>2. \A j \in (i - 1) + 1 .. Len(r) : r[j].type # m.type
      BY <1>1, <2>1, <2>3
    <3> HIDE DEF then
    <3>3. QED
      BY <3>1, <3>2 DEF After
  <2>4. QED
    BY <2>2, <2>3
<1>4. QED
  BY <1>1, <1>2, <1>3 DEF After, r

-----------------------------------------------------------------------------
(***************************************************************************)
(* The inductive invariant: types, timers that match the selection, what   *)
(* the history says of the node, and what the reflector will know when all *)
(* messages in flight have arrived.  While the node is logged in on TCP    *)
(* only, that is nothing but that nothing is selected or monitored: the    *)
(* rest is told by the messages that end the login.                        *)
(***************************************************************************)
Types ==
    /\ NodeOK(node)
    /\ DOMAIN tmp \subseteq TGs \ DOMAIN MonitorPrio
    /\ tmp \in [DOMAIN tmp -> 1 .. TMP_MONITOR_TIMEOUT]
    /\ link \in {"down", "auth", "connected"}
    /\ uplink \in Uplinks /\ downlink \in Downlinks
    /\ link = "down" => uplink = <<>> /\ downlink = <<>>
    /\ srv \in [tg : AnyTG, mon : SUBSET TGs]
    /\ part \in {"no", "first", "again"}

Chosen == part # "no" => node.sel # NoTG /\ node.local /\ ~node.usePrio

SelectionKnown == After(uplink, SelectMsg(node.sel), srv.tg = node.sel)
MonitorsKnown == After(uplink, MonitorMsg(Monitored), srv.mon = Monitored)

Known ==
    /\ link = "connected" \/ (link = "auth" /\ node.sel = NoTG) => SelectionKnown
    /\ link = "connected" \/ (link = "auth" /\ Monitored = {}) => MonitorsKnown

Inv == Types /\ Chosen /\ HeardAfterFirst /\ Known

(***************************************************************************)
(* The properties of NodeTalkGroups.tla that follow from the invariant.    *)
(***************************************************************************)
LEMMA InvProperties == Inv => TypeOK /\ TimersMatchSelection /\ HeardAfterFirst /\ ServerAgrees
<1> SUFFICES ASSUME Inv PROVE TypeOK /\ TimersMatchSelection /\ ServerAgrees
  BY DEF Inv
<1>1. TypeOK
  BY DEF Inv, Types, TypeOK, NodeOK, AnyTG
<1>2. TimersMatchSelection
  BY DEF Inv, Types, NodeOK, Timed, TimersMatchSelection
<1>3. ASSUME link = "connected", uplink = <<>>
      PROVE  srv = [tg |-> node.sel, mon |-> Monitored]
  <2>1. srv.tg = node.sel /\ srv.mon = Monitored
    BY <1>3, AfterNone DEF Inv, Known, SelectionKnown, MonitorsKnown
  <2>2. QED
    BY <2>1 DEF Inv, Types
<1>4. QED
  BY <1>1, <1>2, <1>3 DEF ServerAgrees

(***************************************************************************)
(* The invariant holds initially.                                          *)
(***************************************************************************)
LEMMA InitInv == Init => Inv
<1> SUFFICES ASSUME Init PROVE Inv
  OBVIOUS
<1>1. NodeOK(node)
  BY Bounds, ConfigAssumption DEF Init, NodeOK, Nodes, Timed, CntMax
<1>2. tmp \in [DOMAIN tmp -> 1 .. TMP_MONITOR_TIMEOUT] /\ DOMAIN tmp = {}
  BY DEF Init
<1>3. uplink \in Uplinks /\ downlink \in Downlinks
  BY EmptySeq DEF Init, Uplinks, Downlinks
<1>4. QED
  BY <1>1, <1>2, <1>3 DEF Init, Inv, Types, Chosen, HeardAfterFirst, Known, AnyTG

(***************************************************************************)
(* A handler that gives the node another state, with the message that      *)
(* selectTg sends, keeps the reflector informed.                           *)
(***************************************************************************)
LEMMA BecomesKnown ==
  ASSUME Types, Known, NEW n, NodeOK(n), Becomes(n)
  PROVE  /\ uplink' \in Uplinks /\ (link' = "down" => uplink' = <<>>)
         /\ Known'
<1>1. /\ node' = n /\ link' = link /\ srv' = srv /\ tmp' = tmp /\ Monitored' = Monitored
      /\ uplink' = Sent(IF n.sel = node.sel THEN <<>> ELSE <<SelectMsg(n.sel)>>)
  BY DEF Becomes, Monitored
<1>2. n.sel \in AnyTG /\ node.sel \in AnyTG
  BY DEF Types, NodeOK, Nodes, AnyTG
<1>3. CASE link = "down"
  BY <1>1, <1>3 DEF Sent, Types, Known
<1>4. CASE link # "down" /\ n.sel = node.sel
  <2>1. uplink' = uplink
    BY <1>1, <1>4 DEF Sent, Types, Uplinks
  <2>2. QED
    BY <1>1, <1>4, <2>1 DEF Types, Known, SelectionKnown, MonitorsKnown
<1>5. CASE link # "down" /\ n.sel # node.sel
  <2> DEFINE a == SelectMsg(n.sel)
  <2>1. uplink' = uplink \o <<a>>
    BY <1>1, <1>5 DEF Sent
  <2>2. a \in SelectMsgs /\ a.type = "SelectTG"
    BY <1>2 DEF SelectMsg, SelectMsgs
  <2>3. MonitorMsg(Monitored).type = "TgMonitor"
    BY DEF MonitorMsg
  <2> HIDE DEF a
  <2>4. uplink' \in Uplinks /\ After(uplink', a, (srv.tg = n.sel))
    BY <2>1, <2>2, AfterSent DEF Types
  <2>5. MonitorsKnown => MonitorsKnown'
    <3> DEFINE m == MonitorMsg(Monitored)
               now == srv.mon = Monitored
    <3>1. now \in BOOLEAN /\ m.type = "TgMonitor"
      BY <2>3
    <3> HIDE DEF m, now
    <3>2. After(uplink, m, now) => After(uplink', m, now)
      BY <2>1, <2>2, <3>1, AfterSent DEF Types
    <3>3. MonitorsKnown = After(uplink, m, now)
      BY DEF MonitorsKnown, m, now
    <3>4. MonitorsKnown' = After(uplink', m, now)
      BY <1>1 DEF MonitorsKnown, m, now, MonitorMsg
    <3>5. QED
      BY <3>2, <3>3, <3>4
  <2>6. SelectionKnown'
    BY <1>1, <2>4 DEF SelectionKnown, a
  <2>7. QED
    BY <1>1, <1>5, <2>4, <2>5, <2>6 DEF Known
<1>6. QED
  BY <1>3, <1>4, <1>5

(***************************************************************************)
(* What is left to show of such a handler.                                 *)
(***************************************************************************)
LEMMA BecomesInv ==
  ASSUME Inv, NEW n, NodeOK(n), Becomes(n),
         downlink' \in Downlinks, link = "down" => downlink' = <<>>,
         part' \in {"no", "first", "again"},
         part' # "no" => n.sel # NoTG /\ n.local /\ ~n.usePrio,
         part' = "again" /\ ~n.inIdle => n.valve
  PROVE  Inv'
<1>1. /\ uplink' \in Uplinks /\ (link' = "down" => uplink' = <<>>)
      /\ Known'
  BY BecomesKnown DEF Inv
<1>2. node' = n /\ link' = link /\ srv' = srv /\ tmp' = tmp
  BY DEF Becomes
<1>3. QED
  BY <1>1, <1>2 DEF Inv, Types, Chosen, HeardAfterFirst

-----------------------------------------------------------------------------
(***************************************************************************)
(* The user takes part: the talk group is the one that was chosen here.    *)
(***************************************************************************)
LEMMA TakesPartOK ==
  ASSUME NEW m, NodeOK(m)
  PROVE  LET n == [m EXCEPT !.local = TRUE, !.usePrio = FALSE]
         IN  /\ NodeOK(n) /\ n.local /\ ~n.usePrio
             /\ n.sel = m.sel /\ n.valve = m.valve /\ n.inIdle = m.inIdle /\ n.cnt = m.cnt
  BY DEF NodeOK, Nodes, Timed

(***************************************************************************)
(* A talk group is selected by a command: a new one, none, or the last QSY.*)
(***************************************************************************)
LEMMA SelectedByUserOK ==
  ASSUME Inv, NEW tg \in AnyTG
  PROVE  LET n == SelectedByUser(tg)
         IN  NodeOK(n) /\ n.sel = tg /\ n.local /\ ~n.usePrio /\ n.valve
<1> DEFINE m == SelectTg(node, tg, TRUE)
<1>1. NodeOK(m) /\ m.sel = tg /\ m.valve
  BY SelectTgOK DEF Inv, Types
<1>2. SelectedByUser(tg) = [m EXCEPT !.local = TRUE, !.usePrio = FALSE]
  BY DEF SelectedByUser
<1> HIDE DEF m
<1>3. QED
  BY <1>1, <1>2, TakesPartOK

(***************************************************************************)
(* Commands keep the invariant.                                            *)
(***************************************************************************)
LEMMA CommandInv == ASSUME Inv, Command PROVE Inv'
<1>1. PICK tg \in AnyTG : Becomes(SelectedByUser(tg))
  BY DEF Command, AnyTG
<1> DEFINE n == SelectedByUser(tg)
<1>2. NodeOK(n) /\ n.sel = tg /\ n.local /\ ~n.usePrio /\ n.valve
  BY SelectedByUserOK
<1>3. Becomes(n) /\ node' = n
  BY <1>1 DEF Becomes
<1> HIDE DEF n
<1>4. downlink' = downlink /\ part' = IF n.sel = NoTG THEN "no" ELSE "again"
  BY <1>3 DEF Command
<1>5. /\ downlink' \in Downlinks /\ (link = "down" => downlink' = <<>>)
      /\ part' \in {"no", "first", "again"} /\ (part' # "no" => n.sel # NoTG)
  BY <1>4 DEF Inv, Types
<1>6. QED
  BY <1>2, <1>3, <1>5, BecomesInv

(***************************************************************************)
(* Following the last QSY keeps the invariant.                             *)
(***************************************************************************)
LEMMA FollowLastQsyInv == ASSUME Inv, FollowLastQsy PROVE Inv'
<1> DEFINE tg == node.lastQsy
           n == SelectedByUser(tg)
<1>1. tg \in AnyTG /\ tg # NoTG
  BY DEF FollowLastQsy, Inv, Types, NodeOK, Nodes, AnyTG
<1> HIDE DEF tg
<1>2. NodeOK(n) /\ n.sel = tg /\ n.local /\ ~n.usePrio /\ n.valve
  BY <1>1, SelectedByUserOK
<1>3. Becomes(n)
  BY DEF FollowLastQsy, tg
<1> HIDE DEF n
<1>4. /\ downlink' \in Downlinks /\ (link = "down" => downlink' = <<>>)
      /\ part' \in {"no", "first", "again"}
  BY DEF FollowLastQsy, Inv, Types
<1>5. QED
  BY <1>1, <1>2, <1>3, <1>4, BecomesInv

(***************************************************************************)
(* A tone or a squelch opening selects a talk group, or inhibits selection *)
(* for a while.                                                            *)
(***************************************************************************)
LEMMA ReceivedTgUpdatedInv ==
  ASSUME Inv, NEW tg \in AnyTG, ReceivedTgUpdated(tg)
  PROVE  Inv'
<1> DEFINE u == tg # NoTG /\ ~MUTE_FIRST_TX_LOC
           m == SelectTg(node, tg, u)
           c == IF tg = NoTG THEN TG_SELECT_INHIBIT_TIMEOUT ELSE m.cnt
           n == [m EXCEPT !.cnt = c, !.local = ~MUTE_FIRST_TX_LOC, !.usePrio = FALSE]
<1>1. NodeOK(m) /\ m.sel = tg /\ m.inIdle = node.inIdle
  <2>1. u \in BOOLEAN
    OBVIOUS
  <2> HIDE DEF u
  <2>2. QED
    BY <2>1, SelectTgOK DEF Inv, Types
<1>2. Becomes(n) /\ PartKept /\ downlink' = downlink /\ node.sel = NoTG
  BY DEF ReceivedTgUpdated
<1> HIDE DEF m
<1>3. c \in 0 .. CntMax /\ (tg # NoTG => c > 0)
  BY <1>1, Bounds DEF NodeOK, Nodes, Timed, CntMax
<1> HIDE DEF c
<1>4. NodeOK(n) /\ n.sel = tg
  BY <1>1, <1>3, Bounds DEF NodeOK, Nodes, Timed, CntMax
<1>5. node' = n
  BY <1>2 DEF Becomes
<1> HIDE DEF n
<1>6. part' = "no"
  BY <1>2, <1>4, <1>5 DEF PartKept, Inv, Chosen
<1>7. downlink' \in Downlinks /\ (link = "down" => downlink' = <<>>)
  BY <1>2 DEF Inv, Types
<1>8. QED
  BY <1>2, <1>4, <1>6, <1>7, BecomesInv

(***************************************************************************)
(* A local transmission begins: the default talk group is selected when    *)
(* nothing is, and the valve is opened for a talk group that the user has  *)
(* taken part in.                                                          *)
(***************************************************************************)
LEMMA TxBegunOK ==
  ASSUME NEW m, NodeOK(m)
  PROVE  LET n == TxBegun(m)
         IN  /\ NodeOK(n) /\ n.local /\ ~n.usePrio
             /\ n.sel = m.sel /\ n.valve = m.valve /\ n.inIdle = m.inIdle
<1> DEFINE q == IF m.qsy = 0 THEN 0 ELSE 1 + QSY_PENDING_TIMEOUT
           c == IF m.sel # NoTG THEN TG_SELECT_TIMEOUT
                ELSE IF m.cnt > 0 THEN TG_SELECT_INHIBIT_TIMEOUT ELSE m.cnt
<1>1. TxBegun(m) = [m EXCEPT !.qsy = q, !.local = TRUE, !.usePrio = FALSE, !.cnt = c]
  BY DEF TxBegun
<1>2. /\ q \in 0 .. (1 + QSY_PENDING_TIMEOUT) /\ (q > 0 => m.qsy > 0)
      /\ c \in 0 .. CntMax /\ (m.sel # NoTG => c > 0)
  BY Bounds DEF NodeOK, Nodes, CntMax
<1> HIDE DEF q, c
<1>3. QED
  BY <1>1, <1>2 DEF NodeOK, Nodes, Timed, CntMax

(***************************************************************************)
(* A transmission begins: the default talk group may be selected, and the  *)
(* valve opens from the second transmission on.                            *)
(***************************************************************************)
LEMMA TransmissionBeginsInv == ASSUME Inv, TransmissionBegins PROVE Inv'
<1> DEFINE a == [node EXCEPT !.inIdle = FALSE]
           b == Unmuted(a)
           d == DefaultSelected(b)
           n == TxBegun(d)
<1>1. /\ NodeOK(b) /\ b.sel = node.sel /\ b.cnt = node.cnt
      /\ b.valve = (node.valve \/ node.local)
  <2>1. NodeOK(a) /\ a.sel = node.sel /\ a.cnt = node.cnt /\ a.valve = node.valve
        /\ a.local = node.local /\ a.valve \in BOOLEAN /\ a.local \in BOOLEAN
    BY DEF Inv, Types, NodeOK, Nodes, Timed
  <2> HIDE DEF a
  <2> DEFINE v == a.valve \/ a.local
  <2>2. b = [a EXCEPT !.valve = v] /\ v \in BOOLEAN
    BY DEF Unmuted
  <2> HIDE DEF b, v
  <2>3. NodeOK(b) /\ b.sel = a.sel /\ b.cnt = a.cnt /\ b.valve = v
    BY <2>1, <2>2 DEF NodeOK, Nodes, Timed
  <2>4. QED
    BY <2>1, <2>3 DEF v
<1> HIDE DEF b
<1>2. /\ NodeOK(d)
      /\ node.sel # NoTG => d = b
  <2>1. CASE b.cnt = 0 /\ b.default # NoTG
    <3>1. b.default \in AnyTG
      BY <1>1, ConfigAssumption DEF NodeOK, Nodes, AnyTG
    <3> DEFINE u == ~MUTE_FIRST_TX_LOC
    <3>2. d = SelectTg(b, b.default, u) /\ u \in BOOLEAN
      BY <2>1 DEF DefaultSelected
    <3> HIDE DEF d, u
    <3>3. NodeOK(d)
      BY <1>1, <3>1, <3>2, SelectTgOK
    <3>4. node.sel = NoTG
      BY <1>1, <2>1 DEF NodeOK, Timed
    <3>5. QED
      BY <3>3, <3>4
  <2>2. CASE ~(b.cnt = 0 /\ b.default # NoTG)
    BY <1>1, <2>2 DEF DefaultSelected
  <2>3. QED
    BY <2>1, <2>2
<1> HIDE DEF d
<1>3. NodeOK(n) /\ n.local /\ ~n.usePrio /\ n.sel = d.sel /\ n.valve = d.valve
  BY <1>2, TxBegunOK
<1>4. Becomes(n) /\ node' = n /\ downlink' = downlink
  BY DEF TransmissionBegins, Becomes, a, b, d
<1> HIDE DEF n
<1>5. part' = IF n.sel = NoTG THEN "no"
              ELSE IF n.sel # node.sel \/ part = "no" THEN "first"
              ELSE "again"
  BY <1>4 DEF TransmissionBegins
<1>6. /\ part' \in {"no", "first", "again"}
      /\ part' # "no" => n.sel # NoTG
      /\ part' = "again" => part # "no"
  BY <1>5
<1>7. part' = "again" => n.valve
  BY <1>1, <1>2, <1>3, <1>6 DEF Inv, Chosen
<1>8. downlink' \in Downlinks /\ (link = "down" => downlink' = <<>>)
  BY <1>4 DEF Inv, Types
<1>9. QED
  BY <1>3, <1>4, <1>6, <1>7, <1>8, BecomesInv

(***************************************************************************)
(* A local transmission ends; a pending QSY is followed.                   *)
(***************************************************************************)
LEMMA TransmissionEndsInv == ASSUME Inv, TransmissionEnds PROVE Inv'
<1> DEFINE a == [node EXCEPT !.inIdle = TRUE]
           m == SelectTg(a, a.lastQsy, TRUE)
           n == IF a.qsy = 0 THEN a
                ELSE [m EXCEPT !.qsy = 0, !.local = TRUE, !.usePrio = FALSE]
<1>1. /\ NodeOK(a) /\ a.sel = node.sel /\ a.local = node.local /\ a.usePrio = node.usePrio
      /\ a.inIdle /\ a.qsy = node.qsy /\ a.qsy \in Nat /\ a.lastQsy \in AnyTG
  <2>1. NodeOK(node)
    BY DEF Inv, Types
  <2>2. /\ NodeOK(a) /\ a.sel = node.sel /\ a.local = node.local /\ a.usePrio = node.usePrio
        /\ a.inIdle /\ a.qsy = node.qsy
    BY <2>1 DEF NodeOK, Nodes, Timed
  <2> HIDE DEF a
  <2>3. QED
    BY <2>2, FieldTypes
<1>2. Becomes(n) /\ node' = n /\ downlink' = downlink /\ PartKept
  BY DEF TransmissionEnds, Becomes
<1> HIDE DEF a
<1>3. NodeOK(m) /\ m.inIdle
  BY <1>1, SelectTgOK
<1> HIDE DEF m
<1>4. CASE a.qsy = 0
  <2>1. n = a
    BY <1>4
  <2>2. part' = part
    BY <1>1, <1>2, <2>1 DEF PartKept
  <2> HIDE DEF n
  <2>3. QED
    BY <1>1, <1>2, <2>1, <2>2, BecomesInv DEF Inv, Types, Chosen
<1>5. CASE a.qsy # 0
  <2>1. part = "no"
    BY <1>1, <1>5 DEF Inv, Types, NodeOK, Timed, Chosen
  <2>2. part' = "no"
    BY <1>2, <2>1 DEF PartKept
  <2>3. n = [m EXCEPT !.qsy = 0, !.local = TRUE, !.usePrio = FALSE]
    BY <1>5
  <2> HIDE DEF n
  <2>4. NodeOK(n) /\ n.inIdle
    <3> DEFINE l == [m EXCEPT !.qsy = 0]
    <3>1. 0 \in 0 .. (1 + QSY_PENDING_TIMEOUT)
      BY Bounds
    <3>2. NodeOK(l) /\ l.inIdle
      BY <1>3, <3>1 DEF NodeOK, Nodes, Timed
    <3>3. n = [l EXCEPT !.local = TRUE, !.usePrio = FALSE]
      BY <2>3
    <3> HIDE DEF l
    <3>4. QED
      BY <3>2, <3>3, TakesPartOK
  <2>5. QED
    BY <1>2, <2>2, <2>4, BecomesInv DEF Inv, Types
<1>6. QED
  BY <1>4, <1>5

(***************************************************************************)
(* Steps that leave the selection, the flags of the user and the valve.    *)
(***************************************************************************)
LEMMA SameSelectionInv ==
  ASSUME Inv, NEW n, NodeOK(n), Becomes(n), downlink' = downlink, part' = part,
         n.sel = node.sel, n.local = node.local, n.valve = node.valve,
         n.inIdle = node.inIdle,
         part # "no" => n.usePrio = node.usePrio
  PROVE  Inv'
  BY BecomesInv DEF Inv, Types, Chosen, HeardAfterFirst

(***************************************************************************)
(* Audio from the reflector starts, pauses or ends.                        *)
(***************************************************************************)
LEMMA OutStreamChangedInv ==
  ASSUME Inv, NEW idle \in BOOLEAN, OutStreamChanged(idle)
  PROVE  Inv'
<1> DEFINE c == IF ~idle /\ node.cnt > 0 THEN TG_SELECT_TIMEOUT ELSE node.cnt
           n == [node EXCEPT !.outIdle = idle, !.cnt = c]
<1>1. Becomes(n) /\ UNCHANGED <<downlink, part>>
  BY DEF OutStreamChanged
<1>2. c \in 0 .. CntMax /\ (node.cnt > 0 => c > 0)
  BY Bounds DEF Inv, Types, NodeOK, Nodes, CntMax
<1> HIDE DEF c
<1>3. /\ NodeOK(n) /\ n.sel = node.sel /\ n.local = node.local /\ n.valve = node.valve
      /\ n.inIdle = node.inIdle /\ n.usePrio = node.usePrio
  BY <1>2 DEF Inv, Types, NodeOK, Nodes, Timed, CntMax
<1> HIDE DEF n
<1>4. QED
  BY <1>1, <1>3, SameSelectionInv

(***************************************************************************)
(* A second counts only while nobody talks; the last one ends selection.   *)
(***************************************************************************)
LEMMA TimeCountedOK ==
  ASSUME NEW n, NodeOK(n)
  PROVE  LET m == TimeCounted(n)
         IN  /\ NodeOK(m) /\ m.inIdle = n.inIdle
             /\ m.sel # NoTG =>
                  /\ m.sel = n.sel /\ m.local = n.local /\ m.usePrio = n.usePrio
                  /\ m.valve = n.valve
             /\ m.sel = NoTG \/ m.sel = n.sel
<1>1. CASE n.cnt = 0 \/ ~(n.inIdle /\ n.outIdle)
  BY <1>1 DEF TimeCounted
<1>2. CASE n.cnt # 0 /\ n.inIdle /\ n.outIdle /\ n.cnt = 1
  <2>1. TimeCounted(n) = SelectTg(n, NoTG, FALSE)
    BY <1>2 DEF TimeCounted
  <2>2. QED
    BY <2>1, LeaveOK
<1>3. CASE n.cnt # 0 /\ n.inIdle /\ n.outIdle /\ n.cnt # 1
  <2> DEFINE c == n.cnt - 1
  <2>1. TimeCounted(n) = [n EXCEPT !.cnt = c]
    BY <1>3 DEF TimeCounted
  <2>2. c \in 0 .. CntMax /\ c > 0
    BY <1>3, Bounds DEF NodeOK, Nodes, CntMax
  <2> HIDE DEF c
  <2>3. QED
    BY <2>1, <2>2 DEF NodeOK, Nodes, Timed, CntMax
<1>4. QED
  BY <1>1, <1>2, <1>3

(***************************************************************************)
(* A second of the selection timer and of the QSY timer passes.            *)
(***************************************************************************)
LEMMA TgSelectTimerExpiredInv == ASSUME Inv, TgSelectTimerExpired PROVE Inv'
<1> DEFINE m == TimeCounted(node)
           q == IF m.qsy > 1 THEN m.qsy - 1 ELSE m.qsy
           n == [m EXCEPT !.qsy = q]
<1>1. Becomes(n) /\ node' = n /\ PartKept /\ downlink' = downlink
  BY DEF TgSelectTimerExpired, Becomes
<1>2. /\ NodeOK(m) /\ m.inIdle = node.inIdle
      /\ m.sel # NoTG =>
           /\ m.sel = node.sel /\ m.local = node.local /\ m.usePrio = node.usePrio
           /\ m.valve = node.valve
      /\ m.sel = NoTG \/ m.sel = node.sel
  BY TimeCountedOK DEF Inv, Types
<1> HIDE DEF m
<1>3. q \in 0 .. (1 + QSY_PENDING_TIMEOUT) /\ (q > 0 => m.qsy > 0)
  BY <1>2, Bounds DEF NodeOK, Nodes
<1> HIDE DEF q
<1>4. /\ NodeOK(n) /\ n.sel = m.sel /\ n.local = m.local /\ n.usePrio = m.usePrio
      /\ n.valve = m.valve /\ n.inIdle = m.inIdle
  BY <1>2, <1>3 DEF NodeOK, Nodes, Timed
<1> HIDE DEF n
<1>5. part' = IF n.sel = node.sel THEN part ELSE "no"
  BY <1>1 DEF PartKept
<1>6. /\ part' \in {"no", "first", "again"}
      /\ part' # "no" => part' = part /\ n.sel = node.sel /\ node.sel # NoTG
  BY <1>5 DEF Inv, Types, Chosen
<1>7. QED
  BY <1>1, <1>2, <1>4, <1>6, BecomesInv DEF Inv, Types, Chosen, HeardAfterFirst

(***************************************************************************)
(* The QSY timer expires: nothing is selected then.                        *)
(***************************************************************************)
LEMMA QsyPendingTimeoutInv == ASSUME Inv, QsyPendingTimeout PROVE Inv'
<1> DEFINE n == [node EXCEPT !.qsy = 0, !.usePrio = TRUE, !.cnt = 0]
<1>1. Becomes(n) /\ downlink' = downlink /\ part' = part /\ node.qsy = 1
  BY DEF QsyPendingTimeout
<1>2. /\ NodeOK(n) /\ n.sel = node.sel /\ n.local = node.local /\ n.valve = node.valve
      /\ n.inIdle = node.inIdle /\ node.sel = NoTG
  <2>1. NodeOK(node)
    BY DEF Inv, Types
  <2>2. node.sel = NoTG
    BY <1>1, <2>1 DEF NodeOK, Timed
  <2>3. 0 \in 0 .. (1 + QSY_PENDING_TIMEOUT) /\ 0 \in 0 .. CntMax
    BY Bounds
  <2>4. QED
    BY <2>1, <2>2, <2>3 DEF NodeOK, Nodes, Timed, CntMax
<1> HIDE DEF n
<1>3. part = "no"
  BY <1>2 DEF Inv, Chosen
<1>4. QED
  BY <1>1, <1>2, <1>3, SameSelectionInv

-----------------------------------------------------------------------------
(***************************************************************************)
(* A message from the reflector is taken from its queue.                   *)
(***************************************************************************)
LEMMA ReceivedOK ==
  ASSUME Inv, NEW type, Received(type)
  PROVE  Head(downlink).tg \in TGs /\ downlink' \in Downlinks /\ link # "down"
<1> DEFINE S == [type : {"TalkerStart", "RequestQsy"}, tg : TGs]
<1>1. downlink \in Seq(S) /\ downlink # <<>> /\ downlink' = Tail(downlink) /\ link # "down"
  BY DEF Inv, Types, Received, Downlinks
<1>2. Downlinks = Seq(S) /\ (\A m \in S : m.tg \in TGs)
  BY DEF Downlinks
<1> HIDE DEF S
<1>3. QED
  BY <1>1, <1>2, HeadTailProperties

(***************************************************************************)
(* A talker makes the node select a talk group only if the user has not    *)
(* taken part in the one it is in.                                         *)
(***************************************************************************)
LEMMA TalkerStartKeeps ==
  ASSUME Inv, HandleMsgTalkerStart, part # "no"
  PROVE  node' = node
<1>1. node.cnt \in Nat /\ node.cnt # 0 /\ ~node.usePrio
  BY Bounds DEF Inv, Types, NodeOK, Nodes, Timed, Chosen
<1>2. \A tg : ~Switches(tg)
  BY <1>1 DEF Switches
<1>3. QED
  BY <1>1, <1>2 DEF HandleMsgTalkerStart, Becomes

(***************************************************************************)
(* A talker is announced by the reflector.                                 *)
(***************************************************************************)
LEMMA HandleMsgTalkerStartInv == ASSUME Inv, HandleMsgTalkerStart PROVE Inv'
<1> DEFINE tg == Head(downlink).tg
           u == ~MUTE_FIRST_TX_REM
           n == IF node.cnt = 0 \/ Switches(tg) THEN SelectTg(node, tg, u) ELSE node
<1>1. tg \in AnyTG /\ downlink' \in Downlinks /\ link # "down"
  BY ReceivedOK DEF HandleMsgTalkerStart, AnyTG
<1>2. Becomes(n) /\ node' = n /\ PartKept
  BY DEF HandleMsgTalkerStart, Becomes
<1>3. u \in BOOLEAN
  OBVIOUS
<1> HIDE DEF tg, u
<1>4. NodeOK(n)
  BY <1>1, <1>3, SelectTgOK DEF Inv, Types
<1> HIDE DEF n
<1>5. CASE part # "no"
  <2>1. node' = node
    BY <1>5, TalkerStartKeeps
  <2>2. QED
    BY <1>1, <1>2, <1>4, <2>1, BecomesInv DEF Inv, Types, Chosen, HeardAfterFirst, PartKept
<1>6. CASE part = "no"
  <2>1. part' = "no"
    BY <1>2, <1>6 DEF PartKept
  <2>2. QED
    BY <1>1, <1>2, <1>4, <2>1, BecomesInv
<1>7. QED
  BY <1>5, <1>6

(***************************************************************************)
(* A QSY request is followed at once by a node that takes part, and kept   *)
(* for a while, in no talk group, by one that does not.                    *)
(***************************************************************************)
LEMMA HandleMsgRequestQsyInv == ASSUME Inv, HandleMsgRequestQsy PROVE Inv'
<1> DEFINE tg == Head(downlink).tg
           m == SelectTg(node, NoTG, FALSE)
           left == [m EXCEPT !.lastQsy = tg]
           k == 1 + QSY_PENDING_TIMEOUT
           q == IF left.qsy = 0 THEN k ELSE left.qsy
           n == IF node.local THEN SelectTg(node, tg, TRUE)
                ELSE IF QSY_PENDING_TIMEOUT > 0
                  THEN [left EXCEPT !.qsy = q, !.usePrio = FALSE, !.cnt = k]
                ELSE [left EXCEPT !.usePrio = TRUE]
<1>1. tg \in AnyTG /\ downlink' \in Downlinks /\ link # "down"
  BY ReceivedOK DEF HandleMsgRequestQsy, AnyTG
<1>2. Becomes(n) /\ node' = n /\ PartKept
  BY DEF HandleMsgRequestQsy, Becomes
<1> HIDE DEF tg
<1>3. CASE node.local
  <2>1. n = SelectTg(node, tg, TRUE)
    BY <1>3
  <2> HIDE DEF n
  <2>2. /\ NodeOK(n) /\ n.sel = tg /\ n.inIdle = node.inIdle /\ n.valve
        /\ tg = node.sel => n.local = node.local /\ n.usePrio = node.usePrio
    BY <1>1, <2>1, SelectTgOK DEF Inv, Types
  <2>3. part' = IF tg = node.sel THEN part ELSE "no"
    BY <1>2, <2>2 DEF PartKept
  <2>4. QED
    BY <1>1, <1>2, <2>2, <2>3, BecomesInv DEF Inv, Types, Chosen
<1>4. CASE ~node.local
  <2>1. part' = "no"
    BY <1>2, <1>4 DEF PartKept, Inv, Chosen
  <2>2. NodeOK(m) /\ m.sel = NoTG
    BY LeaveOK DEF Inv, Types
  <2> HIDE DEF m
  <2>3. NodeOK(left) /\ left.sel = NoTG
    BY <1>1, <2>2 DEF NodeOK, Nodes, Timed, AnyTG
  <2> HIDE DEF left
  <2>4. q \in 0 .. k /\ k \in 0 .. CntMax
    BY <2>3, Bounds DEF NodeOK, Nodes
  <2>5. NodeOK(n)
    <3>1. NodeOK([left EXCEPT !.qsy = q, !.usePrio = FALSE, !.cnt = k])
      BY <2>3, <2>4 DEF NodeOK, Nodes, Timed, CntMax
    <3>2. NodeOK([left EXCEPT !.usePrio = TRUE])
      BY <2>3 DEF NodeOK, Nodes, Timed
    <3> HIDE DEF k
    <3>3. QED
      BY <1>4, <3>1, <3>2
  <2> HIDE DEF n
  <2>6. QED
    BY <1>1, <1>2, <2>1, <2>5, BecomesInv
<1>5. QED
  BY <1>3, <1>4
-----------------------------------------------------------------------------
(***************************************************************************)
(* The monitors change, and the reflector is told when the node is logged  *)
(* in.  Seconds that pass without a monitor expiring change no monitor.    *)
(***************************************************************************)
LEMMA MonitorsChangedInv ==
  ASSUME Inv, UNCHANGED <<node, link, downlink, srv, part>>,
         DOMAIN tmp' \subseteq TGs \ DOMAIN MonitorPrio,
         tmp' \in [DOMAIN tmp' -> 1 .. TMP_MONITOR_TIMEOUT],
         uplink' = IF Monitored' = Monitored THEN uplink ELSE Sent(<<MonitorMsg(Monitored')>>)
  PROVE  Inv'
<1> DEFINE M == Monitored'
           a == MonitorMsg(M)
<1>1. M \subseteq TGs
  BY ConfigAssumption DEF Monitored
<1>2. a \in MonitorMsgs /\ a.type = "TgMonitor"
  BY <1>1 DEF MonitorMsg, MonitorMsgs
<1>3. SelectMsg(node.sel).type = "SelectTG"
  BY DEF SelectMsg
<1>4. uplink' \in Uplinks /\ (link = "down" => uplink' = <<>>) /\ Known'
  <2>1. CASE M = Monitored
    <3>1. uplink' = uplink
      BY <2>1
    <3>2. QED
      BY <2>1, <3>1 DEF Inv, Types, Known, SelectionKnown, MonitorsKnown
  <2>2. CASE link = "down"
    BY <2>2 DEF Inv, Types, Known, Sent
  <2>3. CASE M # Monitored /\ link # "down"
    <3>1. uplink' = uplink \o <<a>>
      BY <2>3 DEF Sent
    <3> HIDE DEF a
    <3>2. uplink' \in Uplinks /\ After(uplink', a, (srv.mon = M))
      <4> DEFINE now == srv.mon = M
      <4>1. now \in BOOLEAN /\ uplink \in Uplinks
        BY DEF Inv, Types
      <4> HIDE DEF now
      <4>2. uplink' \in Uplinks /\ After(uplink', a, now)
        BY <1>2, <3>1, <4>1, AfterSent
      <4>3. QED
        BY <4>2 DEF now
    <3>3. MonitorsKnown'
      <4>1. MonitorMsg(Monitored)' = MonitorMsg(M)
        BY DEF MonitorMsg
      <4>2. MonitorsKnown' = After(uplink', MonitorMsg(Monitored)', (srv' .mon = Monitored'))
        BY DEF MonitorsKnown
      <4>3. srv' = srv
        OBVIOUS
      <4>4. QED
        BY <3>2, <4>1, <4>2, <4>3 DEF a, M
    <3>4. SelectionKnown => SelectionKnown'
      <4> DEFINE m == SelectMsg(node.sel)
                 now == srv.tg = node.sel
      <4>1. now \in BOOLEAN /\ a.type # m.type
        BY <1>2, <1>3
      <4> HIDE DEF m, now
      <4>2. After(uplink, m, now) => After(uplink', m, now)
        BY <1>2, <3>1, <4>1, AfterSent DEF Inv, Types
      <4>3. /\ SelectionKnown = After(uplink, m, now)
            /\ SelectionKnown' = After(uplink', m, now)
        BY DEF SelectionKnown, m, now, SelectMsg
      <4>4. QED
        BY <4>2, <4>3
    <3>5. QED
      BY <2>3, <3>2, <3>3, <3>4 DEF Inv, Known
  <2>4. QED
    BY <2>1, <2>2, <2>3
<1>5. QED
  BY <1>4 DEF Inv, Types, Chosen, HeardAfterFirst

(***************************************************************************)
(* A talk group is monitored for a time.                                   *)
(***************************************************************************)
LEMMA TmpMonitorInv == ASSUME Inv, NEW tg \in TGs, TmpMonitor(tg) PROVE Inv'
<1> DEFINE T == TMP_MONITOR_TIMEOUT
<1>1. T \in 1 .. T
  BY ConfigAssumption DEF TmpMonitor
<1>2. /\ DOMAIN tmp' = DOMAIN tmp \cup {tg}
      /\ tmp' = [t \in DOMAIN tmp \cup {tg} |-> IF t = tg THEN T ELSE tmp[t]]
      /\ tg \notin DOMAIN MonitorPrio
      /\ uplink' = IF tg \in DOMAIN tmp THEN uplink ELSE Sent(<<MonitorMsg(Monitored \cup {tg})>>)
  BY DEF TmpMonitor
<1>3. Monitored' = Monitored \cup {tg}
  BY <1>2 DEF Monitored
<1>4. tmp' \in [DOMAIN tmp' -> 1 .. T]
  <2>1. \A t \in DOMAIN tmp : tmp[t] \in 1 .. T
    BY DEF Inv, Types
  <2> HIDE DEF T
  <2>2. QED
    BY <1>1, <1>2, <2>1
<1>5. uplink' = IF Monitored' = Monitored THEN uplink ELSE Sent(<<MonitorMsg(Monitored')>>)
  BY <1>2, <1>3 DEF Monitored
<1>6. UNCHANGED <<node, link, downlink, srv, part>>
  BY DEF TmpMonitor
<1>7. DOMAIN tmp' \subseteq TGs \ DOMAIN MonitorPrio
  BY <1>2 DEF Inv, Types
<1>8. QED
  BY <1>4, <1>5, <1>6, <1>7, MonitorsChangedInv

(***************************************************************************)
(* A second of the temporary monitors passes.                              *)
(***************************************************************************)
LEMMA CheckTmpMonitorTimeoutInv == ASSUME Inv, CheckTmpMonitorTimeout PROVE Inv'
<1> DEFINE left == {t \in DOMAIN tmp : tmp[t] > 1}
<1>1. /\ DOMAIN tmp \subseteq TGs \ DOMAIN MonitorPrio
      /\ \A t \in DOMAIN tmp : tmp[t] \in 1 .. TMP_MONITOR_TIMEOUT
      /\ TMP_MONITOR_TIMEOUT \in Nat
  BY ConfigAssumption DEF Inv, Types
<1>2. \A t \in left : tmp[t] - 1 \in 1 .. TMP_MONITOR_TIMEOUT
  BY <1>1
<1>3. /\ tmp' = [t \in left |-> tmp[t] - 1] /\ UNCHANGED <<node, link, downlink, srv, part>>
      /\ uplink' = IF left = DOMAIN tmp THEN uplink
                   ELSE Sent(<<MonitorMsg(DOMAIN MonitorPrio \cup left)>>)
  BY DEF CheckTmpMonitorTimeout
<1>4. left \subseteq DOMAIN tmp
  OBVIOUS
<1> HIDE DEF left
<1>5. DOMAIN tmp' = left /\ tmp' \in [DOMAIN tmp' -> 1 .. TMP_MONITOR_TIMEOUT]
  BY <1>2, <1>3
<1>6. Monitored' = DOMAIN MonitorPrio \cup left
  BY <1>5 DEF Monitored
<1>7. (Monitored' = Monitored) <=> (left = DOMAIN tmp)
  BY <1>1, <1>4, <1>6 DEF Monitored
<1>8. QED
  BY <1>1, <1>3, <1>4, <1>5, <1>6, <1>7, MonitorsChangedInv

-----------------------------------------------------------------------------
(***************************************************************************)
(* The reflector makes a client object that knows nothing of the node.     *)
(***************************************************************************)
LEMMA LoginOnTcpInv == ASSUME Inv, LoginOnTcp PROVE Inv'
<1>1. /\ link' = "auth" /\ srv' = [tg |-> NoTG, mon |-> {}] /\ uplink' = <<>>
      /\ UNCHANGED <<node, tmp, uplink, downlink, part>>
  BY DEF LoginOnTcp, Inv, Types
<1>2. Monitored' = Monitored
  BY <1>1 DEF Monitored
<1>3. (node.sel = NoTG => SelectionKnown') /\ (Monitored = {} => MonitorsKnown')
  BY <1>1, <1>2, AfterNone DEF SelectionKnown, MonitorsKnown
<1>4. QED
  BY <1>1, <1>2, <1>3 DEF Inv, Types, Chosen, HeardAfterFirst, Known, AnyTG

(***************************************************************************)
(* The login ends: the selection and the monitors are told, where they are *)
(* not what a new client object has.                                       *)
(***************************************************************************)
LEMMA UdpVerifiedInv == ASSUME Inv, UdpVerified PROVE Inv'
<1> DEFINE a == SelectMsg(node.sel)
           b == MonitorMsg(Monitored)
           p == IF node.sel = NoTG THEN uplink ELSE uplink \o <<a>>
           sn == srv.tg = node.sel
           mn == srv.mon = Monitored
<1>1. /\ link = "auth" /\ link' = "connected" /\ uplink' = uplink \o LoginMsgs
      /\ UNCHANGED <<node, tmp, downlink, srv, part>>
  BY DEF UdpVerified
<1>2. Monitored' = Monitored
  BY <1>1 DEF Monitored
<1>3. /\ a \in SelectMsgs /\ b \in MonitorMsgs /\ a.type # b.type
      /\ sn \in BOOLEAN /\ mn \in BOOLEAN
  <2>1. node.sel \in AnyTG
    BY FieldTypes DEF Inv, Types
  <2>2. Monitored \subseteq TGs
    BY ConfigAssumption DEF Inv, Types, Monitored
  <2>3. QED
    BY <2>1, <2>2 DEF SelectMsg, SelectMsgs, MonitorMsg, MonitorMsgs
<1>4. /\ SelectionKnown <=> After(uplink, a, sn)
      /\ MonitorsKnown <=> After(uplink, b, mn)
      /\ SelectionKnown' <=> After(uplink', a, sn)
      /\ MonitorsKnown' <=> After(uplink', b, mn)
  BY <1>1, <1>2 DEF SelectionKnown, MonitorsKnown, SelectMsg, MonitorMsg
<1>5. uplink \in Uplinks
  BY DEF Inv, Types
<1>6. uplink' = IF Monitored = {} THEN p ELSE p \o <<b>>
  <2> DEFINE S == SelectMsgs \cup MonitorMsgs
  <2>1. uplink \in Seq(S) /\ a \in S /\ b \in S
    BY <1>3, <1>5 DEF Uplinks
  <2>2. uplink' = uplink \o ((IF node.sel = NoTG THEN <<>> ELSE <<a>>) \o
                             (IF Monitored = {} THEN <<>> ELSE <<b>>))
    BY <1>1 DEF LoginMsgs
  <2> HIDE DEF a, b, S
  <2> DEFINE A == IF node.sel = NoTG THEN <<>> ELSE <<a>>
             B == IF Monitored = {} THEN <<>> ELSE <<b>>
  <2>3. A \in Seq(S) /\ B \in Seq(S) /\ <<a>> \in Seq(S)
    BY <2>1
  <2>4. uplink' = (uplink \o A) \o B
    <3>1. uplink' = uplink \o (A \o B)
      BY <2>2
    <3> HIDE DEF A, B
    <3>2. QED
      BY <2>1, <2>3, <3>1, ConcatAssociative
  <2>5. p \in Seq(S) /\ p = uplink \o A
    BY <2>1, <2>3, ConcatEmptySeq, ConcatProperties
  <2> HIDE DEF p
  <2>6. p \o <<>> = p
    BY <2>5, ConcatEmptySeq
  <2>7. QED
    BY <2>4, <2>5, <2>6
<1> HIDE DEF a, b, sn, mn
<1>7. /\ p \in Uplinks /\ After(p, a, sn)
      /\ Monitored = {} => After(p, b, mn)
  <2>1. CASE node.sel = NoTG
    BY <1>1, <1>4, <1>5, <2>1 DEF Inv, Known
  <2>2. CASE node.sel # NoTG
    BY <1>1, <1>3, <1>4, <1>5, <2>2, AfterSent DEF Inv, Known
  <2>3. QED
    BY <2>1, <2>2
<1> HIDE DEF p
<1>8. uplink' \in Uplinks /\ After(uplink', a, sn) /\ After(uplink', b, mn)
  <2>1. CASE Monitored = {}
    BY <1>6, <1>7, <2>1
  <2>2. CASE Monitored # {}
    BY <1>3, <1>6, <1>7, <2>2, AfterSent
  <2>3. QED
    BY <2>1, <2>2
<1>9. QED
  BY <1>1, <1>4, <1>8 DEF Inv, Types, Chosen, HeardAfterFirst, Known

(***************************************************************************)
(* The connection is lost with all messages in flight.                     *)
(***************************************************************************)
LEMMA ConnectionLostInv == ASSUME Inv, ConnectionLost PROVE Inv'
<1>1. <<>> \in Uplinks /\ <<>> \in Downlinks
  BY EmptySeq DEF Uplinks, Downlinks
<1>2. QED
  BY <1>1 DEF Inv, ConnectionLost, Types, Chosen, HeardAfterFirst, Known

(***************************************************************************)
(* The reflector receives a selection or monitors.                         *)
(***************************************************************************)
LEMMA ServerReceivesInv == ASSUME Inv, ServerReceives PROVE Inv'
<1> DEFINE h == Head(uplink)
           a == SelectMsg(node.sel)
           b == MonitorMsg(Monitored)
           sn == srv.tg = node.sel
           mn == srv.mon = Monitored
<1>1. /\ uplink # <<>> /\ uplink' = Tail(uplink) /\ uplink \in Uplinks
      /\ srv' = IF h.type = "SelectTG" THEN [srv EXCEPT !.tg = h.tg] ELSE [srv EXCEPT !.mon = h.mon]
      /\ UNCHANGED <<node, tmp, link, downlink, part>>
      /\ srv \in [tg : AnyTG, mon : SUBSET TGs]
  BY DEF ServerReceives, Inv, Types
<1>2. Monitored' = Monitored
  BY <1>1 DEF Monitored
<1>3. h \in SelectMsgs \cup MonitorMsgs /\ uplink' \in Uplinks
  BY <1>1, HeadTailProperties DEF Uplinks
<1>4. a.type = "SelectTG" /\ b.type = "TgMonitor" /\ sn \in BOOLEAN /\ mn \in BOOLEAN
  BY DEF SelectMsg, MonitorMsg
<1>5. /\ srv' \in [tg : AnyTG, mon : SUBSET TGs]
      /\ (srv'.tg = node.sel) <=> (IF h.type = a.type THEN h = a ELSE sn)
      /\ (srv'.mon = Monitored) <=> (IF h.type = b.type THEN h = b ELSE mn)
  <2>1. CASE h.type = "SelectTG"
    <3>1. h = [type |-> "SelectTG", tg |-> h.tg] /\ h.tg \in AnyTG
      BY <1>3, <2>1 DEF SelectMsgs, MonitorMsgs
    <3>2. h = a <=> h.tg = node.sel
      BY <3>1 DEF SelectMsg
    <3> HIDE DEF h, a, b
    <3>3. QED
      BY <1>1, <1>4, <2>1, <3>1, <3>2
  <2>2. CASE h.type # "SelectTG"
    <3>1. h = [type |-> "TgMonitor", mon |-> h.mon] /\ h.mon \subseteq TGs
      BY <1>3, <2>2 DEF SelectMsgs, MonitorMsgs
    <3>2. h = b <=> h.mon = Monitored
      BY <3>1 DEF MonitorMsg
    <3>3. h.type = "TgMonitor"
      BY <3>1
    <3> HIDE DEF h, a, b
    <3>4. QED
      BY <1>1, <1>4, <2>2, <3>1, <3>2, <3>3
  <2>3. QED
    BY <2>1, <2>2
<1>6. /\ SelectionKnown <=> After(uplink, a, sn)
      /\ MonitorsKnown <=> After(uplink, b, mn)
      /\ SelectionKnown' <=> After(uplink', a, (srv'.tg = node.sel))
      /\ MonitorsKnown' <=> After(uplink', b, (srv'.mon = Monitored))
  BY <1>1, <1>2 DEF SelectionKnown, MonitorsKnown, SelectMsg, MonitorMsg
<1> HIDE DEF a, b, sn, mn
<1>7. SelectionKnown => SelectionKnown'
  <2>1. After(uplink, a, sn) =>
          After(uplink', a, (IF h.type = a.type THEN h = a ELSE sn))
    BY <1>1, <1>4, AfterReceived
  <2> HIDE DEF h
  <2>2. QED
    BY <1>5, <1>6, <2>1 DEF After
<1>8. MonitorsKnown => MonitorsKnown'
  <2>1. After(uplink, b, mn) =>
          After(uplink', b, (IF h.type = b.type THEN h = b ELSE mn))
    BY <1>1, <1>4, AfterReceived
  <2> HIDE DEF h
  <2>2. QED
    BY <1>5, <1>6, <2>1 DEF After
<1>9. Known'
  BY <1>1, <1>2, <1>7, <1>8 DEF Inv, Known
<1>10. link # "down"
  BY <1>1 DEF Inv, Types
<1>11. QED
  BY <1>1, <1>3, <1>5, <1>9, <1>10 DEF Inv, Types, Chosen, HeardAfterFirst

(***************************************************************************)
(* The reflector tells of a talker, or asks for a QSY.                     *)
(***************************************************************************)
LEMMA ServerTellsInv ==
  ASSUME Inv, NEW m \in [type : {"TalkerStart", "RequestQsy"}, tg : TGs], ServerTells(m)
  PROVE  Inv'
<1> DEFINE S == [type : {"TalkerStart", "RequestQsy"}, tg : TGs]
<1>1. downlink \in Seq(S) /\ m \in S /\ Downlinks = Seq(S)
  BY DEF Inv, Types, Downlinks
<1> HIDE DEF S
<1>2. downlink' \in Downlinks
  BY <1>1, AppendProperties DEF ServerTells
<1>3. UNCHANGED <<node, tmp, link, uplink, srv, part>> /\ link # "down"
  BY DEF ServerTells
<1>4. QED
  BY <1>2, <1>3 DEF Inv, Types, Chosen, HeardAfterFirst, Known, SelectionKnown,
                    MonitorsKnown, Monitored

(***************************************************************************)
(* A talker in a talk group that the client object is in or monitors.      *)
(***************************************************************************)
LEMMA ServerTellsTalkerInv == ASSUME Inv, ServerTellsTalker PROVE Inv'
<1>1. PICK tg \in (srv.mon \cup {srv.tg}) \ {NoTG} :
        ServerTells([type |-> "TalkerStart", tg |-> tg])
  BY DEF ServerTellsTalker
<1>2. tg \in TGs
  BY DEF Inv, Types, AnyTG
<1>3. [type |-> "TalkerStart", tg |-> tg] \in [type : {"TalkerStart", "RequestQsy"}, tg : TGs]
  BY <1>2
<1>4. QED
  BY <1>1, <1>3, ServerTellsInv

(***************************************************************************)
(* A QSY request for the talk group that the client object is in.          *)
(***************************************************************************)
LEMMA ServerRequestsQsyInv == ASSUME Inv, ServerRequestsQsy PROVE Inv'
<1>1. PICK tg \in TGs : ServerTells([type |-> "RequestQsy", tg |-> tg])
  BY DEF ServerRequestsQsy
<1>2. [type |-> "RequestQsy", tg |-> tg] \in [type : {"TalkerStart", "RequestQsy"}, tg : TGs]
  OBVIOUS
<1>3. QED
  BY <1>1, <1>2, ServerTellsInv

-----------------------------------------------------------------------------
(***************************************************************************)
(* Every step keeps the invariant.                                         *)
(***************************************************************************)
LEMMA NextInv == ASSUME Inv, [Next]_vars PROVE Inv'
<1>1. ASSUME NEW tg \in AnyTG, ReceivedTgUpdated(tg) PROVE Inv'
  BY <1>1, ReceivedTgUpdatedInv
<1>2. ASSUME NEW idle \in BOOLEAN, OutStreamChanged(idle) PROVE Inv'
  BY <1>2, OutStreamChangedInv
<1>3. ASSUME NEW tg \in TGs, TmpMonitor(tg) PROVE Inv'
  BY <1>3, TmpMonitorInv
<1>4. CASE \/ Command \/ FollowLastQsy \/ TransmissionBegins \/ TransmissionEnds
           \/ TgSelectTimerExpired \/ QsyPendingTimeout \/ CheckTmpMonitorTimeout
           \/ HandleMsgTalkerStart \/ HandleMsgRequestQsy
  BY <1>4, CommandInv, FollowLastQsyInv, TransmissionBeginsInv, TransmissionEndsInv,
     TgSelectTimerExpiredInv, QsyPendingTimeoutInv, CheckTmpMonitorTimeoutInv,
     HandleMsgTalkerStartInv, HandleMsgRequestQsyInv
<1>5. CASE \/ LoginOnTcp \/ UdpVerified \/ ConnectionLost
           \/ ServerReceives \/ ServerTellsTalker \/ ServerRequestsQsy
  BY <1>5, LoginOnTcpInv, UdpVerifiedInv, ConnectionLostInv, ServerReceivesInv,
     ServerTellsTalkerInv, ServerRequestsQsyInv
<1>6. CASE UNCHANGED vars
  BY <1>6 DEF vars, Inv, Types, Chosen, HeardAfterFirst, Known, SelectionKnown,
              MonitorsKnown, Monitored
<1>7. QED
  BY <1>1, <1>2, <1>3, <1>4, <1>5, <1>6 DEF Next, AnyTG

(***************************************************************************)
(* The invariant holds in every state of every behaviour.                  *)
(***************************************************************************)
THEOREM Invariance == Spec => []Inv
<1>1. QED
  BY InitInv, NextInv, PTL DEF Spec

(***************************************************************************)
(* A node on a talk group always has a running time-out, and a pending QSY *)
(* only in no talk group.                                                  *)
(***************************************************************************)
THEOREM TimersAlwaysMatch == Spec => []TimersMatchSelection
  BY Invariance, InvProperties, PTL

(***************************************************************************)
(* Only the first transmission after a selection may be muted.             *)
(***************************************************************************)
THEOREM AlwaysHeardAfterFirst == Spec => []HeardAfterFirst
  BY Invariance, InvProperties, PTL

(***************************************************************************)
(* A connected node without messages in flight is where the reflector has  *)
(* it, and monitors what the reflector thinks.                             *)
(***************************************************************************)
THEOREM ServerAlwaysAgrees == Spec => []ServerAgrees
  BY Invariance, InvProperties, PTL

(***************************************************************************)
(* No talker takes a node out of a talk group the user takes part in.      *)
(***************************************************************************)
THEOREM LocalChoiceAlwaysKept == Spec => LocalChoiceKept
<1>1. Inv /\ [Next]_vars => [HandleMsgTalkerStart /\ part # "no" => node'.sel = node.sel]_vars
  BY TalkerStartKeeps
<1>2. QED
  BY <1>1, Invariance, PTL DEF Spec, LocalChoiceKept
=============================================================================
