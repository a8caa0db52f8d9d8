------------------------------ MODULE Reflector ------------------------------
(***************************************************************************)
(* The reflector at work: the logged in clients of ReflectorClient.cpp,    *)
(* the talk group handler of TGHandler.tla, and the dispatching between    *)
(* them in svxlink/reflector/Reflector.cpp.  Selecting talk groups, audio, *)
(* the messages that tell who talks, the blocking of talkers, and the ways *)
(* a client goes away in the middle of all that.                           *)
(*                                                                         *)
(* The server is one thread, so a step is a whole handler with everything  *)
(* it calls and signals.  The interleaving is that of the clients, the     *)
(* timers and the operator.  The handshake before the login, the TCP and   *)
(* UDP supervision, and what decides that a client is given up are in      *)
(* ReflectorClient.tla; here a client may be given up at any time.         *)
(***************************************************************************)
EXTENDS Integers, FiniteSets

CONSTANTS
    Clients, TGs, NoClient, NoTG,   \* as in TGHandler.tla
    Allow,                  \* the pairs <<client, TG>> the ALLOW expressions let through
    ShownTGs,               \* the talk groups with SHOW_ACTIVITY
    Ver,                    \* Ver[x]: the major protocol version of the client
    V1TG,                   \* TG_FOR_V1_CLIENTS
    MonitorSets,            \* the sets of talk groups a client asks to monitor
    SqlTimeout,             \* SQL_TIMEOUT, in timer periods; 0 is off
    SqlBlocktime,           \* SQL_TIMEOUT_BLOCKTIME, in seconds
    BlockTimes,             \* the times the operator blocks a node for
    TALKER_AUDIO_TIMEOUT,
    MaxLate                 \* bound: expiries the event loop may be behind by

ASSUME ConstantAssumption ==
    /\ NoClient \notin Clients /\ NoTG \notin TGs
    /\ Allow \subseteq Clients \X TGs
    /\ Ver \in [Clients -> Nat]
    /\ V1TG \in TGs \cup {NoTG}
    /\ SqlTimeout \in Nat /\ SqlBlocktime \in Nat \ {0}
    /\ BlockTimes \subseteq Nat
    /\ TALKER_AUDIO_TIMEOUT \in Nat
    /\ MaxLate \in Nat \ {0}

VARIABLES
    idMap, clientMap, due,  \* the talk group handler, as in TGHandler.tla
    session,    \* session[x]: "none", "connected" or "closing" (m_con_state)
    curTG,      \* m_current_tg
    mon,        \* m_monitored_tgs
    udp,        \* udp[x]: m_remote_udp_port is known
    status,     \* isTalker in the status of the node: "none", "idle" or "talking"
    block,      \* block[x]: m_blocktime
    remaining,  \* m_remaining_blocktime
    open,       \* open[x]: the node has got audio that is not yet flushed
    told,       \* the MsgTalkerStop messages of the last step: [to, tg, who]
    aborted     \* an assertion has ended the server

clientVars == <<session, curTG, mon, udp, status, block, remaining, open>>
vars == <<idMap, clientMap, due, clientVars, told, aborted>>

TG == INSTANCE TGHandler WITH
        AllowSets <- {Allow}, allow <- Allow,
        SqlTimeouts <- {SqlTimeout}, sqlTimeout <- SqlTimeout,
        AutoQsyAfter <- [tg \in TGs |-> 0],
        updated <- {}, qsy <- {}, blocked <- {}

-----------------------------------------------------------------------------
Now == TG!Call

TGOf(x) == TG!TGForClient(Now, x)

\* When the server has aborted there are no client objects.
Live == {x \in Clients : session[x] # "none" /\ ~aborted}

Connected == {x \in Live : session[x] = "connected"}

(***************************************************************************)
(* onTalkerUpdated, for the talkerUpdated signals of the call h: who is    *)
(* told over TCP, whose audio is flushed over UDP, and the status of the   *)
(* old and the new talker.  The signals are emitted before a client is     *)
(* taken out of its talk group; cons are the clients whose m_con_state is  *)
(* CONNECTED at that point.                                                *)
(***************************************************************************)
\* Mutant: the clients that monitor the talk group are left out.
AudienceInTG(tg, cons) ==
    {y \in cons : (Ver[y] >= 2 /\ TGOf(y) = tg) \/ (Ver[y] = 1 /\ tg = V1TG)}

Audience(tg, cons) ==
    {y \in cons : \/ Ver[y] >= 2 /\ (TGOf(y) = tg \/ tg \in mon[y])
                  \/ Ver[y] = 1 /\ tg = V1TG}

Stops(h) == {u \in h.updated : u.old # NoClient}

ToldOf(h, cons) ==
    UNION {{[to |-> y, tg |-> u.tg, who |-> u.old] : y \in Audience(u.tg, cons)} :
             u \in Stops(h)}

FlushedBy(h, cons) ==
    {y \in cons : udp[y] /\ \E u \in Stops(h) : TGOf(y) = u.tg /\ y # u.old}

IsTalker(h, x, tg) ==
    IF tg \in ShownTGs /\ TG!TalkerForTG(h, tg) = x THEN "talking" ELSE "idle"

StatusAfter(h) ==
    [x \in Clients |->
       IF status[x] # "none" /\ \E u \in h.updated : x \in {u.old, u.new}
         THEN IsTalker(h, x, curTG[x]) ELSE status[x]]

Handled(h) == idMap' = h.idMap /\ clientMap' = h.clientMap

Signalled(h, cons) ==
    /\ Handled(h)
    /\ told' = ToldOf(h, cons)
    /\ open' = [y \in Clients |-> open[y] /\ y \notin FlushedBy(h, cons)]
    /\ status' = StatusAfter(h)

(***************************************************************************)
(* setTg: a client that may not have the talk group is left in none.       *)
(***************************************************************************)
SetTg(x, tg) ==
    IF tg = curTG[x] THEN Now
    ELSE IF TG!SwitchAllowed(Now, x, tg) THEN TG!SwitchTo(Now, x, tg)
    ELSE TG!SwitchTo(TG!SwitchTo(Now, x, tg), x, NoTG)

\* Mutant: tg is not reset when the selection is refused.
TGSetRefused(x, tg) == tg

TGSet(x, tg) ==
    IF tg = curTG[x] \/ TG!SwitchAllowed(Now, x, tg) THEN tg ELSE NoTG

-----------------------------------------------------------------------------
Init == /\ idMap = [tg \in {} |-> TG!NewTGInfo]
        /\ clientMap = [x \in {} |-> NoTG]
        /\ due = 0
        /\ session = [x \in Clients |-> "none"]
        /\ curTG = [x \in Clients |-> NoTG]
        /\ mon = [x \in Clients |-> {}]
        /\ udp = [x \in Clients |-> FALSE]
        /\ status = [x \in Clients |-> "none"]
        /\ block = [x \in Clients |-> 0]
        /\ remaining = [x \in Clients |-> 0]
        /\ open = [x \in Clients |-> FALSE]
        /\ told = {}
        /\ aborted = FALSE

(***************************************************************************)
(* connectionAuthenticated: old clients are put into their talk group.     *)
(***************************************************************************)
Login(x) ==
    LET tg == IF Ver[x] < 2 THEN V1TG ELSE NoTG
    IN /\ session[x] = "none" /\ ~aborted
       /\ session' = [session EXCEPT ![x] = "connected"]
       /\ Handled(SetTg(x, tg))
       /\ curTG' = [curTG EXCEPT ![x] = TGSet(x, tg)]
       /\ told' = {}
       /\ UNCHANGED <<due, mon, udp, status, block, remaining, open, aborted>>

(***************************************************************************)
(* handleNodeInfo: the status of the node is created.                      *)
(***************************************************************************)
HandleNodeInfo(x) ==
    /\ x \in Connected
    /\ status' = [status EXCEPT ![x] = IsTalker(Now, x, curTG[x])]
    /\ told' = {}
    /\ UNCHANGED <<idMap, clientMap, due, session, curTG, mon, udp, block,
                   remaining, open, aborted>>

(***************************************************************************)
(* handleSelectTG: the streams the change interrupts are flushed first.    *)
(***************************************************************************)
\* Mutant: only the listeners of a talker are flushed.
FlushedOnTalkerSelect(x) ==
    {y \in Connected \ {x} : /\ TG!TalkerForTG(Now, curTG[x]) = x
                             /\ TGOf(y) = curTG[x] /\ udp[y]}

FlushedOnSelect(x) ==
    LET talker == TG!TalkerForTG(Now, curTG[x])
    IN IF talker = x
         THEN {y \in Connected \ {x} : TGOf(y) = curTG[x] /\ udp[y]}
         ELSE IF talker # NoClient /\ udp[x] THEN {x} ELSE {}

HandleSelectTG(x, tg) ==
    LET h == SetTg(x, tg)
    IN /\ x \in Connected
       /\ tg # curTG[x]
       /\ Handled(h)
       /\ curTG' = [curTG EXCEPT ![x] = TGSet(x, tg)]
       /\ status' = [status EXCEPT ![x] =
                       IF @ = "none" THEN @ ELSE IsTalker(h, x, TGSet(x, tg))]
       /\ open' = [y \in Clients |-> open[y] /\ y \notin FlushedOnSelect(x)]
       /\ told' = {}
       /\ UNCHANGED <<due, session, mon, udp, block, remaining, aborted>>

HandleTgMonitor(x, tgs) ==
    /\ x \in Connected
    /\ mon' = [mon EXCEPT ![x] = {tg \in tgs : <<x, tg>> \in Allow}]
    /\ told' = {}
    /\ UNCHANGED <<idMap, clientMap, due, session, curTG, udp, status, block,
                   remaining, open, aborted>>

(***************************************************************************)
(* udpDatagramReceived, for a datagram that passes the checks; the first   *)
(* one registers the source.  A client that is given up is still heard.    *)
(***************************************************************************)
Heard(x) == x \in Live /\ udp' = [udp EXCEPT ![x] = TRUE]

UdpHeartbeat(x) ==
    /\ Heard(x)
    /\ told' = {}
    /\ UNCHANGED <<idMap, clientMap, due, session, curTG, mon, status, block,
                   remaining, open, aborted>>

(***************************************************************************)
(* MsgUdpAudio: udpMsgReceived starts the block time of a blocked client   *)
(* over again, before it is tested whether the client is blocked.          *)
(***************************************************************************)
\* Mutant: the block time is not started over.
RemainingUnchanged(x) == remaining[x]

RemainingAfterAudio(x) == IF block[x] > 0 THEN block[x] ELSE remaining[x]

\* Mutant: nobody asks whether there is a talker.
AudioTakesFloor(x) == TG!SetTalkerForTG(Now, TGOf(x), x)

AudioTalker(x) ==
    LET tg == TGOf(x)
    IN IF TG!TalkerForTG(Now, tg) = NoClient
         THEN TG!SetTalkerForTG(Now, tg, x) ELSE Now

Relays(x) == /\ RemainingAfterAudio(x) = 0
             /\ TGOf(x) # NoTG
             /\ TG!TalkerForTG(AudioTalker(x), TGOf(x)) = x

UdpAudio(x) ==
    LET h == IF Relays(x) THEN TG!SetTalkerForTG(AudioTalker(x), TGOf(x), x) ELSE Now
        reached == IF Relays(x)
                     THEN {y \in Connected \ {x} : TGOf(y) = TGOf(x) /\ udp[y]}
                     ELSE {}
    IN /\ Heard(x)
       /\ remaining' = [remaining EXCEPT ![x] = RemainingAfterAudio(x)]
       /\ Handled(h)
       /\ status' = StatusAfter(h)
       /\ open' = [y \in Clients |-> open[y] \/ y \in reached]
       /\ told' = {}
       /\ UNCHANGED <<due, session, curTG, mon, block, aborted>>

(***************************************************************************)
(* MsgUdpFlushSamples: the talker is done.                                 *)
(***************************************************************************)
UdpFlushSamples(x) ==
    LET tg == TGOf(x)
        h == IF tg # NoTG /\ TG!TalkerForTG(Now, tg) = x
               THEN TG!SetTalkerForTG(Now, tg, NoClient) ELSE Now
    IN /\ Heard(x)
       /\ Signalled(h, Connected)
       /\ UNCHANGED <<due, session, curTG, mon, block, remaining, aborted>>

-----------------------------------------------------------------------------
(***************************************************************************)
(* sendError: the client is given up; it is kept for ten more seconds, in  *)
(* its talk group and with the floor it may have.                          *)
(***************************************************************************)
SendError(x) ==
    /\ x \in Connected
    /\ session' = [session EXCEPT ![x] = "closing"]
    /\ udp' = [udp EXCEPT ![x] = FALSE]
    /\ told' = {}
    /\ UNCHANGED <<idMap, clientMap, due, curTG, mon, status, block, remaining,
                   open, aborted>>

(***************************************************************************)
(* clientDisconnected: the client is taken out of its talk group, while it *)
(* is still in the map the broadcasts go through, and deleted.             *)
(***************************************************************************)
Deleted(x, cons) ==
    LET h == TG!RemoveClient(Now, x)
    IN /\ Handled(h)
       /\ told' = ToldOf(h, cons)
       /\ session' = [session EXCEPT ![x] = "none"]
       /\ curTG' = [curTG EXCEPT ![x] = NoTG]
       /\ mon' = [mon EXCEPT ![x] = {}]
       /\ udp' = [udp EXCEPT ![x] = FALSE]
       /\ status' = [StatusAfter(h) EXCEPT ![x] = "none"]
       /\ block' = [block EXCEPT ![x] = 0]
       /\ remaining' = [remaining EXCEPT ![x] = 0]
       /\ open' = [y \in Clients |-> open[y] /\ y # x /\ y \notin FlushedBy(h, cons)]
       /\ UNCHANGED <<due, aborted>>

(***************************************************************************)
(* disconnect(): on the disconnect timer, or on a MsgError from the node.  *)
(* m_con_state is DISCONNECTED before anybody is told.                     *)
(***************************************************************************)
OnDiscTimeout(x) == x \in Live \ Connected /\ Deleted(x, Connected)

HandleMsgError(x) == x \in Connected /\ Deleted(x, Connected \ {x})

(***************************************************************************)
(* The connection is closed by the node or breaks.  m_con_state is still   *)
(* CONNECTED, so a talker is in the audience of its own MsgTalkerStop;     *)
(* sendMsg finds the connection closed and calls disconnect(), which       *)
(* removes it from the TCP server a first time: when the outer call        *)
(* removes it again the assertion of removeConnection fails.               *)
(***************************************************************************)
TellsItself(x) ==
    \E m \in ToldOf(TG!RemoveClient(Now, x), Connected) : m.to = x

RemoteClose(x) ==
    /\ x \in Live
    /\ ~TellsItself(x)
    /\ Deleted(x, Connected \ {x})

RemoteCloseOfTalker(x) ==
    /\ x \in Live
    /\ TellsItself(x)
    /\ aborted' = TRUE
    /\ told' = {}
    /\ UNCHANGED <<idMap, clientMap, due, clientVars>>

-----------------------------------------------------------------------------
(***************************************************************************)
(* handleHeartbeat, the part that counts down the block time.              *)
(***************************************************************************)
BlockCounted(x) == IF remaining[x] = 0 THEN 0 ELSE block[x]

RemainingCounted(x) == IF remaining[x] = 0 THEN 0 ELSE remaining[x] - 1

HandleHeartbeat(x) ==
    /\ x \in Connected
    /\ block[x] > 0
    /\ block' = [block EXCEPT ![x] = BlockCounted(x)]
    /\ remaining' = [remaining EXCEPT ![x] = RemainingCounted(x)]
    /\ told' = {}
    /\ UNCHANGED <<idMap, clientMap, due, session, curTG, mon, udp, status,
                   open, aborted>>

(***************************************************************************)
(* The NODE BLOCK command of ctrlPtyDataReceived.                          *)
(***************************************************************************)
NodeBlock(x, t) ==
    /\ x \in Live
    /\ block' = [block EXCEPT ![x] = t]
    /\ remaining' = [remaining EXCEPT ![x] = t]
    /\ told' = {}
    /\ UNCHANGED <<idMap, clientMap, due, session, curTG, mon, udp, status,
                   open, aborted>>

SecondPasses ==
    /\ due < MaxLate /\ ~aborted
    /\ due' = due + 1
    /\ idMap' = [tg \in DOMAIN idMap |-> TG!Aged(idMap[tg])]
    /\ told' = {}
    /\ UNCHANGED <<clientMap, clientVars, aborted>>

(***************************************************************************)
(* checkTimers: a talker that the squelch timeout stops is blocked.        *)
(***************************************************************************)
CheckTimers ==
    LET h == TG!CheckTimersCall(Now)
        timedOut == {idMap[tg].talker :
                       tg \in {t \in DOMAIN idMap : TG!SqlTimedOut(idMap[t])}}
        blocked(was) == [x \in Clients |-> IF x \in timedOut THEN SqlBlocktime
                                           ELSE was[x]]
    IN /\ due > 0 /\ ~aborted
       /\ due' = due - 1
       /\ Signalled(h, Connected)
       /\ block' = blocked(block)
       /\ remaining' = blocked(remaining)
       /\ UNCHANGED <<session, curTG, mon, udp, aborted>>

Next == \/ \E x \in Clients :
             \/ Login(x)
             \/ HandleNodeInfo(x)
             \/ \E tg \in TGs \cup {NoTG} : HandleSelectTG(x, tg)
             \/ \E tgs \in MonitorSets : HandleTgMonitor(x, tgs)
             \/ UdpHeartbeat(x)
             \/ UdpAudio(x)
             \/ UdpFlushSamples(x)
             \/ SendError(x)
             \/ OnDiscTimeout(x)
             \/ HandleMsgError(x)
             \/ RemoteClose(x)
             \/ RemoteCloseOfTalker(x)
             \/ HandleHeartbeat(x)
             \/ \E t \in BlockTimes : NodeBlock(x, t)
        \/ SecondPasses
        \/ CheckTimers

Spec == Init /\ [][Next]_vars

-----------------------------------------------------------------------------
(***************************************************************************)
(* Properties                                                              *)
(***************************************************************************)

(***************************************************************************)
(* Every variable has its type.                                            *)
(***************************************************************************)
TypeOK ==
    /\ DOMAIN idMap \subseteq TGs /\ idMap \in [DOMAIN idMap -> TG!TGInfo]
    /\ DOMAIN clientMap \subseteq Clients
    /\ clientMap \in [DOMAIN clientMap -> TGs]
    /\ due \in 0 .. MaxLate
    /\ session \in [Clients -> {"none", "connected", "closing"}]
    /\ curTG \in [Clients -> TGs \cup {NoTG}]
    /\ mon \in [Clients -> SUBSET TGs]
    /\ udp \in [Clients -> BOOLEAN]
    /\ status \in [Clients -> {"none", "idle", "talking"}]
    /\ block \in [Clients -> Nat] /\ remaining \in [Clients -> Nat]
    /\ open \in [Clients -> BOOLEAN]
    /\ told \subseteq [to : Clients, tg : TGs, who : Clients]
    /\ aborted \in BOOLEAN

(***************************************************************************)
(* A client object and the talk group handler agree about the talk group   *)
(* of the client (m_current_tg, m_client_map), also after a selection that *)
(* was refused, and the handler has no pointer to a deleted client.        *)
(***************************************************************************)
TGInSync ==
    aborted \/ \A x \in Clients : IF x \in Live THEN TGOf(x) = curTG[x]
                                  ELSE x \notin DOMAIN clientMap

(***************************************************************************)
(* A node that got audio and no flush after it is in a talk group where    *)
(* somebody else talks: whichever way a talk spurt ends, and whichever way *)
(* the listener leaves it, the decoder of the listener is flushed.         *)
(***************************************************************************)
StreamsHaveTalker ==
    \A y \in Connected : open[y] =>
      TG!TalkerForTG(Now, TGOf(y)) \notin {NoClient, y}

(***************************************************************************)
(* The status page shows a node as talking just when it holds the floor of *)
(* the talk group it is in, and that talk group is shown.                  *)
(***************************************************************************)
StatusFresh ==
    \A x \in Live : status[x] # "none" => status[x] = IsTalker(Now, x, curTG[x])

(***************************************************************************)
(* Client objects, talk group handler and status page agree, after every   *)
(* login, selection, refusal, talk spurt, block and disconnection.         *)
(***************************************************************************)
ViewsAgree == TGInSync /\ StatusFresh

(***************************************************************************)
(* The reflector implements the abstract floor control.                    *)
(***************************************************************************)
Member == [x \in Clients |-> TGOf(x)]
Floor == [tg \in TGs |-> TG!TalkerForTG(Now, tg)]

FC == INSTANCE FloorControl WITH member <- Member, floor <- Floor

FloorControlSpec == FC!Spec

(***************************************************************************)
(* A client that is blocked never gets the floor, not even in the second   *)
(* between the end of the count and the heartbeat that unblocks it: audio  *)
(* in that second starts the block over again (udpMsgReceived).  When the  *)
(* operator blocks the one that has the floor, its audio no longer keeps   *)
(* it, so that the audio timeout takes it away (checkTimers).              *)
(***************************************************************************)
NoFloorWhileBlocked ==
    [][\A x \in Clients, tg \in TGs :
         Floor'[tg] = x /\ block[x] > 0
           => Floor[tg] = x /\ idMap'[tg].idle >= idMap[tg].idle]_vars

(***************************************************************************)
(* Everybody who follows a talk group, in it or monitoring it, is told     *)
(* when a talker stops there; but not when the talker goes on to another   *)
(* talk group (removeClientP emits no signal).                             *)
(***************************************************************************)
AllTold(tg, who) ==
    \A y \in Connected \cap Live' :
      Ver[y] >= 2 /\ (Member[y] = tg \/ tg \in mon[y])
        => [to |-> y, tg |-> tg, who |-> who] \in told'

ToldOfStop ==
    [][\A tg \in TGs : Floor[tg] # NoClient /\ Floor'[tg] # Floor[tg] =>
         AllTold(tg, Floor[tg]) \/ (Member'[Floor[tg]] # tg /\ Floor[tg] \in Live')]_vars

(***************************************************************************)
(* No assertion of the server ever fails: the connection of a client is    *)
(* removed from the TCP server exactly once.                               *)
(***************************************************************************)
NeverAborts == ~aborted
=============================================================================
