----------------------------- MODULE TGHandler ------------------------------
(***************************************************************************)
(* The talk group handler of the reflector, class TGHandler of             *)
(* svxlink/reflector/TGHandler.cpp: who is in which talk group, who is     *)
(* talking there, and the timers that stop a talker.                       *)
(*                                                                         *)
(* The handler is called synchronously by the reflector.  Its operations   *)
(* are therefore operators on the handler's state, a record                *)
(*     h == [idMap, clientMap, updated, qsy]                               *)
(* of its two maps and of the signals the call emits: talkerUpdated, as    *)
(* records [tg, old, new], and requestAutoQsy, as talk groups.  A handler  *)
(* of the reflector that makes several calls composes them.                *)
(***************************************************************************)
EXTENDS Integers, FiniteSets, Functions

CONSTANTS
    Clients,                \* the client objects of the reflector
    TGs,                    \* the talk groups (TG #0 is NoTG)
    NoClient,               \* the null client pointer
    NoTG,                   \* TG #0, "no talk group"
    AllowSets,              \* values of the ALLOW variables: sets of <<client, TG>>
    SqlTimeouts,            \* values of SQL_TIMEOUT, in timer periods; 0 is off
    AutoQsyAfter,           \* AUTO_QSY_AFTER of each talk group, in seconds; 0 is off
    TALKER_AUDIO_TIMEOUT,   \* longest gap in the audio of a talker, in seconds
    MaxLate                 \* bound: expiries the event loop may be behind by

ASSUME ConstantAssumption ==
    /\ NoClient \notin Clients
    /\ NoTG \notin TGs
    /\ AllowSets \subseteq SUBSET (Clients \X TGs) /\ AllowSets # {}
    /\ SqlTimeouts \subseteq Nat /\ SqlTimeouts # {}
    /\ AutoQsyAfter \in [TGs -> Nat]
    /\ TALKER_AUDIO_TIMEOUT \in Nat
    /\ MaxLate \in Nat \ {0}

VARIABLES
    idMap,          \* m_id_map: talk group -> TGInfo, for the groups in use
    clientMap,      \* m_client_map: client -> talk group, for the clients in one
    sqlTimeout,     \* m_sql_timeout
    allow,          \* the pairs <<client, TG>> the ALLOW expressions let through
    due,            \* expiries of the one second timer that are not yet served
    updated,        \* the talkerUpdated signals of the last call
    qsy,            \* the requestAutoQsy signals of the last call
    blocked         \* the clients checkTimers has just told to setBlock

vars == <<idMap, clientMap, sqlTimeout, allow, due, updated, qsy, blocked>>

-----------------------------------------------------------------------------
(***************************************************************************)
(* TGInfo.  Points in time are kept relative to now, and no further than   *)
(* the code can tell them apart: idle is the age of last_talker_timestamp  *)
(* in seconds, qsyIn the time left until auto_qsy_time, with QsyDue when   *)
(* it has passed and QsyUnset for the initial value -1.                    *)
(***************************************************************************)
QsyDue == -1
QsyUnset == -2
IdleMax == TALKER_AUDIO_TIMEOUT + 1

TGInfo == [clients : SUBSET Clients,
           talker  : Clients \cup {NoClient},
           idle    : 0 .. IdleMax,
           sqlCnt  : Nat,
           qsyIn   : Int]

NewTGInfo == [clients |-> {}, talker |-> NoClient, idle |-> IdleMax,
              sqlCnt |-> 0, qsyIn |-> QsyUnset]

Call == [idMap |-> idMap, clientMap |-> clientMap, updated |-> {}, qsy |-> {}]

TGForClient(h, c) == IF c \in DOMAIN h.clientMap THEN h.clientMap[c] ELSE NoTG

TalkerForTG(h, tg) ==
    IF tg \in DOMAIN h.idMap THEN h.idMap[tg].talker ELSE NoClient

ClientsForTG(h, tg) ==
    IF tg \in DOMAIN h.idMap THEN h.idMap[tg].clients ELSE {}

AllowTgSelection(c, tg) == <<c, tg>> \in allow

(***************************************************************************)
(* removeClientP: a talker that is removed stops talking with no signal,   *)
(* and a talk group without clients is deleted.                            *)
(***************************************************************************)
RemoveClientP(h, c) ==
    LET tg == h.clientMap[c]
        info == [h.idMap[tg] EXCEPT !.clients = @ \ {c},
                                    !.talker = IF @ = c THEN NoClient ELSE @]
    IN [h EXCEPT !.clientMap = Restrict(@, DOMAIN @ \ {c}),
                 !.idMap = IF info.clients = {}
                             THEN Restrict(@, DOMAIN @ \ {tg})
                             ELSE [@ EXCEPT ![tg] = info]]

(***************************************************************************)
(* The insertion at the end of switchTo, which creates the talk group when *)
(* it is not in use.                                                       *)
(***************************************************************************)
AddClient(h, c, tg) ==
    LET info == IF tg \in DOMAIN h.idMap THEN h.idMap[tg] ELSE NewTGInfo
    IN [h EXCEPT !.clientMap = [d \in DOMAIN @ \cup {c} |->
                                  IF d = c THEN tg ELSE @[d]],
                 !.idMap = [t \in DOMAIN @ \cup {tg} |->
                              IF t = tg
                                THEN [info EXCEPT !.clients = @ \cup {c}]
                                ELSE @[t]]]

SwitchAllowed(h, c, tg) ==
    tg \in {NoTG, TGForClient(h, c)} \/ AllowTgSelection(c, tg)

(***************************************************************************)
(* switchTo: the client leaves its talk group first, also when the new one *)
(* is then refused.                                                        *)
(***************************************************************************)
\* Mutant: the client does not leave its talk group first.
SwitchToStays(h, c, tg) ==
    IF TGForClient(h, c) # tg /\ tg # NoTG /\ AllowTgSelection(c, tg)
      THEN AddClient(h, c, tg) ELSE h

SwitchTo(h, c, tg) ==
    LET left == IF c \in DOMAIN h.clientMap THEN RemoveClientP(h, c) ELSE h
    IN IF TGForClient(h, c) = tg THEN h
       ELSE IF tg # NoTG /\ AllowTgSelection(c, tg) THEN AddClient(left, c, tg)
       ELSE left

(***************************************************************************)
(* setTalkerForTG on the TGInfo of tg, for a change of talker.             *)
(***************************************************************************)
AsksQsy(tg, info, new) ==
    AutoQsyAfter[tg] > 0 /\ new = NoClient /\ info.qsyIn < 0

TalkerSet(tg, info, new) ==
    [info EXCEPT
       !.talker = new,
       !.sqlCnt = IF new # NoClient THEN sqlTimeout ELSE 0,
       !.qsyIn = IF \/ AsksQsy(tg, info, new)
                    \/ AutoQsyAfter[tg] > 0 /\ info.qsyIn = QsyUnset
                   THEN AutoQsyAfter[tg] ELSE @]

\* Mutant: the signal is not emitted.
SetTalkerForTGSilently(h, tg, new) ==
    IF tg \notin DOMAIN h.idMap THEN h
    ELSE LET info == h.idMap[tg]
         IN IF new = info.talker
              THEN [h EXCEPT !.idMap = [@ EXCEPT ![tg].idle = 0]]
              ELSE [h EXCEPT !.idMap = [@ EXCEPT ![tg] = TalkerSet(tg, info, new)]]

SetTalkerForTG(h, tg, new) ==
    IF tg \notin DOMAIN h.idMap THEN h
    ELSE LET info == h.idMap[tg]
         IN IF new = info.talker
              THEN [h EXCEPT !.idMap = [@ EXCEPT ![tg].idle = 0]]
              ELSE [h EXCEPT
                      !.idMap = [@ EXCEPT ![tg] = TalkerSet(tg, info, new)],
                      !.updated = @ \cup {[tg |-> tg, old |-> info.talker,
                                           new |-> new]},
                      !.qsy = IF AsksQsy(tg, info, new) THEN @ \cup {tg} ELSE @]

RemoveClient(h, c) ==
    IF c \notin DOMAIN h.clientMap THEN h
    ELSE LET tg == h.clientMap[c]
             quiet == IF TalkerForTG(h, tg) = c
                        THEN SetTalkerForTG(h, tg, NoClient) ELSE h
         IN RemoveClientP(quiet, c)

(***************************************************************************)
(* checkTimers, per talk group.  The audio timeout is looked at first and  *)
(* clears sql_timeout_cnt, so that one expiry never stops a talker twice.  *)
(***************************************************************************)
\* Mutant: one second more than the age is kept for.
AudioTimedOutLate(info) == info.talker # NoClient /\ info.idle > IdleMax

AudioTimedOut(info) ==
    info.talker # NoClient /\ info.idle > TALKER_AUDIO_TIMEOUT

SqlTimedOut(info) ==
    info.talker # NoClient /\ ~AudioTimedOut(info) /\ info.sqlCnt = 1

TimedOut(info) == AudioTimedOut(info) \/ SqlTimedOut(info)

\* Mutant: the count is not counted down.
CheckedNoCount(tg, info) ==
    IF TimedOut(info) THEN TalkerSet(tg, info, NoClient) ELSE info

Checked(tg, info) ==
    IF TimedOut(info) THEN TalkerSet(tg, info, NoClient)
    ELSE IF info.talker # NoClient /\ info.sqlCnt > 0
           THEN [info EXCEPT !.sqlCnt = @ - 1]
           ELSE info

CheckTimersCall(h) ==
    LET stopped == {tg \in DOMAIN h.idMap : TimedOut(h.idMap[tg])}
    IN [h EXCEPT
          !.idMap = [tg \in DOMAIN @ |-> Checked(tg, @[tg])],
          !.updated = {[tg |-> tg, old |-> h.idMap[tg].talker, new |-> NoClient] :
                         tg \in stopped},
          !.qsy = {tg \in stopped : AsksQsy(tg, h.idMap[tg], NoClient)}]

-----------------------------------------------------------------------------
(***************************************************************************)
(* The actions: the calls the reflector makes, each with the condition the *)
(* caller tests first.                                                     *)
(***************************************************************************)
Done(h) == /\ idMap' = h.idMap
           /\ clientMap' = h.clientMap
           /\ updated' = h.updated
           /\ qsy' = h.qsy

Init == /\ idMap = [tg \in {} |-> NewTGInfo]
        /\ clientMap = [c \in {} |-> NoTG]
        /\ sqlTimeout \in SqlTimeouts
        /\ allow \in AllowSets
        /\ due = 0
        /\ updated = {}
        /\ qsy = {}
        /\ blocked = {}

(***************************************************************************)
(* ReflectorClient::setTg: a client selects a talk group; it ends up in    *)
(* none when it may not have the one it asked for.                         *)
(***************************************************************************)
SelectTG(c, tg) ==
    /\ Done(IF SwitchAllowed(Call, c, tg)
              THEN SwitchTo(Call, c, tg)
              ELSE SwitchTo(SwitchTo(Call, c, tg), c, NoTG))
    /\ blocked' = {}
    /\ UNCHANGED <<sqlTimeout, allow, due>>

(***************************************************************************)
(* The client is disconnected and its object deleted.                      *)
(***************************************************************************)
Disconnect(c) ==
    /\ Done(RemoveClient(Call, c))
    /\ blocked' = {}
    /\ UNCHANGED <<sqlTimeout, allow, due>>

(***************************************************************************)
(* The MsgUdpAudio branch of udpDatagramReceived: audio from c makes it    *)
(* the talker when nobody talks, and refreshes the timestamp of the talker.*)
(***************************************************************************)
\* Mutant: audio takes the floor whoever talks.
AudioReceivedOverTalker(c) ==
    LET tg == TGForClient(Call, c)
    IN /\ tg # NoTG
       /\ Done(SetTalkerForTG(SetTalkerForTG(Call, tg, c), tg, c))
       /\ blocked' = {}
       /\ UNCHANGED <<sqlTimeout, allow, due>>

AudioReceived(c) ==
    LET tg == TGForClient(Call, c)
        started == IF TalkerForTG(Call, tg) = NoClient
                     THEN SetTalkerForTG(Call, tg, c) ELSE Call
    IN /\ tg # NoTG
       /\ TalkerForTG(started, tg) = c
       /\ Done(SetTalkerForTG(started, tg, c))
       /\ blocked' = {}
       /\ UNCHANGED <<sqlTimeout, allow, due>>

(***************************************************************************)
(* The MsgUdpFlushSamples branch: the talker says that it is done.         *)
(***************************************************************************)
FlushReceived(c) ==
    LET tg == TGForClient(Call, c)
    IN /\ tg # NoTG
       /\ TalkerForTG(Call, tg) = c
       /\ Done(SetTalkerForTG(Call, tg, NoClient))
       /\ blocked' = {}
       /\ UNCHANGED <<sqlTimeout, allow, due>>

(***************************************************************************)
(* One second of wall clock time passes and the periodic timer expires; a  *)
(* busy event loop may serve the expiry late.                              *)
(***************************************************************************)
Aged(info) == [info EXCEPT !.idle = IF @ < IdleMax THEN @ + 1 ELSE @,
                           !.qsyIn = IF @ >= 0 THEN @ - 1 ELSE @]

SecondPasses ==
    /\ due < MaxLate
    /\ due' = due + 1
    /\ idMap' = [tg \in DOMAIN idMap |-> Aged(idMap[tg])]
    /\ updated' = {} /\ qsy' = {} /\ blocked' = {}
    /\ UNCHANGED <<clientMap, sqlTimeout, allow>>

CheckTimers ==
    /\ due > 0
    /\ due' = due - 1
    /\ Done(CheckTimersCall(Call))
    /\ blocked' = {idMap[tg].talker :
                     tg \in {t \in DOMAIN idMap : SqlTimedOut(idMap[t])}}
    /\ UNCHANGED <<sqlTimeout, allow>>

(***************************************************************************)
(* The operator changes the configuration of the running reflector.        *)
(***************************************************************************)
SetSqlTimeout(t) ==
    /\ sqlTimeout' = t
    /\ updated' = {} /\ qsy' = {} /\ blocked' = {}
    /\ UNCHANGED <<idMap, clientMap, allow, due>>

SetAllow(a) ==
    /\ allow' = a
    /\ updated' = {} /\ qsy' = {} /\ blocked' = {}
    /\ UNCHANGED <<idMap, clientMap, sqlTimeout, due>>

Next == \/ \E c \in Clients, tg \in TGs \cup {NoTG} : SelectTG(c, tg)
        \/ \E c \in Clients : Disconnect(c)
        \/ \E c \in Clients : AudioReceived(c)
        \/ \E c \in Clients : FlushReceived(c)
        \/ SecondPasses
        \/ CheckTimers
        \/ \E t \in SqlTimeouts : SetSqlTimeout(t)
        \/ \E a \in AllowSets : SetAllow(a)

(***************************************************************************)
(* The clock runs and the event loop serves the timer.  Nothing is assumed *)
(* of the clients.                                                         *)
(***************************************************************************)
Fairness == WF_vars(SecondPasses) /\ WF_vars(CheckTimers)

Spec == Init /\ [][Next]_vars

FairSpec == Spec /\ Fairness

-----------------------------------------------------------------------------
(***************************************************************************)
(* Properties                                                              *)
(***************************************************************************)

(***************************************************************************)
(* Every variable has its type.                                            *)
(***************************************************************************)
TypeOK ==
    /\ DOMAIN idMap \subseteq TGs
    /\ idMap \in [DOMAIN idMap -> TGInfo]
    /\ DOMAIN clientMap \subseteq Clients
    /\ clientMap \in [DOMAIN clientMap -> TGs]
    /\ sqlTimeout \in SqlTimeouts
    /\ allow \in AllowSets
    /\ due \in 0 .. MaxLate
    /\ updated \subseteq [tg : TGs, old : Clients \cup {NoClient},
                          new : Clients \cup {NoClient}]
    /\ qsy \subseteq TGs
    /\ blocked \subseteq Clients

(***************************************************************************)
(* The two maps of the handler agree: a client is in the set of exactly    *)
(* the talk group clientMap points it to, no pointer dangles, and a talk   *)
(* group nobody is in has been deleted (switchTo, removeClientP).          *)
(***************************************************************************)
MapsAgree ==
    /\ \A tg \in DOMAIN idMap :
         /\ idMap[tg].clients = {c \in DOMAIN clientMap : clientMap[c] = tg}
         /\ idMap[tg].clients # {}
    /\ \A c \in DOMAIN clientMap : clientMap[c] \in DOMAIN idMap

(***************************************************************************)
(* The talker pointer of a talk group is null or one of its clients, so it *)
(* never outlives the client object (removeClient, removeClientP).         *)
(***************************************************************************)
TalkerIsMember ==
    \A tg \in DOMAIN idMap :
      idMap[tg].talker \in idMap[tg].clients \cup {NoClient}

(***************************************************************************)
(* The objects of the handler are sound in every state: no counter wraps   *)
(* around, and no pointer dangles, whichever order clients move, talk, run *)
(* into time-outs and are deleted in.                                      *)
(***************************************************************************)
HandlerSound == TypeOK /\ MapsAgree /\ TalkerIsMember

(***************************************************************************)
(* The handler implements the abstract floor control.                      *)
(***************************************************************************)
Member == [c \in Clients |-> TGForClient(Call, c)]
Floor == [tg \in TGs |-> TalkerForTG(Call, tg)]

FC == INSTANCE FloorControl WITH member <- Member, floor <- Floor

FloorControlSpec == FC!Spec

(***************************************************************************)
(* Every change of a talker is signalled with talkerUpdated, by the right  *)
(* names; the one exception is a talker that leaves the talk group, whom   *)
(* removeClientP drops without a signal.                                   *)
(***************************************************************************)
SilentOnlyWhenLeaving ==
    [][\A tg \in TGs :
         Floor'[tg] # Floor[tg] =>
           \/ [tg |-> tg, old |-> Floor[tg], new |-> Floor'[tg]] \in updated'
           \/ Floor'[tg] = NoClient /\ Member'[Floor[tg]] # tg]_vars

(***************************************************************************)
(* A talker whose audio stops without a flush does not keep the floor: the *)
(* floor is free again and again unless audio keeps coming (checkTimers).  *)
(***************************************************************************)
FloorIsFreed ==
    \A tg \in TGs :
      \/ []<>(TalkerForTG(Call, tg) = NoClient)
      \/ []<><<\E c \in Clients : TGForClient(Call, c) = tg /\ AudioReceived(c)>>_vars

(***************************************************************************)
(* A talker that took the floor under a squelch timeout loses it, however  *)
(* much audio it sends and however the configuration changes meanwhile.    *)
(***************************************************************************)
SqlTimeoutStops ==
    \A tg \in TGs :
      (tg \in DOMAIN idMap /\ idMap[tg].talker # NoClient /\ idMap[tg].sqlCnt > 0)
        ~> (TalkerForTG(Call, tg) = NoClient)
=============================================================================
