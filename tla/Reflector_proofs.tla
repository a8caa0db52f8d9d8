--------------------------- MODULE Reflector_proofs ---------------------------
(***************************************************************************)
(* Proofs about the reflector at work, for any number of clients and talk  *)
(* groups: client objects, talk group handler and status page agree, every *)
(* audio stream is flushed, the floor is never given to a blocked client,  *)
(* everybody is told when a talker stops, and the whole implements         *)
(* FloorControl.tla.                                                       *)
(*                                                                         *)
(* What the calls of the talk group handler do is cited from the proofs    *)
(* about TGHandler.tla; a few lemmas turn them into what a client of the   *)
(* handler sees of a call: who is in which talk group, who talks, for how  *)
(* long the audio has been gone, and the signals.                          *)
(***************************************************************************)
EXTENDS Reflector, TLAPS

H == INSTANCE TGHandler_proofs WITH
        AllowSets <- {Allow}, allow <- Allow,
        SqlTimeouts <- {SqlTimeout}, sqlTimeout <- SqlTimeout,
        AutoQsyAfter <- [tg \in TGs |-> 0],
        updated <- {}, qsy <- {}, blocked <- {}

(***************************************************************************)
(* The constants of the reflector are constants of its handler.            *)
(***************************************************************************)
LEMMA HandlerConstants == H!ConstantAssumption
  BY ConstantAssumption DEF H!ConstantAssumption

(***************************************************************************)
(* The two instances of the handler have the same operators.               *)
(***************************************************************************)
LEMMA SameOperators ==
  /\ TG!Call = H!Call
  /\ \A h, c : TG!TGForClient(h, c) = H!TGForClient(h, c)
  /\ \A h, tg : TG!TalkerForTG(h, tg) = H!TalkerForTG(h, tg)
  /\ \A h, tg, c : TG!SetTalkerForTG(h, tg, c) = H!SetTalkerForTG(h, tg, c)
  BY DEF TG!Call, H!Call, TG!TGForClient, H!TGForClient,
         TG!TalkerForTG, H!TalkerForTG, TG!SetTalkerForTG, H!SetTalkerForTG,
         TG!TalkerSet, H!TalkerSet, TG!AsksQsy, H!AsksQsy, TG!QsyUnset, H!QsyUnset

(***************************************************************************)
(* Selecting a talk group, the whole of switchTo, is the same in both.     *)
(***************************************************************************)
LEMMA SameSwitch ==
  /\ \A h, c, tg : TG!SwitchAllowed(h, c, tg) = H!SwitchAllowed(h, c, tg)
  /\ \A h, c, tg : TG!SwitchTo(h, c, tg) = H!SwitchTo(h, c, tg)
  BY DEF TG!SwitchAllowed, H!SwitchAllowed, TG!SwitchTo, H!SwitchTo,
         TG!AllowTgSelection, H!AllowTgSelection, TG!TGForClient, H!TGForClient,
         TG!RemoveClientP, H!RemoveClientP, TG!Restrict, H!Restrict,
         TG!AddClient, H!AddClient, TG!NewTGInfo, H!NewTGInfo,
         TG!QsyUnset, H!QsyUnset, TG!IdleMax, H!IdleMax

(***************************************************************************)
(* Removing a client is the same in both.                                  *)
(***************************************************************************)
LEMMA SameRemove == \A h, c : TG!RemoveClient(h, c) = H!RemoveClient(h, c)
<1>1. \A h, c : TG!RemoveClientP(h, c) = H!RemoveClientP(h, c)
  BY DEF TG!RemoveClientP, H!RemoveClientP, TG!Restrict, H!Restrict
<1>2. QED
  BY <1>1, SameOperators DEF TG!RemoveClient, H!RemoveClient

(***************************************************************************)
(* The periodic check of the timers is the same in both.                   *)
(***************************************************************************)
LEMMA SameTimers ==
  /\ \A h : TG!CheckTimersCall(h) = H!CheckTimersCall(h)
  /\ \A info : TG!SqlTimedOut(info) = H!SqlTimedOut(info)
<1>1. \A info : /\ TG!AudioTimedOut(info) = H!AudioTimedOut(info)
                /\ TG!SqlTimedOut(info) = H!SqlTimedOut(info)
                /\ TG!TimedOut(info) = H!TimedOut(info)
  BY DEF TG!TimedOut, H!TimedOut, TG!AudioTimedOut, H!AudioTimedOut,
         TG!SqlTimedOut, H!SqlTimedOut
<1>2. \A tg, info, c : TG!AsksQsy(tg, info, c) = H!AsksQsy(tg, info, c)
  BY DEF TG!AsksQsy, H!AsksQsy
<1>3. \A tg, info, c : TG!TalkerSet(tg, info, c) = H!TalkerSet(tg, info, c)
  BY DEF TG!TalkerSet, H!TalkerSet, TG!AsksQsy, H!AsksQsy, TG!QsyUnset, H!QsyUnset
<1>4. \A tg, info : TG!Checked(tg, info) = H!Checked(tg, info)
  BY <1>1, <1>3 DEF TG!Checked, H!Checked
<1>5. QED
  BY <1>1, <1>2, <1>4 DEF TG!CheckTimersCall, H!CheckTimersCall

-----------------------------------------------------------------------------
Talker(h, tg) == TG!TalkerForTG(h, tg)

\* The audio of the talkers that stay is as old after the call as before.
KeepsIdle(h) ==
    \A tg \in DOMAIN h.idMap : h.idMap[tg].talker # NoClient =>
      tg \in DOMAIN idMap /\ h.idMap[tg].idle = idMap[tg].idle

\* h is the present handler with the client x moved to another talk group.
Moves(h, x, to) ==
    /\ H!HandlerOK(h)
    /\ \A y \in Clients : TG!TGForClient(h, y) = IF y = x THEN to ELSE TGOf(y)
    /\ \A tg \in TGs : Talker(h, tg) = IF Talker(Now, tg) = x THEN NoClient
                                       ELSE Talker(Now, tg)
    /\ KeepsIdle(h)

Signal(tg, old, new) == [tg |-> tg, old |-> old, new |-> new]

\* h is the present handler with some talkers stopped, and that signalled.
Stopping(h) ==
    /\ H!HandlerOK(h)
    /\ \A y \in Clients : TG!TGForClient(h, y) = TGOf(y)
    /\ \A tg \in TGs : \/ Talker(h, tg) = Talker(Now, tg)
                       \/ /\ Talker(h, tg) = NoClient
                          /\ Signal(tg, Talker(Now, tg), NoClient) \in h.updated
    /\ KeepsIdle(h)

(***************************************************************************)
(* A sound handler gives sound answers; TG #0 never has a talker.          *)
(***************************************************************************)
LEMMA SoundAnswers ==
  ASSUME NEW h, H!HandlerOK(h)
  PROVE  /\ \A y \in Clients : TG!TGForClient(h, y) \in TGs \cup {NoTG}
         /\ \A y \in Clients : TG!TGForClient(h, y) = NoTG <=>
                                  y \notin DOMAIN h.clientMap
         /\ \A y \in Clients : TG!TGForClient(h, y) # NoTG =>
                                  TG!TGForClient(h, y) \in DOMAIN h.idMap
         /\ \A tg : Talker(h, tg) \in Clients \cup {NoClient}
         /\ \A tg : Talker(h, tg) # NoClient =>
              tg \in TGs /\ TG!TGForClient(h, Talker(h, tg)) = tg
         /\ h.updated \subseteq H!Signals
<1>1. /\ H!IsIdMap(h.idMap) /\ H!IsClientMap(h.clientMap)
      /\ H!Consistent(h.idMap, h.clientMap) /\ h.updated \subseteq H!Signals
  BY DEF H!HandlerOK, H!IsHandler
<1>2. \A tg \in DOMAIN h.idMap : /\ tg \in TGs
                                 /\ h.idMap[tg].clients \subseteq Clients
                                 /\ h.idMap[tg].talker \in Clients \cup {NoClient}
  BY <1>1 DEF H!IsIdMap, H!TGInfo
<1>3. \A y \in DOMAIN h.clientMap : y \in Clients /\ h.clientMap[y] \in TGs
  BY <1>1 DEF H!IsClientMap
<1>4. \A tg \in DOMAIN h.idMap : h.idMap[tg].talker # NoClient =>
         /\ h.idMap[tg].talker \in DOMAIN h.clientMap
         /\ h.clientMap[h.idMap[tg].talker] = tg
  BY <1>1 DEF H!Consistent
<1>5. \A y \in DOMAIN h.clientMap : h.clientMap[y] \in DOMAIN h.idMap
  BY <1>1 DEF H!Consistent
<1>6. QED
  BY <1>1, <1>2, <1>3, <1>4, <1>5, ConstantAssumption
     DEF TG!TGForClient, TG!TalkerForTG, Talker

(***************************************************************************)
(* The present handler is sound.                                           *)
(***************************************************************************)
LEMMA SoundNow == H!IInv => H!HandlerOK(Now)
  BY H!CallOK, HandlerConstants, SameOperators DEF Now

(***************************************************************************)
(* Installing a sound handler keeps the handler sound, and makes its       *)
(* answers those of the next state.                                        *)
(***************************************************************************)
LEMMA Install ==
  ASSUME NEW h, H!HandlerOK(h), Handled(h), due' \in 0 .. MaxLate
  PROVE  /\ H!IInv'
         /\ \A y : TGOf(y)' = TG!TGForClient(h, y)
         /\ \A tg : Talker(Now, tg)' = Talker(h, tg)
<1>1. /\ H!IsIdMap(h.idMap) /\ H!IsClientMap(h.clientMap)
      /\ H!Consistent(h.idMap, h.clientMap)
  BY DEF H!HandlerOK, H!IsHandler
<1>2. H!TypeOK'
  BY <1>1 DEF Handled, H!TypeOK, H!IsIdMap, H!IsClientMap, H!TGInfo
<1>3. H!MapsAgree' /\ H!TalkerIsMember'
  BY <1>1 DEF Handled, H!MapsAgree, H!TalkerIsMember, H!Consistent, H!IsIdMap
<1>4. QED
  BY <1>2, <1>3 DEF H!IInv, Handled, Now, TGOf, Talker, TG!Call,
                    TG!TGForClient, TG!TalkerForTG

-----------------------------------------------------------------------------
(***************************************************************************)
(* switchTo leaves the age of the audio of every talk group alone.         *)
(***************************************************************************)
LEMMA SwitchIdle ==
  ASSUME NEW h, H!HandlerOK(h), NEW x \in Clients, NEW tg \in TGs \cup {NoTG}
  PROVE  LET g == H!SwitchTo(h, x, tg)
         IN \A t \in DOMAIN g.idMap : g.idMap[t].talker # NoClient =>
              t \in DOMAIN h.idMap /\ g.idMap[t].idle = h.idMap[t].idle
<1> DEFINE left == IF x \in DOMAIN h.clientMap THEN H!RemoveClientP(h, x) ELSE h
           g == H!SwitchTo(h, x, tg)
<1>1. H!HandlerOK(left)
  BY H!RemoveClientPOK, HandlerConstants
<1>2. \A t \in DOMAIN left.idMap : t \in DOMAIN h.idMap
                                   /\ left.idMap[t].idle = h.idMap[t].idle
  <2>1. CASE x \notin DOMAIN h.clientMap
    BY <2>1
  <2>2. CASE x \in DOMAIN h.clientMap
    <3> DEFINE o == h.clientMap[x]
               info == [h.idMap[o] EXCEPT !.clients = @ \ {x},
                                          !.talker = IF @ = x THEN NoClient ELSE @]
    <3>1. /\ o \in DOMAIN h.idMap /\ h.idMap[o] \in H!TGInfo
          /\ h.idMap \in [DOMAIN h.idMap -> H!TGInfo]
      BY <2>2 DEF H!HandlerOK, H!IsHandler, H!IsIdMap, H!Consistent
    <3>2. info.idle = h.idMap[o].idle
      BY <3>1 DEF H!TGInfo
    <3> HIDE DEF info
    <3>3. left.idMap = IF info.clients = {}
                         THEN [t \in DOMAIN h.idMap \ {o} |-> h.idMap[t]]
                         ELSE [h.idMap EXCEPT ![o] = info]
      BY <2>2, <3>1 DEF H!RemoveClientP, H!Restrict, H!HandlerOK, H!IsHandler, info
    <3> HIDE DEF left, o
    <3>4. QED
      BY <3>1, <3>2, <3>3
  <2>3. QED
    BY <2>1, <2>2
<1> HIDE DEF left
<1>3. ASSUME tg # NoTG
      PROVE  LET a == H!AddClient(left, x, tg)
             IN \A t \in DOMAIN a.idMap : a.idMap[t].talker # NoClient =>
                  t \in DOMAIN left.idMap /\ a.idMap[t].idle = left.idMap[t].idle
  <2> DEFINE a == H!AddClient(left, x, tg)
             was == IF tg \in DOMAIN left.idMap THEN left.idMap[tg] ELSE H!NewTGInfo
             info == [was EXCEPT !.clients = @ \cup {x}]
  <2>1. left.idMap \in [DOMAIN left.idMap -> H!TGInfo]
    BY <1>1 DEF H!HandlerOK, H!IsHandler, H!IsIdMap
  <2>2. a.idMap = [t \in DOMAIN left.idMap \cup {tg} |->
                     IF t = tg THEN info ELSE left.idMap[t]]
    BY <1>1 DEF H!AddClient, H!HandlerOK, H!IsHandler
  <2>3. info.talker = was.talker /\ info.idle = was.idle
    BY <2>1 DEF H!TGInfo, H!NewTGInfo
  <2>4. tg \notin DOMAIN left.idMap => info.talker = NoClient
    BY <2>3 DEF H!NewTGInfo
  <2> HIDE DEF a, info
  <2>5. \A t \in DOMAIN a.idMap : a.idMap[t].talker # NoClient =>
          t \in DOMAIN left.idMap /\ a.idMap[t].idle = left.idMap[t].idle
    BY <2>2, <2>3, <2>4
  <2>6. QED
    BY <2>5 DEF a
<1>4. \/ g = h
      \/ g = left
      \/ tg # NoTG /\ g = H!AddClient(left, x, tg)
  BY DEF H!SwitchTo, left
<1> HIDE DEF g
<1>5. CASE g = h \/ g = left
  BY <1>2, <1>5 DEF g
<1>6. CASE tg # NoTG /\ g = H!AddClient(left, x, tg)
  BY <1>2, <1>3, <1>6 DEF g
<1>7. QED
  BY <1>4, <1>5, <1>6

(***************************************************************************)
(* What Moved says of the abstract variables, said of the answers.         *)
(***************************************************************************)
LEMMA MovedAnswers ==
  ASSUME NEW h, NEW x \in Clients, NEW to, H!Moved(Now, h, x, to)
  PROVE  /\ \A y \in Clients : TG!TGForClient(h, y) = IF y = x THEN to ELSE TGOf(y)
         /\ \A tg \in TGs : Talker(h, tg) = IF Talker(Now, tg) = x THEN NoClient
                                            ELSE Talker(Now, tg)
<1>1. \A y \in Clients : H!MemberOf(h)[y] = [H!MemberOf(Now) EXCEPT ![x] = to][y]
  BY DEF H!Moved
<1>2. \A tg \in TGs : H!FloorOf(h)[tg] = IF H!FloorOf(Now)[tg] = x THEN NoClient
                                         ELSE H!FloorOf(Now)[tg]
  BY DEF H!Moved
<1>3. QED
  BY <1>1, <1>2, SameOperators DEF H!MemberOf, H!FloorOf, TGOf, Talker

(***************************************************************************)
(* setTg moves the client, unless it selects what it has; a selection that *)
(* is refused leaves it in no talk group.                                  *)
(***************************************************************************)
LEMMA SetTgMoves ==
  ASSUME H!IInv, NEW x \in Clients, NEW tg \in TGs \cup {NoTG},
         TGOf(x) = curTG[x], tg # curTG[x]
  PROVE  Moves(SetTg(x, tg), x, TGSet(x, tg))
<1> DEFINE first == H!SwitchTo(Now, x, tg)
           to == IF tg # NoTG /\ H!AllowTgSelection(x, tg) THEN tg ELSE NoTG
<1>1. H!HandlerOK(Now) /\ H!HandlerOK(first)
  BY SoundNow, H!SwitchToOK, HandlerConstants
<1>2. H!TGForClient(Now, x) # tg
  BY SameOperators DEF TGOf
<1>3. H!Moved(Now, first, x, to)
  BY <1>1, <1>2, H!SwitchToMoves, HandlerConstants
<1>4. KeepsIdle(first)
  <2>1. Now.idMap = idMap
    BY DEF Now, TG!Call
  <2>2. QED
    BY <1>1, <2>1, SwitchIdle DEF KeepsIdle
<1> HIDE DEF first
<1>5. Moves(first, x, to)
  BY <1>1, <1>3, <1>4, MovedAnswers DEF Moves
<1>6. SetTg(x, tg) = IF H!SwitchAllowed(Now, x, tg) THEN first
                     ELSE H!SwitchTo(first, x, NoTG)
  BY SameSwitch DEF SetTg, first
<1>7. TGSet(x, tg) = IF H!SwitchAllowed(Now, x, tg) THEN tg ELSE NoTG
  BY SameSwitch DEF TGSet
<1>8. CASE H!SwitchAllowed(Now, x, tg)
  <2>1. to = tg
    BY <1>2, <1>8 DEF H!SwitchAllowed
  <2>2. QED
    BY <1>5, <1>6, <1>7, <1>8, <2>1
<1>9. CASE ~H!SwitchAllowed(Now, x, tg)
  <2>1. to = NoTG
    BY <1>9 DEF H!SwitchAllowed
  <2>2. H!TGForClient(first, x) = NoTG
    BY <1>5, <2>1, SameOperators DEF Moves
  <2>3. H!SwitchTo(first, x, NoTG) = first
    BY <1>1, <2>2, H!SwitchToMoves, HandlerConstants
  <2>4. QED
    BY <1>5, <1>6, <1>7, <1>9, <2>1, <2>3
<1>10. QED
  BY <1>8, <1>9

(***************************************************************************)
(* setTalkerForTG sets one talker, and signals it when it is another one.  *)
(***************************************************************************)
LEMMA SetTalkerAnswers ==
  ASSUME H!IInv, NEW h, H!HandlerOK(h), NEW tg \in TGs, tg \in DOMAIN h.idMap,
         NEW c \in h.idMap[tg].clients \cup {NoClient}
  PROVE  LET g == TG!SetTalkerForTG(h, tg, c)
         IN /\ H!HandlerOK(g)
            /\ g.clientMap = h.clientMap
            /\ \A y \in Clients : TG!TGForClient(g, y) = TG!TGForClient(h, y)
            /\ \A t \in TGs : Talker(g, t) = IF t = tg THEN c ELSE Talker(h, t)
            /\ h.updated \subseteq g.updated
            /\ Talker(h, tg) # c => Signal(tg, Talker(h, tg), c) \in g.updated
            /\ DOMAIN g.idMap = DOMAIN h.idMap
            /\ \A t \in DOMAIN h.idMap : t # tg => g.idMap[t] = h.idMap[t]
<1> DEFINE g == H!SetTalkerForTG(h, tg, c)
<1>1. c \in H!ClientsForTG(h, tg) \cup {NoClient}
  BY DEF H!ClientsForTG
<1>2. c \in Clients \cup {NoClient}
  BY DEF H!HandlerOK, H!IsHandler, H!IsIdMap, H!TGInfo
<1>3. H!HandlerOK(g)
  BY <1>1, H!SetTalkerForTGOK, HandlerConstants
<1>4. /\ H!MemberOf(g) = H!MemberOf(h)
      /\ H!FloorOf(g) = [H!FloorOf(h) EXCEPT ![tg] = c]
      /\ g.clientMap = h.clientMap
      /\ h.updated \subseteq g.updated
      /\ H!FloorOf(h)[tg] # c =>
           [tg |-> tg, old |-> H!FloorOf(h)[tg], new |-> c] \in g.updated
  BY <1>2, H!SetTalkerChangesFloor, HandlerConstants
<1>5. /\ DOMAIN g.idMap = DOMAIN h.idMap
      /\ \A t \in DOMAIN h.idMap : t # tg => g.idMap[t] = h.idMap[t]
  <2>1. PICK i : g.idMap = [h.idMap EXCEPT ![tg] = i]
    <3>1. h = [idMap |-> h.idMap, clientMap |-> h.clientMap,
               updated |-> h.updated, qsy |-> h.qsy]
      BY DEF H!HandlerOK, H!IsHandler
    <3>2. CASE c = h.idMap[tg].talker
      BY <3>1, <3>2 DEF H!SetTalkerForTG
    <3>3. CASE c # h.idMap[tg].talker
      BY <3>1, <3>3 DEF H!SetTalkerForTG
    <3>4. QED
      BY <3>2, <3>3
  <2>2. QED
    BY <2>1 DEF H!HandlerOK, H!IsHandler, H!IsIdMap
<1>6. H!FloorOf(h)[tg] = Talker(h, tg)
  BY SameOperators DEF H!FloorOf, Talker
<1> HIDE DEF g
<1>7. \A t \in TGs : Talker(g, t) = IF t = tg THEN c ELSE Talker(h, t)
  <2>1. \A t \in TGs : H!FloorOf(g)[t] = [H!FloorOf(h) EXCEPT ![tg] = c][t]
    BY <1>4
  <2>2. QED
    BY <2>1, SameOperators DEF H!FloorOf, Talker
<1>8. \A y \in Clients : TG!TGForClient(g, y) = TG!TGForClient(h, y)
  BY <1>4 DEF TG!TGForClient
<1>9. g = TG!SetTalkerForTG(h, tg, c)
  BY SameOperators DEF g
<1>10. QED
  BY <1>3, <1>4, <1>5, <1>6, <1>7, <1>8, <1>9 DEF Signal

(***************************************************************************)
(* removeClient: the client leaves its talk group, and when it was talking *)
(* there that is signalled first.                                          *)
(***************************************************************************)
LEMMA RemoveMoves ==
  ASSUME H!IInv, NEW x \in Clients
  PROVE  /\ Moves(TG!RemoveClient(Now, x), x, NoTG)
         /\ \A tg \in TGs : Talker(Now, tg) = x =>
              Signal(tg, x, NoClient) \in TG!RemoveClient(Now, x).updated
<1> DEFINE tg == TGOf(x)
           talks == Talker(Now, tg) = x
           quiet == IF talks THEN TG!SetTalkerForTG(Now, tg, NoClient) ELSE Now
           g == TG!RemoveClient(Now, x)
<1>1. H!HandlerOK(Now) /\ x # NoClient /\ Now.idMap = idMap
  BY SoundNow, ConstantAssumption DEF Now, TG!Call
<1>2. CASE x \notin DOMAIN Now.clientMap
  <2>1. g = Now
    BY <1>2 DEF TG!RemoveClient
  <2>2. TGOf(x) = NoTG /\ \A t \in TGs : Talker(Now, t) # x
    BY <1>1, <1>2, SoundAnswers, ConstantAssumption DEF TGOf
  <2>3. KeepsIdle(Now)
    BY <1>1 DEF KeepsIdle
  <2>4. QED
    BY <1>1, <2>1, <2>2, <2>3 DEF Moves, TGOf
<1>3. CASE x \in DOMAIN Now.clientMap
  <2>1. /\ tg \in TGs /\ tg \in DOMAIN Now.idMap
        /\ tg = Now.clientMap[x]
    BY <1>1, <1>3, SoundAnswers DEF TGOf, TG!TGForClient
  <2>2. /\ H!HandlerOK(quiet) /\ quiet.clientMap = Now.clientMap
        /\ \A y \in Clients : TG!TGForClient(quiet, y) = TGOf(y)
        /\ \A t \in TGs : Talker(quiet, t) = IF t = tg /\ talks THEN NoClient
                                             ELSE Talker(Now, t)
        /\ talks => Signal(tg, x, NoClient) \in quiet.updated
        /\ DOMAIN quiet.idMap = DOMAIN Now.idMap
        /\ \A t \in DOMAIN Now.idMap : (t = tg /\ talks) \/ quiet.idMap[t] = Now.idMap[t]
    <3> DEFINE s == TG!SetTalkerForTG(Now, tg, NoClient)
    <3>1. /\ H!HandlerOK(s) /\ s.clientMap = Now.clientMap
          /\ \A y \in Clients : TG!TGForClient(s, y) = TG!TGForClient(Now, y)
          /\ \A t \in TGs : Talker(s, t) = IF t = tg THEN NoClient ELSE Talker(Now, t)
          /\ Talker(Now, tg) # NoClient =>
               Signal(tg, Talker(Now, tg), NoClient) \in s.updated
          /\ DOMAIN s.idMap = DOMAIN Now.idMap
          /\ \A t \in DOMAIN Now.idMap : t # tg => s.idMap[t] = Now.idMap[t]
      <4> HIDE DEF tg
      <4>1. QED
        BY <1>1, <2>1, SetTalkerAnswers
    <3>2. \A y \in Clients : TG!TGForClient(Now, y) = TGOf(y)
      BY DEF TGOf
    <3>3. quiet = IF talks THEN s ELSE Now
      OBVIOUS
    <3>4. talks => Talker(Now, tg) = x
      OBVIOUS
    <3> HIDE DEF quiet, s, tg, talks
    <3>5. QED
      BY <1>1, <3>1, <3>2, <3>3, <3>4
  <2>3. g = H!RemoveClientP(quiet, x)
    <3>1. TG!RemoveClientP(quiet, x) = H!RemoveClientP(quiet, x)
      BY DEF TG!RemoveClientP, H!RemoveClientP, TG!Restrict, H!Restrict
    <3>2. QED
      BY <1>3, <2>1, <3>1 DEF TG!RemoveClient, Talker
  <2> HIDE DEF quiet, g
  <2>4. H!HandlerOK(g) /\ H!Moved(quiet, g, x, NoTG)
    BY <1>3, <2>2, <2>3, H!RemoveClientPOK, H!RemoveClientPMoves, HandlerConstants
  <2>5. /\ \A y \in Clients : TG!TGForClient(g, y) = IF y = x THEN NoTG ELSE TGOf(y)
        /\ \A t \in TGs : Talker(g, t) = IF Talker(quiet, t) = x THEN NoClient
                                         ELSE Talker(quiet, t)
    <3>1. \A y \in Clients : H!MemberOf(g)[y] = [H!MemberOf(quiet) EXCEPT ![x] = NoTG][y]
      BY <2>4 DEF H!Moved
    <3>2. \A t \in TGs : H!FloorOf(g)[t] = IF H!FloorOf(quiet)[t] = x THEN NoClient
                                           ELSE H!FloorOf(quiet)[t]
      BY <2>4 DEF H!Moved
    <3>3. QED
      BY <2>2, <3>1, <3>2, SameOperators DEF H!MemberOf, H!FloorOf, Talker
  <2>6. \A t \in TGs : Talker(Now, t) = x => t = tg
    BY <1>1, SoundAnswers DEF TGOf
  <2>7. \A t \in TGs : Talker(g, t) = IF Talker(Now, t) = x THEN NoClient
                                      ELSE Talker(Now, t)
    BY <1>1, <2>2, <2>5, <2>6
  <2>8. g.updated = quiet.updated
    BY <2>2, <2>3 DEF H!RemoveClientP, H!HandlerOK, H!IsHandler
  <2>9. \A t \in DOMAIN g.idMap : /\ t \in DOMAIN quiet.idMap
                                  /\ g.idMap[t].idle = quiet.idMap[t].idle
    <3> DEFINE info == [quiet.idMap[tg] EXCEPT !.clients = @ \ {x},
                                               !.talker = IF @ = x THEN NoClient ELSE @]
    <3>1. quiet.idMap \in [DOMAIN quiet.idMap -> H!TGInfo]
      BY <2>2 DEF H!HandlerOK, H!IsHandler, H!IsIdMap
    <3>2. info.idle = quiet.idMap[tg].idle
      BY <2>1, <2>2, <3>1 DEF H!TGInfo
    <3>3. g.idMap = IF info.clients = {}
                      THEN [t \in DOMAIN quiet.idMap \ {tg} |-> quiet.idMap[t]]
                      ELSE [quiet.idMap EXCEPT ![tg] = info]
      BY <2>1, <2>2, <2>3, <3>1 DEF H!RemoveClientP, H!Restrict, H!HandlerOK, H!IsHandler
    <3> HIDE DEF info, tg
    <3>4. QED
      BY <2>1, <2>2, <3>1, <3>2, <3>3
  <2>10. KeepsIdle(g)
    <3>1. \A t \in DOMAIN g.idMap : g.idMap[t].talker = Talker(g, t)
      BY DEF Talker, TG!TalkerForTG
    <3>2. \A t \in DOMAIN g.idMap : t \in TGs
      BY <2>4 DEF H!HandlerOK, H!IsHandler, H!IsIdMap
    <3>3. \A t \in DOMAIN g.idMap : g.idMap[t].talker # NoClient => ~(t = tg /\ talks)
      BY <2>7, <3>1, <3>2
    <3> HIDE DEF tg, talks
    <3>4. QED
      BY <1>1, <2>2, <2>9, <3>3 DEF KeepsIdle
  <2>11. Moves(g, x, NoTG)
    BY <2>4, <2>5, <2>7, <2>10 DEF Moves
  <2>12. \A t \in TGs : Talker(Now, t) = x => Signal(t, x, NoClient) \in g.updated
    BY <2>2, <2>6, <2>8
  <2>13. QED
    BY <2>11, <2>12 DEF g
<1>4. QED
  BY <1>2, <1>3

(***************************************************************************)
(* Audio that is relayed makes its sender the talker of the talk group it  *)
(* is in, where nobody else was talking.                                   *)
(***************************************************************************)
LEMMA AudioTakes ==
  ASSUME H!IInv, NEW x \in Clients, Relays(x)
  PROVE  LET tg == TGOf(x)
             h == TG!SetTalkerForTG(AudioTalker(x), tg, x)
         IN /\ H!HandlerOK(h)
            /\ tg \in TGs
            /\ Talker(Now, tg) \in {NoClient, x}
            /\ \A y \in Clients : TG!TGForClient(h, y) = TGOf(y)
            /\ \A t \in TGs : Talker(h, t) = IF t = tg THEN x ELSE Talker(Now, t)
            /\ Talker(Now, tg) # x => Signal(tg, NoClient, x) \in h.updated
            /\ \A t \in DOMAIN h.idMap : t # tg =>
                 t \in DOMAIN idMap /\ h.idMap[t] = idMap[t]
<1> DEFINE tg == TGOf(x)
           s == AudioTalker(x)
           h == TG!SetTalkerForTG(s, tg, x)
<1>1. /\ H!HandlerOK(Now) /\ x # NoClient /\ Now.idMap = idMap
      /\ tg # NoTG /\ Talker(s, tg) = x
  BY SoundNow, ConstantAssumption DEF Now, TG!Call, Relays, Talker
<1>2. tg \in TGs /\ tg \in DOMAIN Now.idMap /\ TG!TGForClient(Now, x) = tg
  BY <1>1, SoundAnswers DEF TGOf
<1>3. x \in Now.idMap[tg].clients
  BY <1>1, <1>2 DEF H!HandlerOK, H!Consistent, TG!TGForClient
<1>4. /\ H!HandlerOK(s)
      /\ \A y \in Clients : TG!TGForClient(s, y) = TG!TGForClient(Now, y)
      /\ Talker(Now, tg) \in {NoClient, x}
      /\ \A t \in TGs : Talker(s, t) = IF t = tg THEN x ELSE Talker(Now, t)
      /\ Talker(Now, tg) # x => Signal(tg, NoClient, x) \in s.updated
      /\ DOMAIN s.idMap = DOMAIN Now.idMap
      /\ \A t \in DOMAIN Now.idMap : t # tg => s.idMap[t] = Now.idMap[t]
  <2>1. CASE Talker(Now, tg) = NoClient
    <3>1. s = TG!SetTalkerForTG(Now, tg, x)
      BY <2>1 DEF AudioTalker, Talker
    <3> HIDE DEF s, tg
    <3>2. QED
      BY <1>1, <1>2, <1>3, <2>1, <3>1, SetTalkerAnswers
  <2>2. CASE Talker(Now, tg) # NoClient
    <3>1. s = Now
      BY <2>2 DEF AudioTalker, Talker
    <3> HIDE DEF s, tg
    <3>2. QED
      BY <1>1, <2>2, <3>1
  <2>3. QED
    BY <2>1, <2>2
<1> HIDE DEF s, tg, h
<1>5. x \in s.idMap[tg].clients
  <2>1. TG!TGForClient(s, x) = tg
    BY <1>2, <1>4
  <2>2. tg \in DOMAIN s.idMap
    BY <1>2, <1>4
  <2>3. s.clientMap[x] = tg /\ x \in DOMAIN s.clientMap
    BY <1>1, <2>1 DEF TG!TGForClient, tg
  <2>4. QED
    BY <1>4, <2>2, <2>3 DEF H!HandlerOK, H!Consistent
<1>6. /\ H!HandlerOK(h)
      /\ \A y \in Clients : TG!TGForClient(h, y) = TG!TGForClient(s, y)
      /\ \A t \in TGs : Talker(h, t) = IF t = tg THEN x ELSE Talker(s, t)
      /\ s.updated \subseteq h.updated
      /\ DOMAIN h.idMap = DOMAIN s.idMap
      /\ \A t \in DOMAIN s.idMap : t # tg => h.idMap[t] = s.idMap[t]
  BY <1>2, <1>4, <1>5, SetTalkerAnswers DEF h
<1>7. \A y \in Clients : TG!TGForClient(h, y) = TGOf(y)
  BY <1>4, <1>6 DEF TGOf
<1>8. QED
  <2>1. /\ H!HandlerOK(h)
        /\ tg \in TGs
        /\ Talker(Now, tg) \in {NoClient, x}
        /\ \A t \in TGs : Talker(h, t) = IF t = tg THEN x ELSE Talker(Now, t)
        /\ Talker(Now, tg) # x => Signal(tg, NoClient, x) \in h.updated
        /\ \A t \in DOMAIN h.idMap : t # tg =>
             t \in DOMAIN idMap /\ h.idMap[t] = idMap[t]
    BY <1>1, <1>2, <1>4, <1>6
  <2>2. QED
    BY <1>7, <2>1 DEF h, s, tg

(***************************************************************************)
(* checkTimers stops some talkers, and signals each of them.               *)
(***************************************************************************)
LEMMA TimersStop ==
  ASSUME H!IInv
  PROVE  Stopping(TG!CheckTimersCall(Now))
<1> DEFINE h == H!CheckTimersCall(Now)
           stopped == {t \in DOMAIN Now.idMap : H!TimedOut(Now.idMap[t])}
<1>1. /\ H!HandlerOK(Now) /\ Now.idMap = idMap
      /\ Now.idMap \in [DOMAIN Now.idMap -> H!TGInfo] /\ DOMAIN Now.idMap \subseteq TGs
  BY SoundNow DEF Now, TG!Call, H!HandlerOK, H!IsHandler, H!IsIdMap
<1>2. H!HandlerOK(h)
  BY <1>1, H!CheckTimersOK, HandlerConstants
<1>3. /\ h.idMap = [t \in DOMAIN Now.idMap |-> H!Checked(t, Now.idMap[t])]
      /\ h.clientMap = Now.clientMap
      /\ \A t \in stopped :
           [tg |-> t, old |-> Now.idMap[t].talker, new |-> NoClient] \in h.updated
  BY DEF H!CheckTimersCall, Now, TG!Call
<1>4. ASSUME NEW t \in DOMAIN Now.idMap
      PROVE  /\ t \in stopped => h.idMap[t].talker = NoClient
             /\ t \notin stopped => /\ h.idMap[t].talker = Now.idMap[t].talker
                                    /\ h.idMap[t].idle = Now.idMap[t].idle
  <2>1. t \in TGs /\ Now.idMap[t] \in H!TGInfo /\ h.idMap[t] = H!Checked(t, Now.idMap[t])
    BY <1>1, <1>3
  <2> HIDE DEF h
  <2>2. CASE H!TimedOut(Now.idMap[t])
    <3>1. H!TalkerSet(t, Now.idMap[t], NoClient).talker = NoClient
      BY <2>1, H!TalkerSetType, HandlerConstants
    <3>2. QED
      BY <2>1, <2>2, <3>1 DEF H!Checked
  <2>3. CASE ~H!TimedOut(Now.idMap[t])
    BY <2>1, <2>3 DEF H!Checked, H!TGInfo
  <2>4. QED
    BY <2>2, <2>3
<1> HIDE DEF h
<1>5. DOMAIN h.idMap = DOMAIN Now.idMap
  BY <1>3
<1>6. \A y \in Clients : TG!TGForClient(h, y) = TGOf(y)
  BY <1>3 DEF TGOf, TG!TGForClient
<1>7. ASSUME NEW t \in TGs
      PROVE  \/ Talker(h, t) = Talker(Now, t)
             \/ /\ Talker(h, t) = NoClient
                /\ Signal(t, Talker(Now, t), NoClient) \in h.updated
  <2>1. CASE t \in stopped
    BY <1>3, <1>4, <1>5, <2>1 DEF Talker, TG!TalkerForTG, Signal
  <2>2. CASE t \notin stopped
    <3> HIDE DEF stopped
    <3>1. QED
      BY <1>4, <1>5, <2>2 DEF Talker, TG!TalkerForTG
  <2>3. QED
    BY <2>1, <2>2
<1>8. KeepsIdle(h)
  <2> HIDE DEF stopped
  <2>1. QED
    BY <1>1, <1>4, <1>5 DEF KeepsIdle
<1>9. h = TG!CheckTimersCall(Now)
  BY SameTimers DEF h
<1>10. QED
  BY <1>2, <1>6, <1>7, <1>8, <1>9 DEF Stopping

-----------------------------------------------------------------------------
(***************************************************************************)
(* The inductive invariant: the handler is sound, the variables have their *)
(* types, and of each client: its talk group is what the handler has, a    *)
(* client that is gone is in no talk group, its status is up to date, and  *)
(* an open stream is in a talk group where somebody else talks, of a node  *)
(* that a flush can reach.                                                 *)
(***************************************************************************)
ClientTypes ==
    /\ session \in [Clients -> {"none", "connected", "closing"}]
    /\ curTG \in [Clients -> TGs \cup {NoTG}]
    /\ mon \in [Clients -> SUBSET TGs]
    /\ udp \in [Clients -> BOOLEAN]
    /\ status \in [Clients -> {"none", "idle", "talking"}]
    /\ block \in [Clients -> Nat] /\ remaining \in [Clients -> Nat]
    /\ open \in [Clients -> BOOLEAN]
    /\ told \subseteq [to : Clients, tg : TGs, who : Clients]
    /\ aborted \in BOOLEAN

InSync == \A y \in Clients : TGOf(y) = curTG[y]

Gone == \A y \in Clients : session[y] = "none" =>
          curTG[y] = NoTG /\ status[y] = "none" /\ ~open[y]

Fresh == \A y \in Clients : status[y] # "none" => status[y] = IsTalker(Now, y, curTG[y])

Streams == \A y \in Clients : session[y] = "connected" /\ open[y] =>
             udp[y] /\ Talker(Now, curTG[y]) \notin {NoClient, y}

Inv == H!IInv /\ ClientTypes /\ InSync /\ Gone /\ Fresh /\ Streams

(***************************************************************************)
(* The properties of Reflector.tla that follow from the invariant.         *)
(***************************************************************************)
LEMMA InvTypes == Inv => TypeOK
  BY DEF Inv, ClientTypes, TypeOK, H!IInv, H!TypeOK, TG!TGInfo, H!TGInfo,
         TG!IdleMax, H!IdleMax

(***************************************************************************)
(* Client objects, handler and status page agree in every state of the     *)
(* invariant.                                                              *)
(***************************************************************************)
LEMMA InvViews == Inv => ViewsAgree
<1> SUFFICES ASSUME Inv PROVE ViewsAgree
  OBVIOUS
<1>1. \A y \in Clients : TGOf(y) = NoTG => y \notin DOMAIN clientMap
  BY SoundNow, SoundAnswers DEF Inv, TGOf, Now, TG!Call
<1>2. TGInSync
  BY <1>1 DEF Inv, InSync, Gone, TGInSync, Live
<1>3. StatusFresh
  BY DEF Inv, Fresh, StatusFresh, Live
<1>4. QED
  BY <1>2, <1>3 DEF ViewsAgree

(***************************************************************************)
(* An open stream has a talker in every state of the invariant.            *)
(***************************************************************************)
LEMMA InvStreams == Inv => StreamsHaveTalker
  BY DEF Inv, Streams, InSync, StreamsHaveTalker, Connected, Live, Talker

(***************************************************************************)
(* A step that installs the sound handler h re-establishes the invariant   *)
(* when each client fits h.                                                *)
(***************************************************************************)
LEMMA NextInv ==
  ASSUME NEW h, H!HandlerOK(h), Handled(h), due' \in 0 .. MaxLate, ClientTypes',
         \A y \in Clients : TG!TGForClient(h, y) = curTG'[y],
         \A y \in Clients : session'[y] = "none" =>
           curTG'[y] = NoTG /\ status'[y] = "none" /\ ~open'[y],
         \A y \in Clients : status'[y] # "none" =>
           status'[y] = IsTalker(h, y, curTG'[y]),
         \A y \in Clients : session'[y] = "connected" /\ open'[y] =>
           udp'[y] /\ Talker(h, curTG'[y]) \notin {NoClient, y}
  PROVE  Inv'
<1>1. /\ H!IInv'
      /\ \A y : TGOf(y)' = TG!TGForClient(h, y)
      /\ \A tg : Talker(Now, tg)' = Talker(h, tg)
  BY Install
<1>2. InSync'
  BY <1>1 DEF InSync
<1>3. Gone'
  BY DEF Gone
<1>4. Fresh'
  <2>1. ASSUME NEW y \in Clients
        PROVE  IsTalker(Now, y, curTG[y])' = IsTalker(h, y, curTG'[y])
    BY <1>1 DEF IsTalker, Talker
  <2>2. QED
    BY <2>1 DEF Fresh
<1>5. Streams'
  <2>1. ASSUME NEW y \in Clients
        PROVE  Talker(Now, curTG[y])' = Talker(h, curTG'[y])
    BY <1>1 DEF Talker
  <2>2. QED
    BY <2>1 DEF Streams
<1>6. QED
  BY <1>1, <1>2, <1>3, <1>4, <1>5 DEF Inv

-----------------------------------------------------------------------------
(***************************************************************************)
(* The initial states are sound.                                           *)
(***************************************************************************)
LEMMA InitInv == Init => Inv
<1> SUFFICES ASSUME Init PROVE Inv
  OBVIOUS
<1>1. H!IInv
  BY H!InitIInv, HandlerConstants
     DEF Init, H!Init, H!NewTGInfo, TG!NewTGInfo, H!IdleMax, TG!IdleMax,
         H!QsyUnset, TG!QsyUnset
<1>2. ClientTypes
  BY DEF Init, ClientTypes
<1>3. InSync
  BY DEF Init, InSync, TGOf, TG!TGForClient, Now, TG!Call
<1>4. Gone /\ Fresh /\ Streams
  BY DEF Init, Gone, Fresh, Streams
<1>5. QED
  BY <1>1, <1>2, <1>3, <1>4 DEF Inv

(***************************************************************************)
(* Each client fits the present handler.                                   *)
(***************************************************************************)
LEMMA NowFits ==
  ASSUME Inv
  PROVE  /\ H!HandlerOK(Now) /\ due \in 0 .. MaxLate
         /\ \A y \in Clients : TG!TGForClient(Now, y) = curTG[y] /\ TGOf(y) = curTG[y]
         /\ \A y \in Clients : curTG[y] \in TGs \cup {NoTG}
         /\ Now.idMap = idMap /\ Now.clientMap = clientMap /\ Now.updated = {}
         /\ NoTG \notin TGs /\ NoClient \notin Clients
  BY SoundNow, ConstantAssumption
     DEF Inv, InSync, ClientTypes, TGOf, H!IInv, H!TypeOK, Now, TG!Call

(***************************************************************************)
(* onTalkerUpdated brings the status of a client up to date, if a signal   *)
(* names it whenever it starts or stops to talk where it is.               *)
(***************************************************************************)
LEMMA StatusFollows ==
  ASSUME Inv, NEW h, NEW y \in Clients,
         \/ Talker(h, curTG[y]) = y <=> Talker(Now, curTG[y]) = y
         \/ \E u \in h.updated : y \in {u.old, u.new}
  PROVE  /\ StatusAfter(h)[y] \in {"none", "idle", "talking"}
         /\ StatusAfter(h)[y] = "none" <=> status[y] = "none"
         /\ StatusAfter(h)[y] # "none" => StatusAfter(h)[y] = IsTalker(h, y, curTG[y])
<1>1. StatusAfter(h)[y] =
        IF status[y] # "none" /\ \E u \in h.updated : y \in {u.old, u.new}
          THEN IsTalker(h, y, curTG[y]) ELSE status[y]
  BY DEF StatusAfter
<1>2. status[y] \in {"none", "idle", "talking"}
  BY DEF Inv, ClientTypes
<1>3. /\ IsTalker(h, y, curTG[y]) \in {"idle", "talking"}
      /\ (Talker(h, curTG[y]) = y <=> Talker(Now, curTG[y]) = y)
           => IsTalker(h, y, curTG[y]) = IsTalker(Now, y, curTG[y])
  BY DEF IsTalker, Talker
<1>4. status[y] # "none" => status[y] = IsTalker(Now, y, curTG[y])
  BY DEF Inv, Fresh
<1> HIDE DEF StatusAfter
<1>5. QED
  BY <1>1, <1>2, <1>3, <1>4

(***************************************************************************)
(* The messages about talkers that stop are about clients and talk groups. *)
(***************************************************************************)
LEMMA ToldType ==
  ASSUME NEW h, H!HandlerOK(h), NEW cons \in SUBSET Clients
  PROVE  ToldOf(h, cons) \subseteq [to : Clients, tg : TGs, who : Clients]
<1>1. \A u \in Stops(h) : u.tg \in TGs /\ u.old \in Clients
  BY SoundAnswers DEF Stops, H!Signals
<1>2. \A tg : Audience(tg, cons) \subseteq Clients
  BY DEF Audience
<1>3. ASSUME NEW m \in ToldOf(h, cons)
      PROVE  m \in [to : Clients, tg : TGs, who : Clients]
  <2>1. PICK u \in Stops(h) :
          m \in {[to |-> y, tg |-> u.tg, who |-> u.old] : y \in Audience(u.tg, cons)}
    BY <1>3 DEF ToldOf
  <2>2. QED
    BY <1>1, <1>2, <2>1
<1>4. QED
  BY <1>3

(***************************************************************************)
(* A login.                                                                *)
(***************************************************************************)
LEMMA LoginInv ==
  ASSUME Inv, NEW x \in Clients, Login(x)
  PROVE  Inv'
<1> DEFINE tg == IF Ver[x] < 2 THEN V1TG ELSE NoTG
           h == SetTg(x, tg)
<1>1. tg \in TGs \cup {NoTG} /\ TGOf(x) = curTG[x] /\ H!IInv /\ curTG[x] = NoTG
      /\ status[x] = "none" /\ ~open[x]
  BY ConstantAssumption, NowFits DEF Inv, Gone, Login
<1>2. \A y \in Clients : Talker(Now, curTG[y]) # x
  BY <1>1, NowFits, SoundAnswers
<1>3. /\ H!HandlerOK(h)
      /\ TGSet(x, tg) \in TGs \cup {NoTG}
      /\ \A y \in Clients : TG!TGForClient(h, y) = IF y = x THEN TGSet(x, tg) ELSE curTG[y]
      /\ \A y \in Clients \ {x} : Talker(h, curTG[y]) = Talker(Now, curTG[y])
  <2>1. CASE tg = curTG[x]
    BY <2>1, NowFits DEF SetTg, TGSet
  <2>2. CASE tg # curTG[x]
    <3>1. Moves(h, x, TGSet(x, tg)) /\ TGSet(x, tg) \in TGs \cup {NoTG}
      BY <1>1, <2>2, SetTgMoves DEF TGSet
    <3> HIDE DEF h, tg
    <3>2. \A y \in Clients \ {x} : Talker(h, curTG[y]) = Talker(Now, curTG[y])
      <4>1. ASSUME NEW y \in Clients, curTG[y] \in TGs
            PROVE  Talker(h, curTG[y]) = Talker(Now, curTG[y])
        BY <1>2, <3>1, <4>1 DEF Moves
      <4>2. Talker(h, NoTG) = NoClient /\ Talker(Now, NoTG) = NoClient
        BY <3>1, NowFits, SoundAnswers DEF Moves
      <4>3. QED
        BY <4>1, <4>2, NowFits
    <3>3. QED
      BY <3>1, <3>2, NowFits DEF Moves
  <2>3. QED
    BY <2>1, <2>2
<1>4. /\ Handled(h) /\ due' = due /\ told' = {}
      /\ session' = [session EXCEPT ![x] = "connected"]
      /\ curTG' = [curTG EXCEPT ![x] = TGSet(x, tg)]
      /\ UNCHANGED <<mon, udp, status, block, remaining, open, aborted>>
  BY DEF Login
<1> HIDE DEF h, tg
<1>5. ClientTypes'
  BY <1>3, <1>4 DEF Inv, ClientTypes
<1>6. /\ \A y \in Clients \ {x} : session'[y] = session[y] /\ curTG'[y] = curTG[y]
      /\ session'[x] = "connected" /\ curTG'[x] = TGSet(x, tg)
  BY <1>4 DEF Inv, ClientTypes
<1>7. \A y \in Clients : TG!TGForClient(h, y) = curTG'[y]
  BY <1>3, <1>6
<1>8. \A y \in Clients : status'[y] # "none" => status'[y] = IsTalker(h, y, curTG'[y])
  BY <1>1, <1>3, <1>4, <1>6 DEF Inv, Fresh, IsTalker, Talker
<1>9. \A y \in Clients : session'[y] = "none" =>
        curTG'[y] = NoTG /\ status'[y] = "none" /\ ~open'[y]
  BY <1>4, <1>6 DEF Inv, Gone
<1>10. \A y \in Clients : session'[y] = "connected" /\ open'[y] =>
         udp'[y] /\ Talker(h, curTG'[y]) \notin {NoClient, y}
  BY <1>1, <1>3, <1>4, <1>6 DEF Inv, Streams
<1>11. due' \in 0 .. MaxLate
  BY <1>4, NowFits
<1>12. QED
  BY <1>3, <1>4, <1>5, <1>7, <1>8, <1>9, <1>10, <1>11, NextInv

(***************************************************************************)
(* The steps that leave the handler and the talk groups alone: every       *)
(* client keeps its session or is given up, has its status kept or brought *)
(* up to date, and no stream is opened.                                    *)
(***************************************************************************)
LEMMA QuietInv ==
  ASSUME Inv, ClientTypes', idMap' = idMap, clientMap' = clientMap, due' = due,
         curTG' = curTG, open' = open,
         \A y \in Clients : \/ session'[y] = session[y]
                            \/ session[y] = "connected" /\ session'[y] = "closing",
         \A y \in Clients : \/ status'[y] = status[y]
                            \/ /\ status'[y] = IsTalker(Now, y, curTG[y])
                               /\ session[y] = "connected",
         \A y \in Clients : session'[y] = "connected" /\ udp[y] => udp'[y]
  PROVE  Inv'
<1>1. Handled(Now) /\ H!HandlerOK(Now) /\ due' \in 0 .. MaxLate
  BY NowFits DEF Handled
<1>2. \A y \in Clients : TG!TGForClient(Now, y) = curTG'[y]
  BY NowFits
<1>3. \A y \in Clients : session'[y] = "none" =>
        curTG'[y] = NoTG /\ status'[y] = "none" /\ ~open'[y]
  BY DEF Inv, Gone
<1>4. \A y \in Clients : status'[y] # "none" => status'[y] = IsTalker(Now, y, curTG'[y])
  BY DEF Inv, Fresh
<1>5. \A y \in Clients : session'[y] = "connected" /\ open'[y] =>
        udp'[y] /\ Talker(Now, curTG'[y]) \notin {NoClient, y}
  BY DEF Inv, Streams
<1>6. QED
  BY <1>1, <1>2, <1>3, <1>4, <1>5, NextInv

(***************************************************************************)
(* The client messages, heartbeats and blocks that change no talker.       *)
(***************************************************************************)
LEMMA HandleNodeInfoInv ==
  ASSUME Inv, NEW x \in Clients, HandleNodeInfo(x)
  PROVE  Inv'
<1>1. ClientTypes'
  BY DEF Inv, ClientTypes, HandleNodeInfo, IsTalker
<1>2. \A y \in Clients : \/ status'[y] = status[y]
                         \/ /\ status'[y] = IsTalker(Now, y, curTG[y])
                            /\ session[y] = "connected"
  BY DEF Inv, ClientTypes, HandleNodeInfo, Connected
<1>3. QED
  BY <1>1, <1>2, QuietInv DEF HandleNodeInfo

(***************************************************************************)
(* MsgTgMonitor changes what is monitored only.                            *)
(***************************************************************************)
LEMMA HandleTgMonitorInv ==
  ASSUME Inv, NEW x \in Clients, NEW tgs \in MonitorSets, HandleTgMonitor(x, tgs)
  PROVE  Inv'
<1>1. \A tg : <<x, tg>> \in Allow => tg \in TGs
  BY ConstantAssumption
<1>2. {tg \in tgs : <<x, tg>> \in Allow} \in SUBSET TGs
  BY <1>1
<1>3. ClientTypes'
  BY <1>2 DEF Inv, ClientTypes, HandleTgMonitor
<1>4. QED
  BY <1>3, QuietInv DEF HandleTgMonitor

(***************************************************************************)
(* A UDP heartbeat registers the node; nobody gets unreachable by it.      *)
(***************************************************************************)
LEMMA UdpHeartbeatInv ==
  ASSUME Inv, NEW x \in Clients, UdpHeartbeat(x)
  PROVE  Inv'
<1>1. ClientTypes' /\ \A y \in Clients : udp[y] => udp'[y]
  BY DEF Inv, ClientTypes, UdpHeartbeat, Heard
<1>2. QED
  BY <1>1, QuietInv DEF UdpHeartbeat

(***************************************************************************)
(* sendError gives a client up; its stream ceases to count, its talk       *)
(* group stays until it is deleted.                                        *)
(***************************************************************************)
LEMMA SendErrorInv ==
  ASSUME Inv, NEW x \in Clients, SendError(x)
  PROVE  Inv'
<1>1. ClientTypes'
  BY DEF Inv, ClientTypes, SendError
<1>2. \A y \in Clients : /\ y # x => session'[y] = session[y] /\ udp'[y] = udp[y]
                         /\ y = x => session[y] = "connected" /\ session'[y] = "closing"
  BY DEF Inv, ClientTypes, SendError, Connected
<1>3. QED
  BY <1>1, <1>2, QuietInv DEF SendError

(***************************************************************************)
(* handleHeartbeat counts the block times only.                            *)
(***************************************************************************)
LEMMA HandleHeartbeatInv ==
  ASSUME Inv, NEW x \in Clients, HandleHeartbeat(x)
  PROVE  Inv'
<1>1. ClientTypes'
  BY DEF Inv, ClientTypes, HandleHeartbeat, BlockCounted, RemainingCounted
<1>2. QED
  BY <1>1, QuietInv DEF HandleHeartbeat

(***************************************************************************)
(* The command NODE BLOCK sets the block times only.                       *)
(***************************************************************************)
LEMMA NodeBlockInv ==
  ASSUME Inv, NEW x \in Clients, NEW t \in BlockTimes, NodeBlock(x, t)
  PROVE  Inv'
<1>1. ClientTypes'
  BY ConstantAssumption DEF Inv, ClientTypes, NodeBlock
<1>2. QED
  BY <1>1, QuietInv DEF NodeBlock

(***************************************************************************)
(* The failing assertion ends the server and changes nothing else.         *)
(***************************************************************************)
LEMMA AbortInv ==
  ASSUME Inv, NEW x \in Clients, RemoteCloseOfTalker(x)
  PROVE  Inv'
<1>1. ClientTypes'
  BY DEF Inv, ClientTypes, RemoteCloseOfTalker, clientVars
<1>2. QED
  BY <1>1, QuietInv DEF RemoteCloseOfTalker, clientVars

(***************************************************************************)
(* The selection of a talk group: the streams of the talk group a talker   *)
(* leaves are flushed, and the stream of a listener that leaves.           *)
(***************************************************************************)
LEMMA HandleSelectTGInv ==
  ASSUME Inv, NEW x \in Clients, NEW tg \in TGs \cup {NoTG}, HandleSelectTG(x, tg)
  PROVE  Inv'
<1> DEFINE h == SetTg(x, tg)
           to == TGSet(x, tg)
<1>1. /\ Moves(h, x, to) /\ to \in TGs \cup {NoTG}
      /\ Handled(h) /\ due' = due /\ told' = {}
      /\ curTG' = [curTG EXCEPT ![x] = to]
      /\ session[x] = "connected"
      /\ status' = [status EXCEPT ![x] = IF @ = "none" THEN @ ELSE IsTalker(h, x, to)]
      /\ open' = [y \in Clients |-> open[y] /\ y \notin FlushedOnSelect(x)]
      /\ UNCHANGED <<session, mon, udp, block, remaining, aborted>>
  BY SetTgMoves, NowFits DEF Inv, InSync, HandleSelectTG, TGSet, Connected
<1> HIDE DEF h, to
<1>2. ClientTypes'
  BY <1>1 DEF Inv, ClientTypes, IsTalker
<1>3. /\ \A y \in Clients \ {x} : curTG'[y] = curTG[y] /\ status'[y] = status[y]
      /\ curTG'[x] = to
      /\ status'[x] = IF status[x] = "none" THEN "none" ELSE IsTalker(h, x, to)
  BY <1>1 DEF Inv, ClientTypes
<1>4. \A y \in Clients : TG!TGForClient(h, y) = curTG'[y]
  BY <1>1, <1>3, NowFits DEF Moves
<1>5. \A y \in Clients : Talker(h, curTG[y]) = IF Talker(Now, curTG[y]) = x THEN NoClient
                                              ELSE Talker(Now, curTG[y])
  <2>1. ASSUME NEW y \in Clients, curTG[y] \in TGs
        PROVE  Talker(h, curTG[y]) = IF Talker(Now, curTG[y]) = x THEN NoClient
                                     ELSE Talker(Now, curTG[y])
    BY <1>1, <2>1 DEF Moves
  <2>2. Talker(h, NoTG) = NoClient /\ Talker(Now, NoTG) = NoClient
    BY <1>1, NowFits, SoundAnswers DEF Moves
  <2>3. QED
    BY <2>1, <2>2, NowFits
<1>6. \A y \in Clients : status'[y] # "none" => status'[y] = IsTalker(h, y, curTG'[y])
  <2>1. \A y \in Clients \ {x} : status[y] # "none" =>
          IsTalker(h, y, curTG[y]) = IsTalker(Now, y, curTG[y])
    BY <1>5, ConstantAssumption DEF IsTalker, Talker
  <2>2. QED
    BY <1>3, <2>1 DEF Inv, Fresh
<1>7. \A y \in Clients : session'[y] = "none" =>
        curTG'[y] = NoTG /\ status'[y] = "none" /\ ~open'[y]
  BY <1>1, <1>3 DEF Inv, Gone
<1>8. ASSUME NEW y \in Clients, session'[y] = "connected", open'[y]
      PROVE  udp'[y] /\ Talker(h, curTG'[y]) \notin {NoClient, y}
  <2>1. /\ session[y] = "connected" /\ open[y] /\ y \notin FlushedOnSelect(x)
        /\ udp[y] /\ Talker(Now, curTG[y]) \notin {NoClient, y}
    BY <1>1, <1>8 DEF Inv, Streams
  <2>2. y # x
    <3>1. y = x => FlushedOnSelect(x) = {x}
      BY <2>1 DEF FlushedOnSelect, Talker
    <3>2. QED
      BY <2>1, <3>1
  <2>3. Talker(Now, curTG[y]) # x
    <3>1. SUFFICES ASSUME Talker(Now, curTG[y]) = x PROVE FALSE
      OBVIOUS
    <3>2. curTG[y] = curTG[x]
      BY <3>1, NowFits, SoundAnswers
    <3>3. y \in Connected
      BY <2>1 DEF Connected, Live, HandleSelectTG
    <3>4. y \in FlushedOnSelect(x)
      BY <2>1, <2>2, <3>1, <3>2, <3>3, NowFits DEF FlushedOnSelect, Talker
    <3>5. QED
      BY <2>1, <3>4
  <2>4. QED
    BY <1>1, <1>3, <1>5, <2>1, <2>2, <2>3
<1>9. due' \in 0 .. MaxLate /\ H!HandlerOK(h)
  BY <1>1, NowFits DEF Moves
<1>10. QED
  BY <1>1, <1>2, <1>4, <1>6, <1>7, <1>8, <1>9, NextInv

(***************************************************************************)
(* Audio.  When it is relayed its sender is the talker, so the streams it  *)
(* opens have one; when it is not, only the block time changes.            *)
(***************************************************************************)
LEMMA UdpAudioInv ==
  ASSUME Inv, NEW x \in Clients, UdpAudio(x)
  PROVE  Inv'
<1> DEFINE tg == TGOf(x)
           g == TG!SetTalkerForTG(AudioTalker(x), tg, x)
           h == IF Relays(x) THEN g ELSE Now
           reached == IF Relays(x)
                        THEN {y \in Connected \ {x} : TGOf(y) = tg /\ udp[y]} ELSE {}
<1>1. /\ x \in Live /\ udp' = [udp EXCEPT ![x] = TRUE]
      /\ remaining' = [remaining EXCEPT ![x] = RemainingAfterAudio(x)]
      /\ Handled(h)
      /\ status' = StatusAfter(h)
      /\ open' = [y \in Clients |-> open[y] \/ y \in reached]
      /\ told' = {} /\ due' = due
      /\ UNCHANGED <<session, curTG, mon, block, aborted>>
  BY DEF UdpAudio, Heard
<1>2. /\ H!HandlerOK(h)
      /\ \A y \in Clients : TG!TGForClient(h, y) = curTG[y]
      /\ \A t \in TGs : \/ Talker(h, t) = Talker(Now, t)
                        \/ /\ Relays(x) /\ t = tg /\ Talker(Now, t) = NoClient
                           /\ Talker(h, t) = x
                           /\ Signal(t, NoClient, x) \in h.updated
      /\ Relays(x) => tg \in TGs /\ Talker(h, tg) = x
  <2>1. CASE Relays(x)
    <3>1. /\ H!HandlerOK(g)
          /\ tg \in TGs
          /\ Talker(Now, tg) \in {NoClient, x}
          /\ \A y \in Clients : TG!TGForClient(g, y) = TGOf(y)
          /\ \A t \in TGs : Talker(g, t) = IF t = tg THEN x ELSE Talker(Now, t)
          /\ Talker(Now, tg) # x => Signal(tg, NoClient, x) \in g.updated
      BY <2>1, AudioTakes DEF Inv
    <3>2. h = g
      BY <2>1
    <3> HIDE DEF g, h, tg
    <3>3. QED
      BY <2>1, <3>1, <3>2, NowFits
  <2>2. CASE ~Relays(x)
    BY <2>2, NowFits
  <2>3. QED
    BY <2>1, <2>2
<1> HIDE DEF g, h
<1>3. ASSUME NEW y \in Clients
      PROVE  \/ Talker(h, curTG[y]) = y <=> Talker(Now, curTG[y]) = y
             \/ \E u \in h.updated : y \in {u.old, u.new}
  <2>1. CASE curTG[y] \in TGs
    <3>1. Signal(curTG[y], NoClient, x).new = x
      BY DEF Signal
    <3>2. QED
      BY <1>2, <2>1, <3>1, NowFits
  <2>2. CASE curTG[y] = NoTG
    BY <1>2, <2>2, NowFits, SoundAnswers
  <2>3. QED
    BY <2>1, <2>2, NowFits
<1>4. \A y \in Clients : /\ status'[y] \in {"none", "idle", "talking"}
                         /\ status'[y] = "none" <=> status[y] = "none"
                         /\ status'[y] # "none" => status'[y] = IsTalker(h, y, curTG[y])
  BY <1>1, <1>3, StatusFollows
<1>5. ClientTypes'
  <2>1. status' \in [Clients -> {"none", "idle", "talking"}]
    <3>1. DOMAIN status' = Clients /\ status' = [y \in Clients |-> status'[y]]
      BY <1>1 DEF StatusAfter
    <3>2. QED
      BY <1>4, <3>1
  <2>2. RemainingAfterAudio(x) \in Nat
    BY DEF RemainingAfterAudio, Inv, ClientTypes
  <2>3. open' \in [Clients -> BOOLEAN]
    BY <1>1 DEF Inv, ClientTypes
  <2> HIDE DEF reached
  <2>4. QED
    BY <1>1, <2>1, <2>2, <2>3 DEF Inv, ClientTypes
<1>6. \A y \in Clients : session'[y] = "none" =>
        curTG'[y] = NoTG /\ status'[y] = "none" /\ ~open'[y]
  <2>1. \A y \in reached : session[y] = "connected"
    BY DEF Connected
  <2> HIDE DEF reached
  <2>2. QED
    BY <1>1, <1>4, <2>1 DEF Inv, Gone
<1>7. ASSUME NEW y \in Clients, session'[y] = "connected", open'[y]
      PROVE  udp'[y] /\ Talker(h, curTG'[y]) \notin {NoClient, y}
  <2>1. udp[y] => udp'[y]
    BY <1>1 DEF Inv, ClientTypes
  <2>2. CASE y \in reached
    <3>1. Relays(x) /\ y # x /\ TGOf(y) = tg /\ udp[y]
      BY <2>2
    <3>2. Talker(h, curTG[y]) = x
      BY <1>2, <3>1, NowFits
    <3>3. QED
      BY <1>1, <2>1, <3>1, <3>2, NowFits
  <2>3. CASE y \notin reached
    <3> HIDE DEF reached, tg
    <3>1. open[y] /\ session[y] = "connected"
      BY <1>1, <1>7, <2>3
    <3>2. udp[y] /\ Talker(Now, curTG[y]) \notin {NoClient, y}
      BY <3>1 DEF Inv, Streams
    <3>3. curTG[y] \in TGs
      BY <3>2, NowFits, SoundAnswers
    <3>4. Talker(h, curTG[y]) = Talker(Now, curTG[y])
      BY <1>2, <3>2, <3>3
    <3>5. QED
      BY <1>1, <2>1, <3>2, <3>4
  <2>4. QED
    BY <2>2, <2>3
<1>8. QED
  BY <1>1, <1>2, <1>4, <1>5, <1>6, <1>7, NowFits, NextInv

(***************************************************************************)
(* A call that stops talkers, signals them, and is followed by the flushes *)
(* of onTalkerUpdated leaves no stream open without a talker.              *)
(***************************************************************************)
LEMMA StopsFlush ==
  ASSUME Inv, NEW h, H!HandlerOK(h), NEW cons,
         NEW y \in Clients, session[y] = "connected", open[y], y \in cons,
         y \notin FlushedBy(h, cons),
         \A t \in TGs : \/ Talker(h, t) = Talker(Now, t)
                        \/ Signal(t, Talker(Now, t), NoClient) \in h.updated
  PROVE  udp[y] /\ Talker(h, curTG[y]) \notin {NoClient, y}
<1>1. udp[y] /\ Talker(Now, curTG[y]) \notin {NoClient, y}
  BY DEF Inv, Streams
<1>2. curTG[y] \in TGs
  BY <1>1, NowFits, SoundAnswers
<1>3. Signal(curTG[y], Talker(Now, curTG[y]), NoClient) \notin h.updated
  <2>1. SUFFICES ASSUME Signal(curTG[y], Talker(Now, curTG[y]), NoClient) \in h.updated
                 PROVE  FALSE
    OBVIOUS
  <2> DEFINE u == Signal(curTG[y], Talker(Now, curTG[y]), NoClient)
  <2>2. u \in Stops(h) /\ u.tg = curTG[y] /\ u.old # y
    BY <1>1, <2>1 DEF Stops, Signal
  <2>3. TGOf(y) = u.tg
    BY <2>2, NowFits
  <2> HIDE DEF u
  <2>4. y \in FlushedBy(h, cons)
    BY <1>1, <2>2, <2>3 DEF FlushedBy
  <2>5. QED
    BY <2>4
<1>4. QED
  BY <1>1, <1>2, <1>3

(***************************************************************************)
(* The end of a talk spurt: the flush of the talker, and the timers.       *)
(***************************************************************************)
LEMMA StopsInv ==
  ASSUME Inv, NEW h, Stopping(h), Signalled(h, Connected),
         due' \in 0 .. MaxLate, session' = session, curTG' = curTG, mon' = mon,
         udp' \in [Clients -> BOOLEAN], \A y \in Clients : udp[y] => udp'[y],
         block' \in [Clients -> Nat], remaining' \in [Clients -> Nat],
         aborted' = aborted, ~aborted
  PROVE  Inv'
<1>1. /\ Handled(h) /\ status' = StatusAfter(h) /\ told' = ToldOf(h, Connected)
      /\ open' = [y \in Clients |-> open[y] /\ y \notin FlushedBy(h, Connected)]
      /\ H!HandlerOK(h) /\ \A y \in Clients : TG!TGForClient(h, y) = curTG[y]
      /\ \A t \in TGs : \/ Talker(h, t) = Talker(Now, t)
                        \/ /\ Talker(h, t) = NoClient
                           /\ Signal(t, Talker(Now, t), NoClient) \in h.updated
  BY NowFits DEF Signalled, Stopping
<1>2. ASSUME NEW y \in Clients
      PROVE  \/ Talker(h, curTG[y]) = y <=> Talker(Now, curTG[y]) = y
             \/ \E u \in h.updated : y \in {u.old, u.new}
  <2>1. CASE curTG[y] \in TGs
    <3>1. Signal(curTG[y], Talker(Now, curTG[y]), NoClient).old = Talker(Now, curTG[y])
      BY DEF Signal
    <3>2. y # NoClient
      BY ConstantAssumption
    <3>3. QED
      BY <1>1, <2>1, <3>1, <3>2
  <2>2. CASE curTG[y] = NoTG
    BY <1>1, <2>2, NowFits, SoundAnswers
  <2>3. QED
    BY <2>1, <2>2, NowFits
<1>3. \A y \in Clients : /\ status'[y] \in {"none", "idle", "talking"}
                         /\ status'[y] = "none" <=> status[y] = "none"
                         /\ status'[y] # "none" => status'[y] = IsTalker(h, y, curTG[y])
  BY <1>1, <1>2, StatusFollows
<1>4. \A y \in Clients : session'[y] = "none" =>
        curTG'[y] = NoTG /\ status'[y] = "none" /\ ~open'[y]
  BY <1>1, <1>3 DEF Inv, Gone
<1>5. ASSUME NEW y \in Clients, session'[y] = "connected", open'[y]
      PROVE  udp'[y] /\ Talker(h, curTG'[y]) \notin {NoClient, y}
  <2>1. y \in Connected /\ open[y] /\ y \notin FlushedBy(h, Connected)
        /\ session[y] = "connected"
    BY <1>1, <1>5 DEF Connected, Live
  <2>2. udp[y] /\ Talker(h, curTG[y]) \notin {NoClient, y}
    BY <1>1, <2>1, StopsFlush
  <2>3. QED
    BY <2>2
<1>6. ClientTypes'
  <2>1. status' \in [Clients -> {"none", "idle", "talking"}]
    <3>1. DOMAIN status' = Clients /\ status' = [y \in Clients |-> status'[y]]
      BY <1>1 DEF StatusAfter
    <3>2. QED
      BY <1>3, <3>1
  <2>2. told' \subseteq [to : Clients, tg : TGs, who : Clients]
    <3>1. Connected \in SUBSET Clients
      BY DEF Connected, Live
    <3>2. QED
      BY <1>1, <3>1, ToldType
  <2>3. open' \in [Clients -> BOOLEAN]
    BY <1>1 DEF Inv, ClientTypes
  <2>4. QED
    BY <2>1, <2>2, <2>3 DEF Inv, ClientTypes
<1>7. QED
  BY <1>1, <1>3, <1>4, <1>5, <1>6, NextInv

(***************************************************************************)
(* The flush of a talker stops it, and that of anybody else does nothing.  *)
(***************************************************************************)
FlushCall(x) ==
    IF TGOf(x) # NoTG /\ Talker(Now, TGOf(x)) = x
      THEN TG!SetTalkerForTG(Now, TGOf(x), NoClient) ELSE Now

(***************************************************************************)
(* FlushCall is a call that can only stop talkers.                         *)
(***************************************************************************)
LEMMA FlushStops ==
  ASSUME H!IInv, NEW x \in Clients
  PROVE  Stopping(FlushCall(x))
<1>1. H!HandlerOK(Now) /\ Now.idMap = idMap
  BY SoundNow DEF Now, TG!Call
<1>2. KeepsIdle(Now)
  BY <1>1 DEF KeepsIdle
<1>3. CASE ~(TGOf(x) # NoTG /\ Talker(Now, TGOf(x)) = x)
  BY <1>1, <1>2, <1>3 DEF FlushCall, Stopping, TGOf
<1>4. CASE TGOf(x) # NoTG /\ Talker(Now, TGOf(x)) = x
  <2> DEFINE tg == TGOf(x)
             h == TG!SetTalkerForTG(Now, tg, NoClient)
  <2>1. tg \in TGs /\ tg \in DOMAIN Now.idMap /\ Talker(Now, tg) # NoClient
    BY <1>1, <1>4, SoundAnswers, ConstantAssumption DEF TGOf
  <2>2. h = FlushCall(x)
    BY <1>4 DEF FlushCall
  <2> HIDE DEF tg
  <2>3. /\ H!HandlerOK(h)
        /\ \A y \in Clients : TG!TGForClient(h, y) = TG!TGForClient(Now, y)
        /\ \A t \in TGs : Talker(h, t) = IF t = tg THEN NoClient ELSE Talker(Now, t)
        /\ Signal(tg, Talker(Now, tg), NoClient) \in h.updated
        /\ DOMAIN h.idMap = DOMAIN Now.idMap
        /\ \A t \in DOMAIN Now.idMap : t # tg => h.idMap[t] = Now.idMap[t]
    BY <1>1, <2>1, SetTalkerAnswers
  <2> HIDE DEF h
  <2>4. h.idMap[tg].talker = NoClient
    BY <2>1, <2>3 DEF Talker, TG!TalkerForTG
  <2>5. KeepsIdle(h)
    BY <1>1, <2>3, <2>4 DEF KeepsIdle
  <2>6. \A y \in Clients : TG!TGForClient(h, y) = TGOf(y)
    BY <2>3 DEF TGOf
  <2>7. Stopping(h)
    BY <2>3, <2>5, <2>6 DEF Stopping
  <2>8. QED
    BY <2>2, <2>7
<1>5. QED
  BY <1>3, <1>4

(***************************************************************************)
(* A flush from a node.                                                    *)
(***************************************************************************)
LEMMA UdpFlushSamplesInv ==
  ASSUME Inv, NEW x \in Clients, UdpFlushSamples(x)
  PROVE  Inv'
<1>1. /\ x \in Live /\ udp' = [udp EXCEPT ![x] = TRUE]
      /\ Signalled(FlushCall(x), Connected)
      /\ UNCHANGED <<due, session, curTG, mon, block, remaining, aborted>>
  BY DEF UdpFlushSamples, Heard, FlushCall, Talker
<1>2. Stopping(FlushCall(x))
  BY FlushStops DEF Inv
<1>3. /\ udp' \in [Clients -> BOOLEAN] /\ \A y \in Clients : udp[y] => udp'[y]
      /\ block' \in [Clients -> Nat] /\ remaining' \in [Clients -> Nat]
      /\ due' \in 0 .. MaxLate /\ ~aborted
  BY <1>1, NowFits DEF Inv, ClientTypes, Live
<1>4. QED
  BY <1>1, <1>2, <1>3, StopsInv

(***************************************************************************)
(* The timers.                                                             *)
(***************************************************************************)
LEMMA CheckTimersInv ==
  ASSUME Inv, CheckTimers
  PROVE  Inv'
<1>1. /\ due > 0 /\ ~aborted /\ due' = due - 1
      /\ Signalled(TG!CheckTimersCall(Now), Connected)
      /\ UNCHANGED <<session, curTG, mon, udp, aborted>>
  BY DEF CheckTimers
<1>2. block' \in [Clients -> Nat] /\ remaining' \in [Clients -> Nat]
  BY ConstantAssumption DEF CheckTimers, Inv, ClientTypes
<1>3. Stopping(TG!CheckTimersCall(Now))
  BY TimersStop DEF Inv
<1>4. /\ due' \in 0 .. MaxLate
      /\ udp' \in [Clients -> BOOLEAN] /\ \A y \in Clients : udp[y] => udp'[y]
  BY <1>1, NowFits, ConstantAssumption DEF Inv, ClientTypes
<1>5. QED
  BY <1>1, <1>2, <1>3, <1>4, StopsInv

(***************************************************************************)
(* The deletion of a client; all others that are connected can be told.    *)
(***************************************************************************)
LEMMA DeletedInv ==
  ASSUME Inv, ~aborted, NEW x \in Clients, NEW cons \in SUBSET Clients,
         \A y \in Clients \ {x} : session[y] = "connected" => y \in cons,
         Deleted(x, cons)
  PROVE  Inv'
<1> DEFINE h == TG!RemoveClient(Now, x)
<1>1. /\ Handled(h) /\ told' = ToldOf(h, cons)
      /\ session' = [session EXCEPT ![x] = "none"]
      /\ curTG' = [curTG EXCEPT ![x] = NoTG]
      /\ mon' = [mon EXCEPT ![x] = {}]
      /\ udp' = [udp EXCEPT ![x] = FALSE]
      /\ status' = [StatusAfter(h) EXCEPT ![x] = "none"]
      /\ block' = [block EXCEPT ![x] = 0]
      /\ remaining' = [remaining EXCEPT ![x] = 0]
      /\ open' = [y \in Clients |-> open[y] /\ y # x /\ y \notin FlushedBy(h, cons)]
      /\ due' = due /\ aborted' = aborted
  BY DEF Deleted
<1>2. /\ Moves(h, x, NoTG)
      /\ \A tg \in TGs : Talker(Now, tg) = x => Signal(tg, x, NoClient) \in h.updated
  BY RemoveMoves DEF Inv
<1> HIDE DEF h
<1>3. /\ H!HandlerOK(h) /\ due' \in 0 .. MaxLate
      /\ \A y \in Clients : TG!TGForClient(h, y) = IF y = x THEN NoTG ELSE curTG[y]
      /\ \A tg \in TGs : Talker(h, tg) = IF Talker(Now, tg) = x THEN NoClient
                                         ELSE Talker(Now, tg)
  BY <1>1, <1>2, NowFits DEF Moves
<1>4. ASSUME NEW y \in Clients \ {x}
      PROVE  Talker(h, curTG[y]) = y <=> Talker(Now, curTG[y]) = y
  <2>1. CASE curTG[y] \in TGs
    BY <1>3, <2>1, ConstantAssumption
  <2>2. CASE curTG[y] = NoTG
    BY <1>3, <2>2, NowFits, SoundAnswers
  <2>3. QED
    BY <2>1, <2>2, NowFits
<1>5. \A y \in Clients \ {x} :
        /\ StatusAfter(h)[y] \in {"none", "idle", "talking"}
        /\ StatusAfter(h)[y] = "none" <=> status[y] = "none"
        /\ StatusAfter(h)[y] # "none" => StatusAfter(h)[y] = IsTalker(h, y, curTG[y])
  BY <1>4, StatusFollows
<1>6. /\ status'[x] = "none" /\ session'[x] = "none" /\ curTG'[x] = NoTG /\ ~open'[x]
      /\ \A y \in Clients \ {x} : /\ status'[y] = StatusAfter(h)[y]
                                  /\ session'[y] = session[y]
                                  /\ curTG'[y] = curTG[y] /\ udp'[y] = udp[y]
      /\ DOMAIN status' = Clients
      /\ status' = [y \in Clients |-> status'[y]]
  BY <1>1 DEF Inv, ClientTypes, StatusAfter
<1>7. ClientTypes'
  <2>1. status' \in [Clients -> {"none", "idle", "talking"}]
    BY <1>5, <1>6
  <2>2. told' \subseteq [to : Clients, tg : TGs, who : Clients]
    BY <1>1, <1>3, ToldType
  <2>3. open' \in [Clients -> BOOLEAN]
    BY <1>1 DEF Inv, ClientTypes
  <2>4. /\ session' \in [Clients -> {"none", "connected", "closing"}]
        /\ curTG' \in [Clients -> TGs \cup {NoTG}]
        /\ mon' \in [Clients -> SUBSET TGs] /\ udp' \in [Clients -> BOOLEAN]
        /\ block' \in [Clients -> Nat] /\ remaining' \in [Clients -> Nat]
        /\ aborted' \in BOOLEAN
    BY <1>1 DEF Inv, ClientTypes
  <2>5. QED
    BY <2>1, <2>2, <2>3, <2>4 DEF ClientTypes
<1>8. \A y \in Clients : TG!TGForClient(h, y) = curTG'[y]
  BY <1>3, <1>6
<1>9. \A y \in Clients : session'[y] = "none" =>
        curTG'[y] = NoTG /\ status'[y] = "none" /\ ~open'[y]
  BY <1>1, <1>5, <1>6 DEF Inv, Gone
<1>10. \A y \in Clients : status'[y] # "none" => status'[y] = IsTalker(h, y, curTG'[y])
  BY <1>5, <1>6
<1>11. ASSUME NEW y \in Clients, session'[y] = "connected", open'[y]
       PROVE  udp'[y] /\ Talker(h, curTG'[y]) \notin {NoClient, y}
  <2>1. /\ y \in Clients \ {x} /\ session[y] = "connected" /\ open[y]
        /\ y \in cons /\ y \notin FlushedBy(h, cons)
    BY <1>1, <1>6, <1>11
  <2>2. \A t \in TGs : \/ Talker(h, t) = Talker(Now, t)
                       \/ Signal(t, Talker(Now, t), NoClient) \in h.updated
    BY <1>2, <1>3
  <2>3. udp[y] /\ Talker(h, curTG[y]) \notin {NoClient, y}
    BY <1>3, <2>1, <2>2, StopsFlush
  <2>4. QED
    BY <1>6, <2>1, <2>3
<1>12. QED
  BY <1>1, <1>3, <1>7, <1>8, <1>9, <1>10, <1>11, NextInv

(***************************************************************************)
(* The ways a client is deleted, by who is still told.                     *)
(***************************************************************************)
Deletion(x) == OnDiscTimeout(x) \/ HandleMsgError(x) \/ RemoteClose(x)

(***************************************************************************)
(* A deletion happens to a live client, and all others that are connected  *)
(* are told.                                                               *)
(***************************************************************************)
LEMMA DeletionIs ==
  ASSUME NEW x \in Clients, Deletion(x)
  PROVE  /\ ~aborted /\ x \in Live
         /\ \E cons \in SUBSET Clients : /\ Connected \ {x} \subseteq cons
                                         /\ Deleted(x, cons)
  BY DEF Deletion, OnDiscTimeout, HandleMsgError, RemoteClose, Connected, Live

(***************************************************************************)
(* Every deletion keeps the invariant.                                     *)
(***************************************************************************)
LEMMA DeletionInv ==
  ASSUME Inv, NEW x \in Clients, Deletion(x)
  PROVE  Inv'
<1>1. PICK cons \in SUBSET Clients : Connected \ {x} \subseteq cons /\ Deleted(x, cons)
  BY DeletionIs
<1>2. ~aborted /\ \A y \in Clients \ {x} : session[y] = "connected" => y \in cons
  BY <1>1, DeletionIs DEF Connected, Live
<1>3. QED
  BY <1>1, <1>2, DeletedInv

(***************************************************************************)
(* A second passes: the audio gets older, nobody stops.                    *)
(***************************************************************************)
LEMMA Ageing ==
  ASSUME H!IInv, SecondPasses
  PROVE  /\ H!HandlerOK([Now EXCEPT !.idMap = idMap'])
         /\ DOMAIN idMap' = DOMAIN idMap
         /\ \A tg \in DOMAIN idMap : /\ idMap'[tg].talker = idMap[tg].talker
                                     /\ idMap'[tg].idle >= idMap[tg].idle
<1>1. /\ H!IsIdMap(idMap) /\ H!Consistent(idMap, clientMap)
      /\ H!IsClientMap(clientMap)
      /\ idMap \in [DOMAIN idMap -> H!TGInfo] /\ DOMAIN idMap \subseteq TGs
  BY SoundNow DEF Now, TG!Call, H!HandlerOK, H!IsHandler, H!IsIdMap
<1>2. ASSUME NEW info \in H!TGInfo
      PROVE  /\ TG!Aged(info) \in H!TGInfo
             /\ TG!Aged(info).clients = info.clients
             /\ TG!Aged(info).talker = info.talker
             /\ TG!Aged(info).idle >= info.idle
  <2>1. /\ H!IdleMax \in Int /\ TG!IdleMax = H!IdleMax
        /\ info.idle \in Int /\ 0 <= info.idle /\ info.idle <= H!IdleMax
        /\ info.qsyIn \in Int
    BY ConstantAssumption DEF H!TGInfo, H!IdleMax, TG!IdleMax
  <2> DEFINE i == IF info.idle < TG!IdleMax THEN info.idle + 1 ELSE info.idle
             q == IF info.qsyIn >= 0 THEN info.qsyIn - 1 ELSE info.qsyIn
  <2>2. i \in 0 .. H!IdleMax /\ i >= info.idle /\ q \in Int
    BY <2>1
  <2>3. TG!Aged(info) = [info EXCEPT !.idle = i, !.qsyIn = q]
    BY DEF TG!Aged, H!TGInfo
  <2> HIDE DEF i, q
  <2>4. QED
    BY <2>2, <2>3 DEF H!TGInfo
<1>3. idMap' = [tg \in DOMAIN idMap |-> TG!Aged(idMap[tg])]
  BY DEF SecondPasses
<1>4. /\ idMap' \in [DOMAIN idMap -> H!TGInfo]
      /\ \A tg \in DOMAIN idMap : /\ idMap'[tg].clients = idMap[tg].clients
                                  /\ idMap'[tg].talker = idMap[tg].talker
                                  /\ idMap'[tg].idle >= idMap[tg].idle
  BY <1>1, <1>2, <1>3
<1>5. H!IsIdMap(idMap') /\ H!Consistent(idMap', clientMap)
  BY <1>1, <1>4, H!ReplaceAllOK, HandlerConstants
<1>6. H!HandlerOK([Now EXCEPT !.idMap = idMap'])
  BY <1>1, <1>5 DEF Now, TG!Call, H!HandlerOK, H!IsHandler
<1>7. QED
  BY <1>4, <1>6

(***************************************************************************)
(* The passing of a second keeps the invariant.                            *)
(***************************************************************************)
LEMMA SecondPassesInv ==
  ASSUME Inv, SecondPasses
  PROVE  Inv'
<1> DEFINE h == [Now EXCEPT !.idMap = idMap']
<1>1. /\ H!HandlerOK(h)
      /\ DOMAIN idMap' = DOMAIN idMap
      /\ \A tg \in DOMAIN idMap : idMap'[tg].talker = idMap[tg].talker
  BY Ageing DEF Inv
<1>2. /\ Handled(h) /\ due' \in 0 .. MaxLate
      /\ UNCHANGED <<session, curTG, mon, udp, status, block, remaining, open, aborted>>
      /\ told' = {}
  BY NowFits, ConstantAssumption DEF SecondPasses, Handled, clientVars, Now, TG!Call
<1>3. \A y \in Clients : TG!TGForClient(h, y) = curTG'[y]
  BY <1>2, NowFits DEF TG!TGForClient, Now, TG!Call
<1>4. \A tg : Talker(h, tg) = Talker(Now, tg)
  BY <1>1 DEF Talker, TG!TalkerForTG, Now, TG!Call
<1> HIDE DEF h
<1>5. \A y \in Clients : IsTalker(h, y, curTG[y]) = IsTalker(Now, y, curTG[y])
  BY <1>4 DEF IsTalker, Talker
<1>6. ClientTypes'
  BY <1>2 DEF Inv, ClientTypes
<1>7. QED
  BY <1>1, <1>2, <1>3, <1>4, <1>5, <1>6, NextInv DEF Inv, Gone, Fresh, Streams

-----------------------------------------------------------------------------
(***************************************************************************)
(* Every step preserves the invariant.                                     *)
(***************************************************************************)
LEMMA StepInv == Inv /\ [Next]_vars => Inv'
<1> SUFFICES ASSUME Inv, [Next]_vars PROVE Inv'
  OBVIOUS
<1>1. ASSUME NEW x \in Clients, Login(x) PROVE Inv'
  BY <1>1, LoginInv
<1>2. ASSUME NEW x \in Clients, HandleNodeInfo(x) PROVE Inv'
  BY <1>2, HandleNodeInfoInv
<1>3. ASSUME NEW x \in Clients, NEW tg \in TGs \cup {NoTG}, HandleSelectTG(x, tg)
      PROVE  Inv'
  BY <1>3, HandleSelectTGInv
<1>4. ASSUME NEW x \in Clients, NEW tgs \in MonitorSets, HandleTgMonitor(x, tgs)
      PROVE  Inv'
  BY <1>4, HandleTgMonitorInv
<1>5. ASSUME NEW x \in Clients, UdpHeartbeat(x) PROVE Inv'
  BY <1>5, UdpHeartbeatInv
<1>6. ASSUME NEW x \in Clients, UdpAudio(x) PROVE Inv'
  BY <1>6, UdpAudioInv
<1>7. ASSUME NEW x \in Clients, UdpFlushSamples(x) PROVE Inv'
  BY <1>7, UdpFlushSamplesInv
<1>8. ASSUME NEW x \in Clients, SendError(x) PROVE Inv'
  BY <1>8, SendErrorInv
<1>9. ASSUME NEW x \in Clients, Deletion(x) PROVE Inv'
  BY <1>9, DeletionInv
<1>10. ASSUME NEW x \in Clients, RemoteCloseOfTalker(x) PROVE Inv'
  BY <1>10, AbortInv
<1>11. ASSUME NEW x \in Clients, HandleHeartbeat(x) PROVE Inv'
  BY <1>11, HandleHeartbeatInv
<1>12. ASSUME NEW x \in Clients, NEW t \in BlockTimes, NodeBlock(x, t) PROVE Inv'
  BY <1>12, NodeBlockInv
<1>13. CASE SecondPasses
  BY <1>13, SecondPassesInv
<1>14. CASE CheckTimers
  BY <1>14, CheckTimersInv
<1>15. CASE UNCHANGED vars
  <2>1. /\ idMap' = idMap /\ clientMap' = clientMap /\ due' = due
        /\ curTG' = curTG /\ open' = open
        /\ session' = session /\ status' = status /\ udp' = udp
        /\ ClientTypes'
    BY <1>15 DEF vars, clientVars, Inv, ClientTypes
  <2>2. QED
    BY <2>1, QuietInv
<1>16. QED
  BY <1>1, <1>2, <1>3, <1>4, <1>5, <1>6, <1>7, <1>8, <1>9, <1>10, <1>11, <1>12,
     <1>13, <1>14, <1>15 DEF Next, Deletion

(***************************************************************************)
(* The invariant holds in every reachable state.                           *)
(***************************************************************************)
LEMMA Invariance == Spec => []Inv
  BY InitInv, StepInv, PTL DEF Spec

-----------------------------------------------------------------------------
(***************************************************************************)
(* What a step does to the abstract floor control, to the floor of a       *)
(* blocked client, and to those who are to be told of a talker's end.      *)
(***************************************************************************)
FloorStep == [FC!Next]_FC!vars

BlockedStep ==
    \A x \in Clients, tg \in TGs :
      Floor'[tg] = x /\ block[x] > 0
        => Floor[tg] = x /\ idMap'[tg].idle >= idMap[tg].idle

ToldStep ==
    \A tg \in TGs : Floor[tg] # NoClient /\ Floor'[tg] # Floor[tg] =>
      AllTold(tg, Floor[tg]) \/ (Member'[Floor[tg]] # tg /\ Floor[tg] \in Live')

StepOK == FloorStep /\ BlockedStep /\ ToldStep

(***************************************************************************)
(* The abstract variables now, and after the installation of h.            *)
(***************************************************************************)
LEMMA Abstract ==
  /\ Member = [y \in Clients |-> TGOf(y)]
  /\ Floor = [tg \in TGs |-> Talker(Now, tg)]
  /\ \A h : Handled(h) =>
       /\ Member' = [y \in Clients |-> TG!TGForClient(h, y)]
       /\ Floor' = [tg \in TGs |-> Talker(h, tg)]
       /\ idMap' = h.idMap
  BY DEF Member, Floor, Talker, TGOf, Handled, Now, TG!Call,
         TG!TGForClient, TG!TalkerForTG

(***************************************************************************)
(* The age of the audio of a talker is a number, and is that of h.         *)
(***************************************************************************)
LEMMA IdleOfTalker ==
  ASSUME Inv, NEW h, Handled(h), KeepsIdle(h), NEW tg \in TGs,
         Talker(h, tg) # NoClient
  PROVE  idMap'[tg].idle >= idMap[tg].idle
<1>1. /\ tg \in DOMAIN h.idMap /\ h.idMap[tg].talker # NoClient
      /\ idMap' = h.idMap
  BY DEF Talker, TG!TalkerForTG, Handled
<1>2. tg \in DOMAIN idMap /\ h.idMap[tg].idle = idMap[tg].idle
  BY <1>1 DEF KeepsIdle
<1>3. idMap[tg].idle \in Int
  BY <1>2, ConstantAssumption DEF Inv, H!IInv, H!TypeOK, H!TGInfo, H!IdleMax
<1>4. QED
  BY <1>1, <1>2, <1>3

(***************************************************************************)
(* A step that leaves the handler alone.                                   *)
(***************************************************************************)
LEMMA QuietStep ==
  ASSUME Inv, idMap' = idMap, clientMap' = clientMap
  PROVE  StepOK
<1>1. Handled(Now) /\ KeepsIdle(Now)
  BY NowFits DEF Handled, KeepsIdle
<1>2. Member' = Member /\ Floor' = Floor
  BY <1>1, Abstract DEF TGOf
<1>3. FloorStep
  BY <1>2 DEF FloorStep, FC!vars
<1>4. BlockedStep
  BY <1>1, <1>2, Abstract, IdleOfTalker, NowFits DEF BlockedStep
<1>5. ToldStep
  BY <1>2 DEF ToldStep
<1>6. QED
  BY <1>3, <1>4, <1>5 DEF StepOK

(***************************************************************************)
(* A step that moves a client.                                             *)
(***************************************************************************)
LEMMA MovesStep ==
  ASSUME Inv, NEW h, NEW x \in Clients, NEW to \in TGs \cup {NoTG},
         Moves(h, x, to), Handled(h),
         \A tg \in TGs : Talker(Now, tg) = x =>
           AllTold(tg, x) \/ (to # tg /\ x \in Live')
  PROVE  StepOK
<1>1. /\ Member = [y \in Clients |-> TGOf(y)]
      /\ Member' = [y \in Clients |-> IF y = x THEN to ELSE TGOf(y)]
      /\ Floor = [tg \in TGs |-> Talker(Now, tg)]
      /\ Floor' = [tg \in TGs |-> IF Talker(Now, tg) = x THEN NoClient
                                  ELSE Talker(Now, tg)]
  BY Abstract DEF Moves
<1>2. FloorStep
  <2>1. FC!Move(x, to)
    BY <1>1 DEF FC!Move
  <2>2. QED
    BY <2>1 DEF FC!Next, FloorStep
<1>3. BlockedStep
  <2>1. \A tg \in TGs : Floor'[tg] # NoClient =>
          Floor[tg] = Floor'[tg] /\ idMap'[tg].idle >= idMap[tg].idle
    BY <1>1, Abstract, IdleOfTalker DEF Moves
  <2>2. QED
    BY <2>1, ConstantAssumption DEF BlockedStep
<1>4. ToldStep
  BY <1>1 DEF ToldStep
<1>5. QED
  BY <1>2, <1>3, <1>4 DEF StepOK

(***************************************************************************)
(* The messages of a signal reach all who follow the talk group.           *)
(***************************************************************************)
LEMMA SignalTells ==
  ASSUME NEW h, NEW cons, told' = ToldOf(h, cons), NEW tg \in TGs,
         NEW who \in Clients, Signal(tg, who, NoClient) \in h.updated,
         Connected \cap Live' \subseteq cons
  PROVE  AllTold(tg, who)
<1> DEFINE u == Signal(tg, who, NoClient)
<1>1. u \in Stops(h) /\ u.tg = tg /\ u.old = who
  BY ConstantAssumption DEF Stops, Signal
<1> HIDE DEF u
<1>2. ASSUME NEW y \in Connected \cap Live', Ver[y] >= 2,
             Member[y] = tg \/ tg \in mon[y]
      PROVE  [to |-> y, tg |-> tg, who |-> who] \in told'
  <2>1. y \in Clients /\ Member[y] = TGOf(y)
    BY Abstract DEF Connected, Live
  <2>2. y \in Audience(tg, cons)
    BY <1>2, <2>1 DEF Audience
  <2>3. [to |-> y, tg |-> tg, who |-> who] \in ToldOf(h, cons)
    <3>1. [to |-> y, tg |-> tg, who |-> who]
            \in {[to |-> z, tg |-> u.tg, who |-> u.old] : z \in Audience(u.tg, cons)}
      BY <1>1, <2>2
    <3>2. QED
      BY <1>1, <3>1 DEF ToldOf
  <2>4. QED
    BY <2>3
<1>3. QED
  BY <1>2 DEF AllTold

(***************************************************************************)
(* A step that stops talkers.                                              *)
(***************************************************************************)
LEMMA StoppingStep ==
  ASSUME Inv, NEW h, Stopping(h), Signalled(h, Connected)
  PROVE  StepOK
<1>1. /\ Handled(h) /\ told' = ToldOf(h, Connected)
      /\ Member = [y \in Clients |-> TGOf(y)]
      /\ Member' = [y \in Clients |-> TGOf(y)]
      /\ Floor = [tg \in TGs |-> Talker(Now, tg)]
      /\ Floor' = [tg \in TGs |-> Talker(h, tg)]
  BY Abstract DEF Stopping, Signalled
<1>2. \A tg \in TGs : \/ Talker(h, tg) = Talker(Now, tg)
                      \/ /\ Talker(h, tg) = NoClient
                         /\ Signal(tg, Talker(Now, tg), NoClient) \in h.updated
  BY DEF Stopping
<1>3. FloorStep
  <2> DEFINE S == {tg \in TGs : Talker(h, tg) = NoClient}
  <2>1. FC!Release(S)
    BY <1>1, <1>2 DEF FC!Release
  <2>2. QED
    BY <2>1 DEF FC!Next, FloorStep
<1>4. BlockedStep
  <2>1. \A tg \in TGs : Floor'[tg] # NoClient =>
          Floor[tg] = Floor'[tg] /\ idMap'[tg].idle >= idMap[tg].idle
    BY <1>1, <1>2, IdleOfTalker DEF Stopping
  <2>2. QED
    BY <2>1, ConstantAssumption DEF BlockedStep
<1>5. ToldStep
  <2>1. ASSUME NEW tg \in TGs, Floor[tg] # NoClient, Floor'[tg] # Floor[tg]
        PROVE  AllTold(tg, Floor[tg])
    <3>1. Floor[tg] \in Clients /\ Signal(tg, Floor[tg], NoClient) \in h.updated
      BY <1>1, <1>2, <2>1, NowFits, SoundAnswers
    <3>2. QED
      BY <1>1, <3>1, SignalTells
  <2>2. QED
    BY <2>1 DEF ToldStep
<1>6. QED
  BY <1>3, <1>4, <1>5 DEF StepOK

(***************************************************************************)
(* Audio takes a free floor, or changes nothing; a client whose block time *)
(* audio starts over is not relayed, so the taker is not blocked.          *)
(***************************************************************************)
LEMMA UdpAudioStep ==
  ASSUME Inv, NEW x \in Clients, UdpAudio(x)
  PROVE  StepOK
<1> DEFINE tg == TGOf(x)
           h == TG!SetTalkerForTG(AudioTalker(x), tg, x)
<1>1. CASE ~Relays(x)
  <2>1. Handled(Now)
    BY <1>1 DEF UdpAudio
  <2>2. idMap' = idMap /\ clientMap' = clientMap
    BY <2>1, NowFits DEF Handled
  <2>3. QED
    BY <2>2, QuietStep
<1>2. CASE Relays(x)
  <2>1. Handled(h)
    BY <1>2 DEF UdpAudio
  <2>2. /\ tg \in TGs
        /\ Talker(Now, tg) \in {NoClient, x}
        /\ \A y \in Clients : TG!TGForClient(h, y) = TGOf(y)
        /\ \A t \in TGs : Talker(h, t) = IF t = tg THEN x ELSE Talker(Now, t)
        /\ \A t \in DOMAIN h.idMap : t # tg =>
             t \in DOMAIN idMap /\ h.idMap[t] = idMap[t]
    BY <1>2, AudioTakes DEF Inv
  <2>3. block[x] > 0 => FALSE
    <3>1. RemainingAfterAudio(x) = 0 /\ block[x] \in Nat
      BY <1>2 DEF Relays, Inv, ClientTypes
    <3>2. QED
      BY <3>1 DEF RemainingAfterAudio
  <2>4. Member[x] = tg
    BY Abstract
  <2> HIDE DEF h, tg
  <2>5. /\ Member' = Member
        /\ Floor = [t \in TGs |-> Talker(Now, t)]
        /\ Floor' = [Floor EXCEPT ![tg] = x]
        /\ Floor[tg] \in {NoClient, x}
        /\ idMap' = h.idMap
    BY <2>1, <2>2, Abstract
  <2>6. FloorStep
    <3>1. CASE Floor[tg] = NoClient
      <4>1. FC!Take(x, tg)
        BY <2>4, <2>5, <3>1 DEF FC!Take
      <4>2. QED
        BY <2>2, <4>1 DEF FC!Next, FloorStep
    <3>2. CASE Floor[tg] = x
      BY <2>5, <3>2 DEF FloorStep, FC!vars
    <3>3. QED
      BY <2>5, <3>1, <3>2
  <2>7. BlockedStep
    <3>1. ASSUME NEW y \in Clients, NEW t \in TGs, Floor'[t] = y, block[y] > 0
          PROVE  Floor[t] = y /\ idMap'[t].idle >= idMap[t].idle
      <4>1. t # tg
        BY <2>2, <2>3, <2>5, <3>1
      <4>2. Floor[t] = y /\ Talker(h, t) = y
        BY <2>2, <2>5, <3>1, <4>1
      <4>3. y # NoClient
        BY ConstantAssumption
      <4>4. t \in DOMAIN h.idMap
        BY <4>2, <4>3 DEF Talker, TG!TalkerForTG
      <4>5. t \in DOMAIN idMap /\ idMap'[t] = idMap[t]
        BY <2>2, <2>5, <4>1, <4>4
      <4>6. idMap[t].idle \in Int
        BY <4>5, ConstantAssumption DEF Inv, H!IInv, H!TypeOK, H!TGInfo, H!IdleMax
      <4>7. QED
        BY <4>2, <4>5, <4>6
    <3>2. QED
      BY <3>1 DEF BlockedStep
  <2>8. ToldStep
    BY <2>2, <2>5 DEF ToldStep
  <2>9. QED
    BY <2>6, <2>7, <2>8 DEF StepOK
<1>3. QED
  BY <1>1, <1>2

(***************************************************************************)
(* The passing of a second.                                                *)
(***************************************************************************)
LEMMA SecondPassesStep ==
  ASSUME Inv, SecondPasses
  PROVE  StepOK
<1>1. /\ DOMAIN idMap' = DOMAIN idMap
      /\ \A tg \in DOMAIN idMap : /\ idMap'[tg].talker = idMap[tg].talker
                                  /\ idMap'[tg].idle >= idMap[tg].idle
      /\ clientMap' = clientMap
  BY Ageing DEF Inv, SecondPasses
<1>2. Member' = Member /\ Floor' = Floor
  BY <1>1 DEF Member, Floor, TGOf, Now, TG!Call, TG!TGForClient, TG!TalkerForTG
<1>3. \A tg \in TGs : Floor[tg] # NoClient => tg \in DOMAIN idMap
  BY DEF Floor, Now, TG!Call, TG!TalkerForTG
<1>4. FloorStep
  BY <1>2 DEF FloorStep, FC!vars
<1>5. BlockedStep
  BY <1>1, <1>2, <1>3, ConstantAssumption DEF BlockedStep
<1>6. ToldStep
  BY <1>2 DEF ToldStep
<1>7. QED
  BY <1>4, <1>5, <1>6 DEF StepOK

(***************************************************************************)
(* A login moves a client that has no floor.                               *)
(***************************************************************************)
LEMMA LoginStep ==
  ASSUME Inv, NEW x \in Clients, Login(x)
  PROVE  StepOK
<1> DEFINE tg == IF Ver[x] < 2 THEN V1TG ELSE NoTG
<1>1. /\ tg \in TGs \cup {NoTG} /\ TGOf(x) = curTG[x] /\ curTG[x] = NoTG
      /\ Handled(SetTg(x, tg)) /\ TGSet(x, tg) \in TGs \cup {NoTG}
  BY ConstantAssumption, NowFits DEF Inv, Gone, Login, TGSet
<1>2. \A t \in TGs : Talker(Now, t) # x
  BY <1>1, NowFits, SoundAnswers
<1>3. CASE tg = curTG[x]
  <2>1. SetTg(x, tg) = Now
    BY <1>3 DEF SetTg
  <2>2. idMap' = idMap /\ clientMap' = clientMap
    BY <1>1, <2>1, NowFits DEF Handled
  <2>3. QED
    BY <2>2, QuietStep
<1>4. CASE tg # curTG[x]
  <2> HIDE DEF tg
  <2>1. Moves(SetTg(x, tg), x, TGSet(x, tg))
    BY <1>1, <1>4, SetTgMoves DEF Inv
  <2>2. QED
    BY <1>1, <1>2, <2>1, MovesStep
<1>5. QED
  BY <1>3, <1>4

(***************************************************************************)
(* A selection moves the client, with the floor it may have; a talker that *)
(* moves on is not announced.                                              *)
(***************************************************************************)
LEMMA HandleSelectTGStep ==
  ASSUME Inv, NEW x \in Clients, NEW tg \in TGs \cup {NoTG}, HandleSelectTG(x, tg)
  PROVE  StepOK
<1>1. /\ Moves(SetTg(x, tg), x, TGSet(x, tg)) /\ TGSet(x, tg) \in TGs \cup {NoTG}
      /\ Handled(SetTg(x, tg))
      /\ TGSet(x, tg) \in {tg, NoTG} /\ tg # curTG[x]
  BY SetTgMoves, NowFits DEF Inv, InSync, HandleSelectTG, TGSet
<1>2. x \in Live'
  BY DEF HandleSelectTG, Connected, Live
<1>3. \A t \in TGs : Talker(Now, t) = x => TGSet(x, tg) # t
  BY <1>1, NowFits, SoundAnswers
<1>4. QED
  BY <1>1, <1>2, <1>3, MovesStep

(***************************************************************************)
(* A deletion moves the client to no talk group, and tells all others.     *)
(***************************************************************************)
LEMMA DeletionStep ==
  ASSUME Inv, NEW x \in Clients, Deletion(x)
  PROVE  StepOK
<1> DEFINE h == TG!RemoveClient(Now, x)
<1>1. PICK cons \in SUBSET Clients : Connected \ {x} \subseteq cons /\ Deleted(x, cons)
  BY DeletionIs
<1>2. Handled(h) /\ told' = ToldOf(h, cons) /\ session' = [session EXCEPT ![x] = "none"]
  BY <1>1 DEF Deleted
<1>3. /\ Moves(h, x, NoTG)
      /\ \A tg \in TGs : Talker(Now, tg) = x => Signal(tg, x, NoClient) \in h.updated
  BY RemoveMoves DEF Inv
<1> HIDE DEF h
<1>4. Connected \cap Live' \subseteq cons
  <2>1. x \notin Live'
    BY <1>2 DEF Live, Inv, ClientTypes
  <2>2. QED
    BY <1>1, <2>1
<1>5. \A tg \in TGs : Talker(Now, tg) = x => AllTold(tg, x)
  BY <1>2, <1>3, <1>4, SignalTells
<1>6. QED
  BY <1>2, <1>3, <1>5, MovesStep

(***************************************************************************)
(* Every step is a good one.                                               *)
(***************************************************************************)
LEMMA AllSteps == Inv /\ [Next]_vars => StepOK
<1> SUFFICES ASSUME Inv, [Next]_vars PROVE StepOK
  OBVIOUS
<1>1. ASSUME NEW x \in Clients, Login(x) PROVE StepOK
  BY <1>1, LoginStep
<1>2. ASSUME NEW x \in Clients, NEW tg \in TGs \cup {NoTG}, HandleSelectTG(x, tg)
      PROVE  StepOK
  BY <1>2, HandleSelectTGStep
<1>3. ASSUME NEW x \in Clients, UdpAudio(x) PROVE StepOK
  BY <1>3, UdpAudioStep
<1>4. ASSUME NEW x \in Clients, UdpFlushSamples(x) PROVE StepOK
  <2>1. Signalled(FlushCall(x), Connected)
    BY <1>4 DEF UdpFlushSamples, FlushCall, Talker
  <2>2. QED
    BY <2>1, FlushStops, StoppingStep DEF Inv
<1>5. ASSUME NEW x \in Clients, Deletion(x) PROVE StepOK
  BY <1>5, DeletionStep
<1>6. CASE SecondPasses
  BY <1>6, SecondPassesStep
<1>7. CASE CheckTimers
  <2>1. Signalled(TG!CheckTimersCall(Now), Connected)
    BY <1>7 DEF CheckTimers
  <2>2. QED
    BY <2>1, TimersStop, StoppingStep DEF Inv
<1>8. ASSUME NEW x \in Clients,
             \/ HandleNodeInfo(x)
             \/ \E tgs \in MonitorSets : HandleTgMonitor(x, tgs)
             \/ UdpHeartbeat(x)
             \/ SendError(x)
             \/ RemoteCloseOfTalker(x)
             \/ HandleHeartbeat(x)
             \/ \E t \in BlockTimes : NodeBlock(x, t)
      PROVE  StepOK
  <2>1. idMap' = idMap /\ clientMap' = clientMap
    BY <1>8 DEF HandleNodeInfo, HandleTgMonitor, UdpHeartbeat, SendError,
                RemoteCloseOfTalker, HandleHeartbeat, NodeBlock
  <2>2. QED
    BY <2>1, QuietStep
<1>9. CASE UNCHANGED vars
  BY <1>9, QuietStep DEF vars
<1>10. QED
  BY <1>1, <1>2, <1>3, <1>4, <1>5, <1>6, <1>7, <1>8, <1>9 DEF Next, Deletion

-----------------------------------------------------------------------------
(***************************************************************************)
(* However many clients log in, select, are refused, talk, are blocked,    *)
(* time out and go away, in whatever order: client objects, talk group     *)
(* handler and status page agree, and the handler has no pointer to a      *)
(* client that is gone.                                                    *)
(***************************************************************************)
THEOREM ViewsAlwaysAgree == Spec => []ViewsAgree
  BY Invariance, InvViews, PTL

(***************************************************************************)
(* Every variable of the reflector keeps its type.                         *)
(***************************************************************************)
THEOREM TypesAlwaysKept == Spec => []TypeOK
  BY Invariance, InvTypes, PTL

(***************************************************************************)
(* A decoder that has got audio and no flush sits in a talk group where    *)
(* somebody else is talking.                                               *)
(***************************************************************************)
THEOREM StreamsAlwaysHaveTalker == Spec => []StreamsHaveTalker
  BY Invariance, InvStreams, PTL

(***************************************************************************)
(* The reflector with all its clients, timers and errors implements the    *)
(* floor control, so nobody is ever talked over.                           *)
(***************************************************************************)
THEOREM ImplementsFloorControl == Spec => FloorControlSpec
<1>1. Init => FC!Init
  BY DEF Init, FC!Init, Member, Floor, TGOf, Now, TG!Call,
         TG!TGForClient, TG!TalkerForTG
<1>2. Inv /\ [Next]_vars => [FC!Next]_FC!vars
  BY AllSteps DEF StepOK, FloorStep
<1>3. QED
  BY <1>1, <1>2, Invariance, PTL DEF Spec, FloorControlSpec, FC!Spec

(***************************************************************************)
(* No step gives the floor to a blocked client, or lets its audio keep it. *)
(***************************************************************************)
THEOREM BlockedNeverGetFloor == Spec => NoFloorWhileBlocked
<1>1. Inv /\ [Next]_vars =>
        [\A x \in Clients, tg \in TGs :
           Floor'[tg] = x /\ block[x] > 0
             => Floor[tg] = x /\ idMap'[tg].idle >= idMap[tg].idle]_vars
  BY AllSteps DEF StepOK, BlockedStep
<1>2. QED
  BY <1>1, Invariance, PTL DEF Spec, NoFloorWhileBlocked

(***************************************************************************)
(* Whoever follows a talk group is told when a talker stops there, unless  *)
(* the talker goes on to another talk group.                               *)
(***************************************************************************)
THEOREM FollowersAlwaysTold == Spec => ToldOfStop
<1>1. Inv /\ [Next]_vars =>
        [\A tg \in TGs : Floor[tg] # NoClient /\ Floor'[tg] # Floor[tg] =>
           AllTold(tg, Floor[tg])
           \/ (Member'[Floor[tg]] # tg /\ Floor[tg] \in Live')]_vars
  BY AllSteps DEF StepOK, ToldStep
<1>2. QED
  BY <1>1, Invariance, PTL DEF Spec, ToldOfStop
=============================================================================
