-------------------------- MODULE TGHandler_proofs --------------------------
(***************************************************************************)
(* Proofs about the talk group handler, for any number of clients and talk *)
(* groups and any timeouts: its variables keep their types, its two maps   *)
(* always agree, a talker is always a member of its talk group, a talker   *)
(* stops without a signal only by leaving, and the handler implements      *)
(* FloorControl.tla.                                                       *)
(*                                                                         *)
(* The operations are operators on handler records, so the invariant is    *)
(* stated on records first; each operation preserves it, and the actions   *)
(* only install the record an operation returns.                           *)
(*                                                                         *)
(* The abstract variables of the refinement are computed from a handler    *)
(* record too, and a lemma for each operation says what it does to them:   *)
(* every step is a move of one client, the taking of a free floor, the     *)
(* release of some floors, or no change at all.                            *)
(***************************************************************************)
EXTENDS TGHandler, TLAPS

IsIdMap(id) == DOMAIN id \subseteq TGs /\ id \in [DOMAIN id -> TGInfo]

IsClientMap(cl) == DOMAIN cl \subseteq Clients /\ cl \in [DOMAIN cl -> TGs]

Signals == [tg : TGs, old : Clients \cup {NoClient}, new : Clients \cup {NoClient}]

IsHandler(h) ==
    /\ h = [idMap |-> h.idMap, clientMap |-> h.clientMap,
            updated |-> h.updated, qsy |-> h.qsy]
    /\ IsIdMap(h.idMap)
    /\ IsClientMap(h.clientMap)
    /\ h.updated \subseteq Signals
    /\ h.qsy \subseteq TGs

Consistent(id, cl) ==
    /\ \A tg \in DOMAIN id : \A c : c \in id[tg].clients <=>
                                      (c \in DOMAIN cl /\ cl[c] = tg)
    /\ \A tg \in DOMAIN id : id[tg].clients # {}
    /\ \A c \in DOMAIN cl : cl[c] \in DOMAIN id
    /\ \A tg \in DOMAIN id : id[tg].talker \in id[tg].clients \cup {NoClient}

HandlerOK(h) == IsHandler(h) /\ Consistent(h.idMap, h.clientMap)

IInv == TypeOK /\ MapsAgree /\ TalkerIsMember

(***************************************************************************)
(* The record of the present state is a good handler exactly when the      *)
(* invariant holds.                                                        *)
(***************************************************************************)
LEMMA CallOK == IInv => HandlerOK(Call)
  BY DEF IInv, TypeOK, MapsAgree, TalkerIsMember, HandlerOK, IsHandler, Call,
         Consistent, IsIdMap, IsClientMap, Signals

(***************************************************************************)
(* removeClientP keeps the maps in agreement: this is where a talk group   *)
(* is deleted when its last client leaves.                                 *)
(***************************************************************************)
LEMMA RemoveClientPOK ==
  ASSUME NEW h, HandlerOK(h), NEW c \in DOMAIN h.clientMap
  PROVE  HandlerOK(RemoveClientP(h, c)) /\ c \notin DOMAIN RemoveClientP(h, c).clientMap
<1> DEFINE tg == h.clientMap[c]
           info == [h.idMap[tg] EXCEPT !.clients = @ \ {c},
                                       !.talker = IF @ = c THEN NoClient ELSE @]
           cl == [d \in DOMAIN h.clientMap \ {c} |-> h.clientMap[d]]
           id == IF info.clients = {}
                   THEN [t \in DOMAIN h.idMap \ {tg} |-> h.idMap[t]]
                   ELSE [h.idMap EXCEPT ![tg] = info]
<1>1. /\ h.idMap \in [DOMAIN h.idMap -> TGInfo] /\ DOMAIN h.idMap \subseteq TGs
      /\ h.clientMap \in [DOMAIN h.clientMap -> TGs]
      /\ DOMAIN h.clientMap \subseteq Clients
      /\ tg \in DOMAIN h.idMap
  BY DEF HandlerOK, IsHandler, IsIdMap, IsClientMap, Consistent
<1>a. h.idMap[tg] \in TGInfo
  BY <1>1
<1>2. info \in TGInfo /\ info.clients = h.idMap[tg].clients \ {c}
      /\ info.talker \in info.clients \cup {NoClient}
  BY <1>1, <1>a DEF TGInfo, HandlerOK, Consistent
<1>3. RemoveClientP(h, c) = [h EXCEPT !.clientMap = cl, !.idMap = id]
  BY <1>1 DEF RemoveClientP, Restrict
<1>4. IsClientMap(cl)
  BY <1>1 DEF IsClientMap
<1>5. IsIdMap(id)
  BY <1>1, <1>2 DEF IsIdMap
<1>6. Consistent(id, cl)
  <2>1. /\ DOMAIN cl = DOMAIN h.clientMap \ {c}
        /\ \A d \in DOMAIN cl : cl[d] = h.clientMap[d]
    OBVIOUS
  <2>2. \A d : d \in info.clients <=> (d \in DOMAIN cl /\ cl[d] = tg)
    BY <1>1, <1>2, <2>1 DEF Consistent, HandlerOK
  <2>3. \A t \in DOMAIN id : /\ t \in DOMAIN h.idMap
                             /\ t # tg => id[t] = h.idMap[t]
                             /\ t = tg => id[t] = info /\ info.clients # {}
    BY <1>1
  <2>4. \A t \in DOMAIN h.idMap : t # tg \/ info.clients # {} => t \in DOMAIN id
    BY <1>1
  <2> HIDE DEF id, cl, info, tg
  <2>5. \A t \in DOMAIN id : t # tg =>
          \A d : d \in id[t].clients <=> (d \in DOMAIN cl /\ cl[d] = t)
    BY <2>1, <2>3 DEF Consistent, HandlerOK, tg
  <2>6. \A d \in DOMAIN cl : cl[d] \in DOMAIN id
    BY <2>1, <2>2, <2>4 DEF Consistent, HandlerOK
  <2>7. \A t \in DOMAIN id : id[t].talker \in id[t].clients \cup {NoClient}
    BY <1>2, <2>3 DEF Consistent, HandlerOK
  <2>8. \A t \in DOMAIN id : id[t].clients # {}
    BY <2>3 DEF Consistent, HandlerOK
  <2>9. QED
    BY <2>2, <2>3, <2>5, <2>6, <2>7, <2>8 DEF Consistent
<1> HIDE DEF cl, id
<1>7. RemoveClientP(h, c).clientMap = cl /\ RemoveClientP(h, c).idMap = id
      /\ IsHandler(RemoveClientP(h, c))
  BY <1>3, <1>4, <1>5 DEF HandlerOK, IsHandler
<1>8. QED
  BY <1>6, <1>7 DEF HandlerOK, cl

(***************************************************************************)
(* The insertion of switchTo, for a client that is in no talk group.       *)
(***************************************************************************)
LEMMA AddClientOK ==
  ASSUME NEW h, HandlerOK(h), NEW c \in Clients \ DOMAIN h.clientMap, NEW tg \in TGs
  PROVE  HandlerOK(AddClient(h, c, tg))
<1> DEFINE old == IF tg \in DOMAIN h.idMap THEN h.idMap[tg] ELSE NewTGInfo
           info == [old EXCEPT !.clients = @ \cup {c}]
           cl == [d \in DOMAIN h.clientMap \cup {c} |->
                    IF d = c THEN tg ELSE h.clientMap[d]]
           id == [t \in DOMAIN h.idMap \cup {tg} |->
                    IF t = tg THEN info ELSE h.idMap[t]]
<1>1. IsHandler(h) /\ IsIdMap(h.idMap) /\ IsClientMap(h.clientMap)
      /\ Consistent(h.idMap, h.clientMap)
  BY DEF HandlerOK, IsHandler
<1>2. old \in TGInfo
  <2>1. NewTGInfo \in TGInfo
    BY ConstantAssumption DEF NewTGInfo, TGInfo, IdleMax, QsyUnset
  <2>2. QED
    BY <1>1, <2>1 DEF IsIdMap
<1>3. info \in TGInfo /\ info.clients = old.clients \cup {c}
      /\ info.talker = old.talker
  BY <1>2 DEF TGInfo
<1>4. AddClient(h, c, tg) = [h EXCEPT !.clientMap = cl, !.idMap = id]
  BY <1>1 DEF AddClient, IsHandler
<1>5. IsClientMap(cl)
  BY <1>1 DEF IsClientMap
<1>6. IsIdMap(id)
  BY <1>1, <1>3 DEF IsIdMap
<1>7. \A d : d \in old.clients <=> (d \in DOMAIN h.clientMap /\ h.clientMap[d] = tg)
  BY <1>1 DEF Consistent, NewTGInfo
<1>8. old.talker \in old.clients \cup {NoClient}
  BY <1>1 DEF Consistent, NewTGInfo
<1>9. Consistent(id, cl)
  <2>1. /\ DOMAIN cl = DOMAIN h.clientMap \cup {c} /\ cl[c] = tg
        /\ \A d \in DOMAIN h.clientMap : cl[d] = h.clientMap[d]
    OBVIOUS
  <2>2. /\ DOMAIN id = DOMAIN h.idMap \cup {tg} /\ id[tg] = info
        /\ \A t \in DOMAIN id : t # tg => t \in DOMAIN h.idMap /\ id[t] = h.idMap[t]
    OBVIOUS
  <2> HIDE DEF id, cl, info, old
  <2>3. \A d : d \in info.clients <=> (d \in DOMAIN cl /\ cl[d] = tg)
    BY <1>3, <1>7, <2>1
  <2>4. \A t \in DOMAIN id : t # tg =>
          \A d : d \in id[t].clients <=> (d \in DOMAIN cl /\ cl[d] = t)
    BY <1>1, <2>1, <2>2 DEF Consistent
  <2>5. \A t \in DOMAIN id : /\ id[t].clients # {}
                             /\ id[t].talker \in id[t].clients \cup {NoClient}
    BY <1>1, <1>3, <1>8, <2>2 DEF Consistent
  <2>6. \A d \in DOMAIN cl : cl[d] \in DOMAIN id
    BY <1>1, <2>1, <2>2 DEF Consistent
  <2>7. QED
    BY <2>2, <2>3, <2>4, <2>5, <2>6 DEF Consistent
<1> HIDE DEF cl, id
<1>10. /\ AddClient(h, c, tg).clientMap = cl /\ AddClient(h, c, tg).idMap = id
       /\ IsHandler(AddClient(h, c, tg))
  BY <1>1, <1>4, <1>5, <1>6 DEF IsHandler
<1>11. QED
  BY <1>9, <1>10 DEF HandlerOK

(***************************************************************************)
(* switchTo keeps the maps in agreement, whichever way it ends.            *)
(***************************************************************************)
LEMMA SwitchToOK ==
  ASSUME NEW h, HandlerOK(h), NEW c \in Clients, NEW tg \in TGs \cup {NoTG}
  PROVE  HandlerOK(SwitchTo(h, c, tg))
<1> DEFINE left == IF c \in DOMAIN h.clientMap THEN RemoveClientP(h, c) ELSE h
<1>1. HandlerOK(left) /\ c \notin DOMAIN left.clientMap
  BY RemoveClientPOK
<1>2. tg # NoTG => HandlerOK(AddClient(left, c, tg))
  BY <1>1, AddClientOK
<1> HIDE DEF left
<1>3. \/ SwitchTo(h, c, tg) \in {h, left}
      \/ tg # NoTG /\ SwitchTo(h, c, tg) = AddClient(left, c, tg)
  BY DEF SwitchTo, left
<1>4. QED
  BY <1>1, <1>2, <1>3

(***************************************************************************)
(* setTalkerForTG, when the new talker is a client of the talk group.  The *)
(* reflector tests that before it calls (udpDatagramReceived).             *)
(***************************************************************************)
LEMMA TalkerSetType ==
  ASSUME IInv, NEW tg \in TGs, NEW info \in TGInfo,
         NEW new \in Clients \cup {NoClient}
  PROVE  /\ TalkerSet(tg, info, new) \in TGInfo
         /\ TalkerSet(tg, info, new).clients = info.clients
         /\ TalkerSet(tg, info, new).talker = new
<1>1. sqlTimeout \in Nat /\ AutoQsyAfter[tg] \in Int
  BY ConstantAssumption DEF IInv, TypeOK
<1>2. QED
  BY <1>1 DEF TalkerSet, TGInfo

(***************************************************************************)
(* Replacing one TGInfo by one with the same clients and a talker among    *)
(* them keeps the maps in agreement.                                       *)
(***************************************************************************)
LEMMA UpdateOK ==
  ASSUME NEW id, NEW cl, IsIdMap(id), Consistent(id, cl),
         NEW tg \in DOMAIN id, NEW info \in TGInfo,
         info.clients = id[tg].clients,
         info.talker \in info.clients \cup {NoClient}
  PROVE  IsIdMap([id EXCEPT ![tg] = info]) /\ Consistent([id EXCEPT ![tg] = info], cl)
  BY DEF IsIdMap, Consistent

(***************************************************************************)
(* setTalkerForTG for a client of the talk group, or for nobody.           *)
(***************************************************************************)
LEMMA SetTalkerForTGOK ==
  ASSUME IInv, NEW h, HandlerOK(h), NEW tg \in TGs,
         NEW new \in ClientsForTG(h, tg) \cup {NoClient}
  PROVE  HandlerOK(SetTalkerForTG(h, tg, new))
<1>1. CASE tg \notin DOMAIN h.idMap
  BY <1>1 DEF SetTalkerForTG
<1>2. CASE tg \in DOMAIN h.idMap
  <2> DEFINE info == h.idMap[tg]
             fresh == [info EXCEPT !.idle = 0]
             set == TalkerSet(tg, info, new)
  <2>1. /\ IsHandler(h) /\ IsIdMap(h.idMap) /\ IsClientMap(h.clientMap)
        /\ h.updated \subseteq Signals /\ h.qsy \subseteq TGs
        /\ Consistent(h.idMap, h.clientMap)
    BY DEF HandlerOK, IsHandler
  <2>2. info \in TGInfo /\ new \in info.clients \cup {NoClient}
        /\ info.talker \in info.clients \cup {NoClient}
    BY <1>2, <2>1 DEF IsIdMap, ClientsForTG, Consistent
  <2>3. /\ fresh \in TGInfo /\ fresh.clients = info.clients
        /\ fresh.talker = info.talker
    BY <2>2, ConstantAssumption DEF TGInfo, IdleMax
  <2>4. new \in Clients \cup {NoClient}
    BY <2>2 DEF TGInfo
  <2>5. set \in TGInfo /\ set.clients = info.clients /\ set.talker = new
    BY <2>2, <2>4, TalkerSetType
  <2>6. [tg |-> tg, old |-> info.talker, new |-> new] \in Signals
    BY <2>2, <2>4 DEF Signals, TGInfo
  <2>7. CASE new = info.talker
    <3>1. SetTalkerForTG(h, tg, new)
            = [h EXCEPT !.idMap = [h.idMap EXCEPT ![tg] = fresh]]
      BY <1>2, <2>1, <2>7 DEF SetTalkerForTG, IsIdMap, IsHandler
    <3>2. /\ IsIdMap([h.idMap EXCEPT ![tg] = fresh])
          /\ Consistent([h.idMap EXCEPT ![tg] = fresh], h.clientMap)
      BY <1>2, <2>1, <2>2, <2>3, UpdateOK
    <3>3. QED
      BY <2>1, <3>1, <3>2 DEF HandlerOK, IsHandler
  <2>8. CASE new # info.talker
    <3> DEFINE q == IF AsksQsy(tg, info, new) THEN h.qsy \cup {tg} ELSE h.qsy
               u == h.updated \cup {[tg |-> tg, old |-> info.talker, new |-> new]}
    <3>1. SetTalkerForTG(h, tg, new)
            = [h EXCEPT !.idMap = [h.idMap EXCEPT ![tg] = set],
                        !.updated = u, !.qsy = q]
      BY <1>2, <2>1, <2>8 DEF SetTalkerForTG, IsHandler
    <3>2. /\ IsIdMap([h.idMap EXCEPT ![tg] = set])
          /\ Consistent([h.idMap EXCEPT ![tg] = set], h.clientMap)
      BY <1>2, <2>1, <2>2, <2>5, UpdateOK
    <3>3. q \subseteq TGs /\ u \subseteq Signals
      BY <2>1, <2>6
    <3> HIDE DEF q, u, set
    <3>4. QED
      BY <2>1, <3>1, <3>2, <3>3 DEF HandlerOK, IsHandler
  <2>9. QED
    BY <2>7, <2>8
<1>3. QED
  BY <1>1, <1>2

(***************************************************************************)
(* removeClient: the talker is stopped first, then removed.                *)
(***************************************************************************)
LEMMA RemoveClientOK ==
  ASSUME IInv, NEW h, HandlerOK(h), NEW c \in Clients
  PROVE  HandlerOK(RemoveClient(h, c))
<1>1. CASE c \notin DOMAIN h.clientMap
  BY <1>1 DEF RemoveClient
<1>2. CASE c \in DOMAIN h.clientMap
  <2> DEFINE tg == h.clientMap[c]
             quiet == IF TalkerForTG(h, tg) = c
                        THEN SetTalkerForTG(h, tg, NoClient) ELSE h
  <2>1. tg \in TGs
    BY <1>2 DEF HandlerOK, IsHandler, IsClientMap
  <2>2. HandlerOK(quiet)
    BY <2>1, SetTalkerForTGOK
  <2>3. quiet.clientMap = h.clientMap
    BY DEF SetTalkerForTG, HandlerOK, IsHandler
  <2>4. RemoveClient(h, c) = RemoveClientP(quiet, c)
    BY <1>2 DEF RemoveClient
  <2> HIDE DEF quiet
  <2>5. QED
    BY <1>2, <2>2, <2>3, <2>4, RemoveClientPOK
<1>3. QED
  BY <1>1, <1>2

(***************************************************************************)
(* Replacing every TGInfo, as the timers do: the clients stay and a talker *)
(* stays or stops.                                                         *)
(***************************************************************************)
LEMMA ReplaceAllOK ==
  ASSUME NEW id, NEW cl, NEW new, IsIdMap(id), Consistent(id, cl),
         new \in [DOMAIN id -> TGInfo],
         \A tg \in DOMAIN id : /\ new[tg].clients = id[tg].clients
                               /\ new[tg].talker \in {id[tg].talker, NoClient}
  PROVE  IsIdMap(new) /\ Consistent(new, cl)
  BY DEF IsIdMap, Consistent

(***************************************************************************)
(* checkTimers keeps the maps in agreement: the talkers it stops are the   *)
(* only thing it changes in them.                                          *)
(***************************************************************************)
LEMMA CheckTimersOK ==
  ASSUME IInv, NEW h, HandlerOK(h)
  PROVE  HandlerOK(CheckTimersCall(h))
<1> DEFINE new == [tg \in DOMAIN h.idMap |-> Checked(tg, h.idMap[tg])]
           stopped == {tg \in DOMAIN h.idMap : TimedOut(h.idMap[tg])}
           upd == {[tg |-> tg, old |-> h.idMap[tg].talker, new |-> NoClient] :
                     tg \in stopped}
           q == {tg \in stopped : AsksQsy(tg, h.idMap[tg], NoClient)}
<1>1. /\ IsHandler(h) /\ IsIdMap(h.idMap) /\ IsClientMap(h.clientMap)
      /\ Consistent(h.idMap, h.clientMap)
  BY DEF HandlerOK, IsHandler
<1>2. ASSUME NEW tg \in DOMAIN h.idMap
      PROVE  /\ Checked(tg, h.idMap[tg]) \in TGInfo
             /\ Checked(tg, h.idMap[tg]).clients = h.idMap[tg].clients
             /\ Checked(tg, h.idMap[tg]).talker \in {h.idMap[tg].talker, NoClient}
  <2>1. tg \in TGs /\ h.idMap[tg] \in TGInfo
    BY <1>1 DEF IsIdMap
  <2>2. CASE TimedOut(h.idMap[tg])
    BY <2>1, <2>2, TalkerSetType DEF Checked
  <2>3. CASE ~TimedOut(h.idMap[tg])
    BY <2>1, <2>3 DEF Checked, TGInfo
  <2>4. QED
    BY <2>2, <2>3
<1>3. IsIdMap(new) /\ Consistent(new, h.clientMap)
  <2>1. new \in [DOMAIN h.idMap -> TGInfo]
    BY <1>2
  <2>2. \A tg \in DOMAIN h.idMap :
          /\ new[tg].clients = h.idMap[tg].clients
          /\ new[tg].talker \in {h.idMap[tg].talker, NoClient}
    BY <1>2
  <2> HIDE DEF new
  <2>3. QED
    BY <1>1, <2>1, <2>2, ReplaceAllOK
<1>4. upd \subseteq Signals
  BY <1>1 DEF IsIdMap, Signals, TGInfo
<1>5. q \subseteq TGs
  BY <1>1 DEF IsIdMap
<1>6. CheckTimersCall(h) = [h EXCEPT !.idMap = new, !.updated = upd, !.qsy = q]
  BY <1>1 DEF CheckTimersCall, IsHandler
<1> HIDE DEF new, upd, q
<1>7. QED
  BY <1>1, <1>3, <1>4, <1>5, <1>6 DEF HandlerOK, IsHandler

-----------------------------------------------------------------------------
(***************************************************************************)
(* The inductive invariant.                                                *)
(***************************************************************************)
LEMMA InitIInv == Init => IInv
  BY ConstantAssumption
     DEF Init, IInv, TypeOK, MapsAgree, TalkerIsMember, TGInfo

(***************************************************************************)
(* Installing a good handler re-establishes the invariant, provided the    *)
(* variables outside the record keep their types.                          *)
(***************************************************************************)
LEMMA DoneOK ==
  ASSUME NEW h, HandlerOK(h), Done(h),
         sqlTimeout' \in SqlTimeouts, allow' \in AllowSets,
         due' \in 0 .. MaxLate, blocked' \subseteq Clients
  PROVE  IInv'
<1>1. /\ IsIdMap(h.idMap) /\ IsClientMap(h.clientMap)
      /\ h.updated \subseteq Signals /\ h.qsy \subseteq TGs
      /\ Consistent(h.idMap, h.clientMap)
  BY DEF HandlerOK, IsHandler
<1>2. TypeOK'
  BY <1>1 DEF Done, TypeOK, IsIdMap, IsClientMap, Signals
<1>3. MapsAgree' /\ TalkerIsMember'
  BY <1>1 DEF Done, MapsAgree, TalkerIsMember, Consistent, IsIdMap
<1>4. QED
  BY <1>2, <1>3 DEF IInv

(***************************************************************************)
(* Selecting a talk group preserves the invariant, also when the selection *)
(* is refused.                                                             *)
(***************************************************************************)
LEMMA SelectTGInv ==
  ASSUME IInv, NEW c \in Clients, NEW tg \in TGs \cup {NoTG}, SelectTG(c, tg)
  PROVE  IInv'
<1>1. HandlerOK(Call)
  BY CallOK
<1>2. HandlerOK(SwitchTo(Call, c, tg))
      /\ HandlerOK(SwitchTo(SwitchTo(Call, c, tg), c, NoTG))
  BY <1>1, SwitchToOK
<1>3. PICK h : HandlerOK(h) /\ Done(h)
  BY <1>2 DEF SelectTG
<1>4. QED
  BY <1>3, DoneOK DEF SelectTG, IInv, TypeOK

(***************************************************************************)
(* Disconnecting a client preserves the invariant.                         *)
(***************************************************************************)
LEMMA DisconnectInv ==
  ASSUME IInv, NEW c \in Clients, Disconnect(c)
  PROVE  IInv'
<1>1. HandlerOK(RemoveClient(Call, c))
  BY CallOK, RemoveClientOK
<1>2. QED
  BY <1>1, DoneOK DEF Disconnect, IInv, TypeOK

(***************************************************************************)
(* A client that is in a talk group is among the clients of that group.    *)
(***************************************************************************)
LEMMA InItsGroup ==
  ASSUME NEW h, HandlerOK(h), NEW c \in Clients, TGForClient(h, c) # NoTG
  PROVE  /\ TGForClient(h, c) \in TGs \cap DOMAIN h.idMap
         /\ c \in ClientsForTG(h, TGForClient(h, c))
  BY DEF HandlerOK, IsHandler, IsClientMap, Consistent, TGForClient, ClientsForTG

(***************************************************************************)
(* Audio preserves the invariant: the sender is in the talk group it takes *)
(* the floor of.                                                           *)
(***************************************************************************)
LEMMA AudioReceivedInv ==
  ASSUME IInv, NEW c \in Clients, AudioReceived(c)
  PROVE  IInv'
<1> DEFINE tg == TGForClient(Call, c)
           started == IF TalkerForTG(Call, tg) = NoClient
                        THEN SetTalkerForTG(Call, tg, c) ELSE Call
<1>1. /\ HandlerOK(Call) /\ tg \in TGs \cap DOMAIN Call.idMap
      /\ c \in ClientsForTG(Call, tg)
  BY CallOK, InItsGroup DEF AudioReceived
<1>2. HandlerOK(started)
  BY <1>1, SetTalkerForTGOK
<1>3. TalkerForTG(started, tg) = c
  BY DEF AudioReceived
<1>4. c \in ClientsForTG(started, tg)
  <2>1. c # NoClient
    BY ConstantAssumption
  <2> HIDE DEF started, tg
  <2>2. QED
    BY <1>2, <1>3, <2>1 DEF HandlerOK, Consistent, TalkerForTG, ClientsForTG
<1>5. HandlerOK(SetTalkerForTG(started, tg, c))
  BY <1>1, <1>2, <1>4, SetTalkerForTGOK
<1>6. Done(SetTalkerForTG(started, tg, c))
  BY DEF AudioReceived
<1>7. QED
  BY <1>5, <1>6, DoneOK DEF AudioReceived, IInv, TypeOK

(***************************************************************************)
(* A flush preserves the invariant.                                        *)
(***************************************************************************)
LEMMA FlushReceivedInv ==
  ASSUME IInv, NEW c \in Clients, FlushReceived(c)
  PROVE  IInv'
<1> DEFINE tg == TGForClient(Call, c)
<1>1. HandlerOK(Call) /\ tg \in TGs
  BY CallOK, InItsGroup DEF FlushReceived
<1>2. HandlerOK(SetTalkerForTG(Call, tg, NoClient))
  BY <1>1, SetTalkerForTGOK
<1>3. QED
  BY <1>2, DoneOK DEF FlushReceived, IInv, TypeOK

(***************************************************************************)
(* The passing of a second preserves the invariant.                        *)
(***************************************************************************)
LEMMA SecondPassesInv ==
  ASSUME IInv, SecondPasses
  PROVE  IInv'
<1>1. due' \in 0 .. MaxLate
  BY ConstantAssumption DEF SecondPasses, IInv, TypeOK
<1>2. ASSUME NEW info \in TGInfo
      PROVE  /\ Aged(info) \in TGInfo
             /\ Aged(info).clients = info.clients
             /\ Aged(info).talker = info.talker
  <2>1. /\ IdleMax \in Int
        /\ info.idle \in Int /\ 0 <= info.idle /\ info.idle <= IdleMax
        /\ info.qsyIn \in Int
    BY ConstantAssumption DEF TGInfo, IdleMax
  <2>2. /\ (IF info.idle < IdleMax THEN info.idle + 1 ELSE info.idle) \in 0 .. IdleMax
        /\ (IF info.qsyIn >= 0 THEN info.qsyIn - 1 ELSE info.qsyIn) \in Int
    BY <2>1
  <2>3. QED
    BY <2>2 DEF Aged, TGInfo
<1>3. /\ DOMAIN idMap' = DOMAIN idMap
      /\ \A tg \in DOMAIN idMap : /\ idMap'[tg] \in TGInfo
                                  /\ idMap'[tg].clients = idMap[tg].clients
                                  /\ idMap'[tg].talker = idMap[tg].talker
  BY <1>2 DEF SecondPasses, IInv, TypeOK
<1>4. QED
  <2>1. TypeOK'
    BY <1>1, <1>3 DEF SecondPasses, IInv, TypeOK
  <2>2. MapsAgree' /\ TalkerIsMember'
    BY <1>3 DEF SecondPasses, IInv, MapsAgree, TalkerIsMember
  <2>3. QED
    BY <2>1, <2>2 DEF IInv

(***************************************************************************)
(* The timer preserves the invariant.                                      *)
(***************************************************************************)
LEMMA CheckTimersInv ==
  ASSUME IInv, CheckTimers
  PROVE  IInv'
<1>1. HandlerOK(CheckTimersCall(Call))
  BY CallOK, CheckTimersOK
<1>2. due' \in 0 .. MaxLate
  BY ConstantAssumption DEF CheckTimers, IInv, TypeOK
<1>3. blocked' \subseteq Clients
  BY DEF CheckTimers, SqlTimedOut, IInv, TypeOK, TGInfo
<1>4. QED
  BY <1>1, <1>2, <1>3, DoneOK DEF CheckTimers, IInv, TypeOK

(***************************************************************************)
(* Every step preserves the invariant.                                     *)
(***************************************************************************)
LEMMA NextIInv == IInv /\ [Next]_vars => IInv'
<1> SUFFICES ASSUME IInv, [Next]_vars PROVE IInv'
  OBVIOUS
<1>1. ASSUME NEW c \in Clients, NEW tg \in TGs \cup {NoTG}, SelectTG(c, tg)
      PROVE  IInv'
  BY <1>1, SelectTGInv
<1>2. ASSUME NEW c \in Clients, Disconnect(c) PROVE IInv'
  BY <1>2, DisconnectInv
<1>3. ASSUME NEW c \in Clients, AudioReceived(c) PROVE IInv'
  BY <1>3, AudioReceivedInv
<1>4. ASSUME NEW c \in Clients, FlushReceived(c) PROVE IInv'
  BY <1>4, FlushReceivedInv
<1>5. CASE SecondPasses
  BY <1>5, SecondPassesInv
<1>6. CASE CheckTimers
  BY <1>6, CheckTimersInv
<1>7. ASSUME NEW t \in SqlTimeouts, SetSqlTimeout(t) PROVE IInv'
  BY <1>7 DEF SetSqlTimeout, IInv, TypeOK, MapsAgree, TalkerIsMember
<1>8. ASSUME NEW a \in AllowSets, SetAllow(a) PROVE IInv'
  BY <1>8 DEF SetAllow, IInv, TypeOK, MapsAgree, TalkerIsMember
<1>9. CASE UNCHANGED vars
  BY <1>9 DEF vars, IInv, TypeOK, MapsAgree, TalkerIsMember
<1>10. QED
  BY <1>1, <1>2, <1>3, <1>4, <1>5, <1>6, <1>7, <1>8, <1>9 DEF Next

(***************************************************************************)
(* The invariant holds in every reachable state.                           *)
(***************************************************************************)
LEMMA Invariance == Spec => []IInv
  BY InitIInv, NextIInv, PTL DEF Spec

(***************************************************************************)
(* In every reachable state the variables of the handler have their types, *)
(* no client is in two talk groups, no pointer to a deleted TGInfo is kept *)
(* and none is leaked, and the talker of a talk group is one of its        *)
(* clients.                                                                *)
(***************************************************************************)
THEOREM HandlerAlwaysSound == Spec => []HandlerSound
  BY Invariance, PTL DEF IInv, HandlerSound

----------------------------------------------------------------------------
MemberOf(h) == [c \in Clients |-> TGForClient(h, c)]

FloorOf(h) == [tg \in TGs |-> TalkerForTG(h, tg)]

Moved(h, g, c, to) ==
    /\ MemberOf(g) = [MemberOf(h) EXCEPT ![c] = to]
    /\ FloorOf(g) = [tg \in TGs |-> IF FloorOf(h)[tg] = c THEN NoClient
                                    ELSE FloorOf(h)[tg]]

\* What a step owes the listeners: of every floor that changes hands, a signal with the
\* right names, unless its talker has left the talk group.
Told(tg) ==
    \/ [tg |-> tg, old |-> Floor[tg], new |-> Floor'[tg]] \in updated'
    \/ Floor'[tg] = NoClient /\ Member'[Floor[tg]] # tg

ChangesTold == \A tg \in TGs : Floor'[tg] # Floor[tg] => Told(tg)

\* The client moves to another talk group, or to none.
Leaves(c) == \E to \in (TGs \ {Member[c]}) \cup {NoTG} : FC!Move(c, to)

(***************************************************************************)
(* The abstract variables are those of the record of the present state,    *)
(* and Done(h) makes them those of h.                                      *)
(***************************************************************************)
LEMMA AbstractNow == Member = MemberOf(Call) /\ Floor = FloorOf(Call)
  BY DEF Member, MemberOf, Floor, FloorOf

(***************************************************************************)
(* Done(h) makes the abstract variables those of h.                        *)
(***************************************************************************)
LEMMA AbstractNext ==
  ASSUME NEW h, Done(h)
  PROVE  Member' = MemberOf(h) /\ Floor' = FloorOf(h)
  BY DEF Done, Call, Member, MemberOf, Floor, FloorOf, TGForClient, TalkerForTG

(***************************************************************************)
(* A client that is in no talk group holds no floor.                       *)
(***************************************************************************)
LEMMA OutsiderHoldsNone ==
  ASSUME NEW h, HandlerOK(h), NEW c \in Clients, c \notin DOMAIN h.clientMap,
         NEW tg \in TGs
  PROVE  FloorOf(h)[tg] # c
  BY ConstantAssumption DEF HandlerOK, Consistent, FloorOf, TalkerForTG

(***************************************************************************)
(* removeClientP moves the client to no talk group.                        *)
(***************************************************************************)
LEMMA RemoveClientPMoves ==
  ASSUME NEW h, HandlerOK(h), NEW c \in Clients, c \in DOMAIN h.clientMap
  PROVE  Moved(h, RemoveClientP(h, c), c, NoTG)
<1> DEFINE tg == h.clientMap[c]
           g == RemoveClientP(h, c)
           info == [h.idMap[tg] EXCEPT !.clients = @ \ {c},
                                       !.talker = IF @ = c THEN NoClient ELSE @]
<1>1. /\ IsHandler(h) /\ IsIdMap(h.idMap) /\ IsClientMap(h.clientMap)
      /\ Consistent(h.idMap, h.clientMap)
      /\ tg \in DOMAIN h.idMap /\ h.idMap[tg] \in TGInfo
  BY DEF HandlerOK, IsHandler, Consistent, IsIdMap
<1>2. /\ g.clientMap = [d \in DOMAIN h.clientMap \ {c} |-> h.clientMap[d]]
      /\ g.idMap = IF info.clients = {}
                     THEN [t \in DOMAIN h.idMap \ {tg} |-> h.idMap[t]]
                     ELSE [h.idMap EXCEPT ![tg] = info]
  BY <1>1 DEF RemoveClientP, Restrict, IsHandler
<1>3. /\ info.clients = h.idMap[tg].clients \ {c}
      /\ info.talker = IF h.idMap[tg].talker = c THEN NoClient ELSE h.idMap[tg].talker
      /\ info.talker \in info.clients \cup {NoClient}
  BY <1>1 DEF TGInfo, Consistent
<1> HIDE DEF g, info
<1>4. MemberOf(g) = [MemberOf(h) EXCEPT ![c] = NoTG]
  BY <1>1, <1>2 DEF MemberOf, TGForClient, IsClientMap
<1>5. ASSUME NEW t \in TGs
      PROVE  TalkerForTG(g, t) = IF TalkerForTG(h, t) = c THEN NoClient
                                 ELSE TalkerForTG(h, t)
  <2>1. CASE t = tg
    BY <1>1, <1>2, <1>3, <2>1 DEF TalkerForTG
  <2>2. CASE t # tg
    <3>1. t \in DOMAIN h.idMap => h.idMap[t].talker # c
      BY <1>1, <2>2, ConstantAssumption DEF Consistent
    <3>2. TalkerForTG(g, t) = TalkerForTG(h, t)
      BY <1>1, <1>2, <2>2 DEF TalkerForTG
    <3>3. QED
      BY <3>1, <3>2, ConstantAssumption DEF TalkerForTG
  <2>3. QED
    BY <2>1, <2>2
<1>6. FloorOf(g) = [t \in TGs |-> IF FloorOf(h)[t] = c THEN NoClient
                                  ELSE FloorOf(h)[t]]
  BY <1>5 DEF FloorOf
<1>7. QED
  BY <1>4, <1>6 DEF Moved, g

(***************************************************************************)
(* The insertion of switchTo moves the client and leaves the floors alone. *)
(***************************************************************************)
LEMMA AddClientMoves ==
  ASSUME NEW h, HandlerOK(h), NEW c \in Clients, NEW tg \in TGs
  PROVE  /\ MemberOf(AddClient(h, c, tg)) = [MemberOf(h) EXCEPT ![c] = tg]
         /\ FloorOf(AddClient(h, c, tg)) = FloorOf(h)
<1> DEFINE old == IF tg \in DOMAIN h.idMap THEN h.idMap[tg] ELSE NewTGInfo
           info == [old EXCEPT !.clients = @ \cup {c}]
           g == AddClient(h, c, tg)
<1>1. IsHandler(h) /\ IsIdMap(h.idMap) /\ IsClientMap(h.clientMap)
  BY DEF HandlerOK, IsHandler
<1>2. /\ g.clientMap = [d \in DOMAIN h.clientMap \cup {c} |->
                          IF d = c THEN tg ELSE h.clientMap[d]]
      /\ g.idMap = [t \in DOMAIN h.idMap \cup {tg} |->
                      IF t = tg THEN info ELSE h.idMap[t]]
  BY <1>1 DEF AddClient, IsHandler
<1>3. info.talker = TalkerForTG(h, tg)
  BY <1>1 DEF TalkerForTG, NewTGInfo, IsIdMap, TGInfo
<1> HIDE DEF g, info, old
<1>4. MemberOf(g) = [MemberOf(h) EXCEPT ![c] = tg]
  BY <1>1, <1>2 DEF MemberOf, TGForClient, IsClientMap
<1>5. FloorOf(g) = FloorOf(h)
  BY <1>1, <1>2, <1>3 DEF FloorOf, TalkerForTG, IsIdMap
<1>6. QED
  BY <1>4, <1>5 DEF g

(***************************************************************************)
(* switchTo changes nothing, or moves the client to the talk group it may  *)
(* have, or to none.                                                       *)
(***************************************************************************)
LEMMA SwitchToMoves ==
  ASSUME NEW h, HandlerOK(h), NEW c \in Clients, NEW tg \in TGs \cup {NoTG}
  PROVE  /\ TGForClient(h, c) = tg => SwitchTo(h, c, tg) = h
         /\ TGForClient(h, c) # tg =>
              Moved(h, SwitchTo(h, c, tg), c,
                    IF tg # NoTG /\ AllowTgSelection(c, tg) THEN tg ELSE NoTG)
<1> DEFINE left == IF c \in DOMAIN h.clientMap THEN RemoveClientP(h, c) ELSE h
           to == IF tg # NoTG /\ AllowTgSelection(c, tg) THEN tg ELSE NoTG
<1>1. HandlerOK(left) /\ c \notin DOMAIN left.clientMap
  BY RemoveClientPOK
<1>2. Moved(h, left, c, NoTG)
  <2>1. CASE c \in DOMAIN h.clientMap
    BY <2>1, RemoveClientPMoves
  <2>2. CASE c \notin DOMAIN h.clientMap
    <3>1. \A t \in TGs : FloorOf(h)[t] # c
      BY <2>2, OutsiderHoldsNone
    <3>2. MemberOf(h) = [MemberOf(h) EXCEPT ![c] = NoTG]
      BY <2>2 DEF MemberOf, TGForClient
    <3>3. FloorOf(h) = [t \in TGs |-> IF FloorOf(h)[t] = c THEN NoClient
                                      ELSE FloorOf(h)[t]]
      BY <3>1 DEF FloorOf
    <3>4. QED
      BY <2>2, <3>2, <3>3 DEF Moved
  <2>3. QED
    BY <2>1, <2>2
<1>3. CASE TGForClient(h, c) = tg
  BY <1>3 DEF SwitchTo
<1>4. CASE TGForClient(h, c) # tg
  <2>1. CASE to = NoTG
    <3>1. SwitchTo(h, c, tg) = left
      BY <1>4, <2>1, ConstantAssumption DEF SwitchTo
    <3>2. QED
      BY <1>2, <1>4, <2>1, <3>1
  <2>2. CASE to # NoTG
    <3>1. to = tg /\ tg \in TGs /\ SwitchTo(h, c, tg) = AddClient(left, c, tg)
      BY <1>4, <2>2 DEF SwitchTo
    <3> HIDE DEF left, to
    <3>2. /\ MemberOf(AddClient(left, c, tg)) = [MemberOf(left) EXCEPT ![c] = tg]
          /\ FloorOf(AddClient(left, c, tg)) = FloorOf(left)
      BY <1>1, <3>1, AddClientMoves
    <3>3. [[MemberOf(h) EXCEPT ![c] = NoTG] EXCEPT ![c] = tg]
            = [MemberOf(h) EXCEPT ![c] = tg]
      BY DEF MemberOf
    <3>4. Moved(h, SwitchTo(h, c, tg), c, to)
      BY <1>2, <3>1, <3>2, <3>3 DEF Moved
    <3>5. QED
      BY <1>4, <3>4 DEF to
  <2>3. QED
    BY <2>1, <2>2
<1>5. QED
  BY <1>3, <1>4

(***************************************************************************)
(* setTalkerForTG changes one floor and no membership.                     *)
(***************************************************************************)
LEMMA SetTalkerChangesFloor ==
  ASSUME IInv, NEW h, HandlerOK(h), NEW tg \in TGs, tg \in DOMAIN h.idMap,
         NEW new \in Clients \cup {NoClient}
  PROVE  /\ MemberOf(SetTalkerForTG(h, tg, new)) = MemberOf(h)
         /\ FloorOf(SetTalkerForTG(h, tg, new)) = [FloorOf(h) EXCEPT ![tg] = new]
         /\ SetTalkerForTG(h, tg, new).clientMap = h.clientMap
         /\ h.updated \subseteq SetTalkerForTG(h, tg, new).updated
         /\ FloorOf(h)[tg] # new =>
              [tg |-> tg, old |-> FloorOf(h)[tg], new |-> new]
                \in SetTalkerForTG(h, tg, new).updated
<1> DEFINE info == h.idMap[tg]
           i == IF new = info.talker THEN [info EXCEPT !.idle = 0]
                ELSE TalkerSet(tg, info, new)
           g == SetTalkerForTG(h, tg, new)
<1>1. IsHandler(h) /\ IsIdMap(h.idMap) /\ info \in TGInfo
  BY DEF HandlerOK, IsHandler, IsIdMap
<1>2. i.talker = new
  BY <1>1 DEF TGInfo, TalkerSet
<1>3. /\ g.idMap = [h.idMap EXCEPT ![tg] = i]
      /\ g.clientMap = h.clientMap
      /\ g.updated = IF new = info.talker THEN h.updated
                     ELSE h.updated \cup {[tg |-> tg, old |-> info.talker, new |-> new]}
  <2>1. CASE new = info.talker
    BY <1>1, <2>1 DEF SetTalkerForTG, IsHandler, IsIdMap
  <2>2. CASE new # info.talker
    BY <1>1, <2>2 DEF SetTalkerForTG, IsHandler, IsIdMap
  <2>3. QED
    BY <2>1, <2>2
<1> HIDE DEF g, i
<1>4. MemberOf(g) = MemberOf(h)
  BY <1>3 DEF MemberOf, TGForClient
<1>5. FloorOf(g) = [FloorOf(h) EXCEPT ![tg] = new]
  BY <1>1, <1>2, <1>3 DEF FloorOf, TalkerForTG, IsIdMap
<1>6. FloorOf(h)[tg] = info.talker
  BY DEF FloorOf, TalkerForTG
<1>7. QED
  BY <1>3, <1>4, <1>5, <1>6 DEF g

-----------------------------------------------------------------------------
(***************************************************************************)
(* A handler record that is Moved from the present state, and installed,   *)
(* is a step of the abstract specification.                                *)
(***************************************************************************)
LEMMA MovedIsMove ==
  ASSUME NEW h, Done(h), NEW c \in Clients, NEW to \in TGs \cup {NoTG},
         Moved(Call, h, c, to)
  PROVE  FC!Move(c, to)
<1>1. Member' = [Member EXCEPT ![c] = to]
  BY AbstractNow, AbstractNext DEF Moved
<1>2. Floor' = [tg \in TGs |-> IF Floor[tg] = c THEN NoClient ELSE Floor[tg]]
  BY AbstractNow, AbstractNext DEF Moved
<1>3. QED
  BY <1>1, <1>2 DEF FC!Move

(***************************************************************************)
(* SelectTG moves its client, or changes nothing when it selects the talk  *)
(* group it is in.                                                         *)
(***************************************************************************)
LEMMA SelectTGStep ==
  ASSUME IInv, NEW c \in Clients, NEW tg \in TGs \cup {NoTG}, SelectTG(c, tg)
  PROVE  Leaves(c) \/ UNCHANGED <<Member, Floor>>
<1> DEFINE first == SwitchTo(Call, c, tg)
           to == IF tg # NoTG /\ AllowTgSelection(c, tg) THEN tg ELSE NoTG
<1>1. HandlerOK(Call) /\ HandlerOK(first)
  BY CallOK, SwitchToOK
<1>2. /\ TGForClient(Call, c) = tg => first = Call
      /\ TGForClient(Call, c) # tg => Moved(Call, first, c, to)
  BY <1>1, SwitchToMoves
<1>3. CASE SwitchAllowed(Call, c, tg)
  <2>1. Done(first)
    BY <1>3 DEF SelectTG
  <2>2. CASE TGForClient(Call, c) = tg
    BY <1>2, <2>1, <2>2, AbstractNow, AbstractNext
  <2>3. CASE TGForClient(Call, c) # tg
    <3>1. FC!Move(c, to)
      BY <1>2, <2>1, <2>3, MovedIsMove
    <3>2. to \in (TGs \ {Member[c]}) \cup {NoTG}
      BY <2>3 DEF Member
    <3>3. QED
      BY <3>1, <3>2 DEF Leaves
  <2>4. QED
    BY <2>2, <2>3
<1>4. CASE ~SwitchAllowed(Call, c, tg)
  <2>1. /\ TGForClient(Call, c) # tg /\ to = NoTG
        /\ Done(SwitchTo(first, c, NoTG))
    BY <1>4 DEF SwitchAllowed, SelectTG
  <2>2. Moved(Call, first, c, NoTG)
    BY <1>2, <2>1
  <2> HIDE DEF first
  <2>3. TGForClient(first, c) = NoTG
    BY <2>2 DEF Moved, MemberOf
  <2>4. SwitchTo(first, c, NoTG) = first
    BY <1>1, <2>3, SwitchToMoves
  <2>5. FC!Move(c, NoTG)
    BY <2>1, <2>2, <2>4, MovedIsMove
  <2>6. QED
    BY <2>5 DEF Leaves
<1>5. QED
  BY <1>3, <1>4

(***************************************************************************)
(* Disconnecting a client moves it to no talk group, with the floor it may *)
(* have held.                                                              *)
(***************************************************************************)
LEMMA DisconnectStep ==
  ASSUME IInv, NEW c \in Clients, Disconnect(c)
  PROVE  Leaves(c) \/ UNCHANGED <<Member, Floor>>
<1> DEFINE tg == TGForClient(Call, c)
           quiet == IF TalkerForTG(Call, tg) = c
                      THEN SetTalkerForTG(Call, tg, NoClient) ELSE Call
<1>1. HandlerOK(Call) /\ Done(RemoveClient(Call, c))
  BY CallOK DEF Disconnect
<1>2. CASE c \notin DOMAIN Call.clientMap
  BY <1>1, <1>2, AbstractNow, AbstractNext DEF RemoveClient
<1>3. CASE c \in DOMAIN Call.clientMap
  <2>1. /\ tg \in TGs /\ tg \in DOMAIN Call.idMap
        /\ RemoveClient(Call, c) = RemoveClientP(quiet, c)
    BY <1>1, <1>3 DEF HandlerOK, IsHandler, IsClientMap, Consistent, TGForClient,
                      RemoveClient
  <2>2. HandlerOK(quiet) /\ quiet.clientMap = Call.clientMap
    BY <1>1, <2>1, SetTalkerForTGOK, SetTalkerChangesFloor
  <2>3. /\ MemberOf(quiet) = MemberOf(Call)
        /\ FloorOf(quiet) = [FloorOf(Call) EXCEPT
                               ![tg] = IF @ = c THEN NoClient ELSE @]
    <3>1. FloorOf(Call)[tg] = TalkerForTG(Call, tg)
      BY <2>1 DEF FloorOf
    <3>2. CASE TalkerForTG(Call, tg) = c
      BY <1>1, <2>1, <3>1, <3>2, SetTalkerChangesFloor
    <3>3. CASE TalkerForTG(Call, tg) # c
      BY <2>1, <3>1, <3>3 DEF FloorOf
    <3>4. QED
      BY <3>2, <3>3
  <2>4. Moved(quiet, RemoveClientP(quiet, c), c, NoTG)
    <3> HIDE DEF quiet
    <3>1. QED
      BY <1>3, <2>2, RemoveClientPMoves
  <2> HIDE DEF quiet, tg
  <2>5. Moved(Call, RemoveClient(Call, c), c, NoTG)
    <3>1. [t \in TGs |-> IF FloorOf(quiet)[t] = c THEN NoClient ELSE FloorOf(quiet)[t]]
            = [t \in TGs |-> IF FloorOf(Call)[t] = c THEN NoClient ELSE FloorOf(Call)[t]]
      BY <2>3, ConstantAssumption DEF FloorOf
    <3>2. QED
      BY <2>1, <2>3, <2>4, <3>1 DEF Moved
  <2>6. FC!Move(c, NoTG)
    BY <1>1, <2>5, MovedIsMove
  <2>7. QED
    BY <2>6 DEF Leaves
<1>4. QED
  BY <1>2, <1>3

(***************************************************************************)
(* Audio takes the floor of the talk group when it is free, which is       *)
(* signalled, and changes nothing when its sender has the floor already.   *)
(***************************************************************************)
LEMMA AudioReceivedStep ==
  ASSUME IInv, NEW c \in Clients, AudioReceived(c)
  PROVE  [FC!Next]_<<Member, Floor>> /\ ChangesTold
<1> DEFINE tg == TGForClient(Call, c)
           started == IF TalkerForTG(Call, tg) = NoClient
                        THEN SetTalkerForTG(Call, tg, c) ELSE Call
           last == SetTalkerForTG(started, tg, c)
<1>1. /\ HandlerOK(Call) /\ tg \in TGs /\ tg \in DOMAIN Call.idMap
      /\ c \in ClientsForTG(Call, tg)
      /\ TalkerForTG(started, tg) = c
      /\ Done(last)
  BY CallOK, InItsGroup DEF AudioReceived
<1>2. HandlerOK(started)
  BY <1>1, SetTalkerForTGOK
<1>3. MemberOf(started) = MemberOf(Call)
  BY <1>1, SetTalkerChangesFloor
<1>4. FloorOf(Call)[tg] = TalkerForTG(Call, tg)
  BY <1>1 DEF FloorOf
<1>5. FloorOf(started) = [FloorOf(Call) EXCEPT ![tg] = c]
  <2>1. CASE TalkerForTG(Call, tg) = NoClient
    BY <1>1, <2>1, SetTalkerChangesFloor
  <2>2. CASE TalkerForTG(Call, tg) # NoClient
    BY <1>1, <2>2 DEF FloorOf
  <2>3. QED
    BY <2>1, <2>2
<1>6. tg \in DOMAIN started.idMap
  <2> HIDE DEF started
  <2>1. QED
    BY <1>1, ConstantAssumption DEF TalkerForTG
<1>a. TalkerForTG(Call, tg) = NoClient =>
        [tg |-> tg, old |-> NoClient, new |-> c] \in started.updated
  BY <1>1, <1>4, ConstantAssumption, SetTalkerChangesFloor
<1> HIDE DEF started
<1>7. /\ MemberOf(last) = MemberOf(Call)
      /\ FloorOf(last) = [FloorOf(Call) EXCEPT ![tg] = c]
  <2>1. /\ MemberOf(last) = MemberOf(started)
        /\ FloorOf(last) = [FloorOf(started) EXCEPT ![tg] = c]
    BY <1>1, <1>2, <1>6, SetTalkerChangesFloor
  <2>2. [[FloorOf(Call) EXCEPT ![tg] = c] EXCEPT ![tg] = c]
          = [FloorOf(Call) EXCEPT ![tg] = c]
    BY DEF FloorOf
  <2>3. QED
    BY <1>3, <1>5, <2>1, <2>2
<1>8. /\ Member' = Member
      /\ Floor' = [Floor EXCEPT ![tg] = c]
      /\ Member[c] = tg
      /\ Floor[tg] = TalkerForTG(Call, tg)
  BY <1>1, <1>4, <1>7, AbstractNow, AbstractNext DEF MemberOf
<1>9. CASE TalkerForTG(Call, tg) = NoClient
  <2>1. FC!Take(c, tg)
    BY <1>8, <1>9 DEF FC!Take
  <2>2. started.updated \subseteq updated'
    BY <1>1, <1>2, <1>6, SetTalkerChangesFloor DEF Done
  <2>3. Floor[tg] = NoClient /\ Floor'[tg] = c
        /\ \A t \in TGs : t # tg => Floor'[t] = Floor[t]
    BY <1>1, <1>8, <1>9 DEF Floor
  <2>4. ChangesTold
    BY <1>9, <1>a, <2>2, <2>3 DEF ChangesTold, Told
  <2>5. QED
    BY <1>1, <2>1, <2>4 DEF FC!Next
<1>10. CASE TalkerForTG(Call, tg) # NoClient
  <2>1. TalkerForTG(Call, tg) = c
    BY <1>1, <1>10 DEF started
  <2>2. Floor' = Floor
    BY <1>8, <2>1 DEF Floor
  <2>3. QED
    BY <1>8, <2>2 DEF ChangesTold
<1>11. QED
  BY <1>9, <1>10

(***************************************************************************)
(* A flush releases the floor of the talk group, which is signalled.       *)
(***************************************************************************)
LEMMA FlushReceivedStep ==
  ASSUME IInv, NEW c \in Clients, FlushReceived(c)
  PROVE  [FC!Next]_<<Member, Floor>> /\ ChangesTold
<1> DEFINE tg == TGForClient(Call, c)
           h == SetTalkerForTG(Call, tg, NoClient)
<1>1. HandlerOK(Call) /\ tg \in TGs /\ tg \in DOMAIN Call.idMap /\ Done(h)
  BY CallOK, InItsGroup DEF FlushReceived
<1>2. /\ MemberOf(h) = MemberOf(Call)
      /\ FloorOf(h) = [FloorOf(Call) EXCEPT ![tg] = NoClient]
      /\ FloorOf(Call)[tg] # NoClient =>
           [tg |-> tg, old |-> FloorOf(Call)[tg], new |-> NoClient] \in h.updated
  BY <1>1, SetTalkerChangesFloor
<1> HIDE DEF h
<1>3. Member' = Member /\ Floor' = [Floor EXCEPT ![tg] = NoClient]
  BY <1>1, <1>2, AbstractNow, AbstractNext
<1>4. FC!Release({tg})
  BY <1>3 DEF FC!Release, Floor
<1>5. Floor'[tg] = NoClient /\ \A t \in TGs : t # tg => Floor'[t] = Floor[t]
  BY <1>1, <1>3 DEF Floor
<1>6. ChangesTold
  BY <1>1, <1>2, <1>5, AbstractNow DEF ChangesTold, Told, Done
<1>7. QED
  BY <1>1, <1>4, <1>6 DEF FC!Next

(***************************************************************************)
(* The timer releases the floors of the talk groups it stops, and signals  *)
(* each of them.                                                           *)
(***************************************************************************)
LEMMA CheckTimersStep ==
  ASSUME IInv, CheckTimers
  PROVE  [FC!Next]_<<Member, Floor>> /\ ChangesTold
<1> DEFINE stopped == {tg \in DOMAIN idMap : TimedOut(idMap[tg])}
<1>1. /\ IsIdMap(idMap)
      /\ idMap' = [tg \in DOMAIN idMap |-> Checked(tg, idMap[tg])]
      /\ clientMap' = clientMap
  BY DEF IInv, TypeOK, IsIdMap, CheckTimers, Done, CheckTimersCall, Call
<1>2. ASSUME NEW tg \in DOMAIN idMap
      PROVE  idMap'[tg].talker = IF tg \in stopped THEN NoClient ELSE idMap[tg].talker
  <2>1. tg \in TGs /\ idMap[tg] \in TGInfo
    BY <1>1 DEF IsIdMap
  <2>2. CASE TimedOut(idMap[tg])
    BY <1>1, <2>1, <2>2, TalkerSetType DEF Checked
  <2>3. CASE ~TimedOut(idMap[tg])
    BY <1>1, <2>1, <2>3 DEF Checked, TGInfo
  <2>4. QED
    BY <2>2, <2>3
<1>3. Member' = Member
  BY <1>1 DEF Member, Call, TGForClient
<1>4. DOMAIN idMap' = DOMAIN idMap /\ stopped \subseteq DOMAIN idMap
  BY <1>1
<1>a. \A tg \in stopped :
        [tg |-> tg, old |-> idMap[tg].talker, new |-> NoClient] \in updated'
  BY DEF CheckTimers, Done, CheckTimersCall, Call
<1> HIDE DEF stopped
<1>5. Floor' = [tg \in TGs |-> IF tg \in stopped THEN NoClient ELSE Floor[tg]]
  BY <1>2, <1>4 DEF Floor, Call, TalkerForTG
<1>6. FC!Release(stopped)
  BY <1>3, <1>5 DEF FC!Release
<1>7. stopped \in SUBSET TGs
  BY <1>1, <1>4 DEF IsIdMap
<1>8. \A tg \in stopped : Floor[tg] = idMap[tg].talker
  BY <1>4, <1>7 DEF Floor, Call, TalkerForTG
<1>9. ChangesTold
  BY <1>a, <1>5, <1>8 DEF ChangesTold, Told
<1>10. QED
  BY <1>6, <1>7, <1>9 DEF FC!Next

(***************************************************************************)
(* The passing of a second changes no floor and no membership.             *)
(***************************************************************************)
LEMMA SecondPassesStep ==
  ASSUME IInv, SecondPasses
  PROVE  UNCHANGED <<Member, Floor>>
<1>1. ASSUME NEW tg \in DOMAIN idMap PROVE Aged(idMap[tg]).talker = idMap[tg].talker
  BY DEF Aged, IInv, TypeOK, TGInfo
<1>2. DOMAIN idMap' = DOMAIN idMap /\ clientMap' = clientMap
      /\ \A tg \in DOMAIN idMap : idMap'[tg].talker = idMap[tg].talker
  BY <1>1 DEF SecondPasses
<1>3. QED
  BY <1>2 DEF Member, Floor, Call, TGForClient, TalkerForTG

(***************************************************************************)
(* Every step of the handler is a step of the abstract specification, or   *)
(* leaves its variables unchanged.                                         *)
(***************************************************************************)
LEMMA StepSimulation == IInv /\ [Next]_vars => [FC!Next]_<<Member, Floor>>
<1> SUFFICES ASSUME IInv, [Next]_vars PROVE [FC!Next]_<<Member, Floor>>
  OBVIOUS
<1>1. ASSUME NEW c \in Clients, NEW tg \in TGs \cup {NoTG}, SelectTG(c, tg)
      PROVE  [FC!Next]_<<Member, Floor>>
  BY <1>1, SelectTGStep DEF Leaves, FC!Next
<1>2. ASSUME NEW c \in Clients, Disconnect(c) PROVE [FC!Next]_<<Member, Floor>>
  BY <1>2, DisconnectStep DEF Leaves, FC!Next
<1>3. ASSUME NEW c \in Clients, AudioReceived(c) PROVE [FC!Next]_<<Member, Floor>>
  BY <1>3, AudioReceivedStep
<1>4. ASSUME NEW c \in Clients, FlushReceived(c) PROVE [FC!Next]_<<Member, Floor>>
  BY <1>4, FlushReceivedStep
<1>5. CASE SecondPasses
  BY <1>5, SecondPassesStep
<1>6. CASE CheckTimers
  BY <1>6, CheckTimersStep
<1>7. ASSUME UNCHANGED <<idMap, clientMap>> PROVE UNCHANGED <<Member, Floor>>
  BY <1>7 DEF Member, Floor, Call, TGForClient, TalkerForTG
<1>8. ASSUME NEW t \in SqlTimeouts, SetSqlTimeout(t)
      PROVE  [FC!Next]_<<Member, Floor>>
  BY <1>7, <1>8 DEF SetSqlTimeout
<1>9. ASSUME NEW a \in AllowSets, SetAllow(a) PROVE [FC!Next]_<<Member, Floor>>
  BY <1>7, <1>9 DEF SetAllow
<1>10. CASE UNCHANGED vars
  BY <1>7, <1>10 DEF vars
<1>11. QED
  BY <1>1, <1>2, <1>3, <1>4, <1>5, <1>6, <1>8, <1>9, <1>10 DEF Next

(***************************************************************************)
(* The empty maps are the abstract initial state.                          *)
(***************************************************************************)
LEMMA InitSimulation == Init => FC!Init
  BY DEF Init, FC!Init, Member, Floor, Call, TGForClient, TalkerForTG

(***************************************************************************)
(* The talk group handler implements the floor control: nobody is talked   *)
(* over, a floor is held by one member of the talk group or by nobody, and *)
(* a client that leaves takes its voice with it (TGHandler.cpp).           *)
(***************************************************************************)
THEOREM ImplementsFloorControl == Spec => FloorControlSpec
<1>1. IInv /\ [Next]_vars => [FC!Next]_FC!vars
  BY StepSimulation DEF FC!vars
<1>2. QED
  BY <1>1, InitSimulation, Invariance, PTL DEF Spec, FloorControlSpec, FC!Spec

(***************************************************************************)
(* A talker is a member of its talk group, so that a move that silences it *)
(* takes it out of that group.                                             *)
(***************************************************************************)
LEMMA LeavingIsTold ==
  ASSUME IInv, NEW c \in Clients, Leaves(c)
  PROVE  ChangesTold
<1>1. PICK to \in (TGs \ {Member[c]}) \cup {NoTG} : FC!Move(c, to)
  BY DEF Leaves
<1>2. ASSUME NEW tg \in TGs, Floor'[tg] # Floor[tg]
      PROVE  Floor[tg] = c /\ Floor'[tg] = NoClient
  BY <1>1, <1>2 DEF FC!Move
<1>3. ASSUME NEW tg \in TGs, Floor[tg] = c
      PROVE  Member[c] = tg
  <2>1. tg \in DOMAIN idMap /\ idMap[tg].talker = c
    BY <1>3, ConstantAssumption DEF Floor, Call, TalkerForTG
  <2>2. c \in idMap[tg].clients
    BY <2>1, ConstantAssumption DEF IInv, TalkerIsMember
  <2>3. c \in DOMAIN clientMap /\ clientMap[c] = tg
    BY <2>1, <2>2 DEF IInv, MapsAgree
  <2>4. QED
    BY <2>3 DEF Member, Call, TGForClient
<1>4. Member'[c] = to
  BY <1>1 DEF FC!Move, Member
<1>5. QED
  BY <1>1, <1>2, <1>3, <1>4, ConstantAssumption DEF ChangesTold, Told

(***************************************************************************)
(* Every change of a talker is signalled by the right names, but for a     *)
(* talker that leaves the talk group (setTalkerForTG, removeClientP).      *)
(***************************************************************************)
THEOREM ChangesAreTold == Spec => SilentOnlyWhenLeaving
<1>1. ASSUME IInv, [Next]_vars
      PROVE  ChangesTold
  <2>1. ASSUME NEW c \in Clients, NEW tg \in TGs \cup {NoTG}, SelectTG(c, tg)
        PROVE  ChangesTold
    BY <1>1, <2>1, SelectTGStep, LeavingIsTold DEF ChangesTold
  <2>2. ASSUME NEW c \in Clients, Disconnect(c) PROVE ChangesTold
    BY <1>1, <2>2, DisconnectStep, LeavingIsTold DEF ChangesTold
  <2>3. ASSUME NEW c \in Clients, AudioReceived(c) PROVE ChangesTold
    BY <1>1, <2>3, AudioReceivedStep
  <2>4. ASSUME NEW c \in Clients, FlushReceived(c) PROVE ChangesTold
    BY <1>1, <2>4, FlushReceivedStep
  <2>5. CASE SecondPasses
    BY <1>1, <2>5, SecondPassesStep DEF ChangesTold
  <2>6. CASE CheckTimers
    BY <1>1, <2>6, CheckTimersStep
  <2>7. ASSUME UNCHANGED <<idMap, clientMap>> PROVE ChangesTold
    BY <2>7 DEF ChangesTold, Floor, Call, TalkerForTG
  <2>8. ASSUME NEW t \in SqlTimeouts, SetSqlTimeout(t) PROVE ChangesTold
    BY <2>7, <2>8 DEF SetSqlTimeout
  <2>9. ASSUME NEW a \in AllowSets, SetAllow(a) PROVE ChangesTold
    BY <2>7, <2>9 DEF SetAllow
  <2>10. CASE UNCHANGED vars
    BY <2>7, <2>10 DEF vars
  <2>11. QED
    BY <1>1, <2>1, <2>2, <2>3, <2>4, <2>5, <2>6, <2>8, <2>9, <2>10 DEF Next
<1>2. IInv /\ [Next]_vars =>
        [\A tg \in TGs :
           Floor'[tg] # Floor[tg] =>
             \/ [tg |-> tg, old |-> Floor[tg], new |-> Floor'[tg]] \in updated'
             \/ Floor'[tg] = NoClient /\ Member'[Floor[tg]] # tg]_vars
  BY <1>1 DEF ChangesTold, Told
<1>3. QED
  BY <1>2, Invariance, PTL DEF Spec, SilentOnlyWhenLeaving
=============================================================================
