---------------------------- MODULE LinkManager ----------------------------
(***************************************************************************)
(* The links between logic cores, LinkManager in                           *)
(* svxlink/svxlink/LinkManager.cpp, as functions from its state to the     *)
(* state after a call.  The calls come from the logic cores, often in the  *)
(* middle of their own handlers: RepeaterLink.tla composes the two.        *)
(*                                                                         *)
(* Time is abstract: an enabled timer may expire at any moment.            *)
(***************************************************************************)
EXTENDS FiniteSets, Naturals

CONSTANTS
    Logics,         \* the logic cores of the configuration
    Links,          \* the links of the configuration
    TGs,            \* talk groups
    ConnectLogics,  \* [Links -> SUBSET Logics], CONNECT_LOGICS
    DefaultActive,  \* links with DEFAULT_ACTIVE
    TimeoutLinks,   \* links with a TIMEOUT
    OnActivity,     \* [Links -> SUBSET Logics], ACTIVATE_ON_ACTIVITY
    OnTg            \* [Links -> SUBSET (Logics \X TGs)], ACTIVATE_ON_TG

\* There are finitely many logics. A link that is activated automatically gets a time-out
\* if it has none.
ASSUME LinkAssumption ==
    /\ IsFiniteSet(Logics)
    /\ ConnectLogics \in [Links -> SUBSET Logics]
    /\ DefaultActive \subseteq Links /\ TimeoutLinks \subseteq Links
    /\ OnActivity \in [Links -> SUBSET Logics]
    /\ OnTg \in [Links -> SUBSET (Logics \X TGs)]
    /\ {l \in Links : OnActivity[l] # {} \/ OnTg[l] # {}} \subseteq TimeoutLinks

LinkStates ==
    [idle   : [Logics -> BOOLEAN],          \* LogicBase::m_is_idle of each logic
     props  : [Links -> SUBSET Logics],     \* Link::logic_props
     active : SUBSET Links,                 \* Link::is_activated
     muted  : SUBSET Logics,                \* LogicInfo::is_muted
     cons   : SUBSET (Logics \X Logics),    \* current_cons
     timer  : SUBSET Links]                 \* Link::timeout_timer is enabled

LinkNames(lm, x) == {l \in Links : x \in lm.props[l]}

----------------------------------------------------------------------------
(* Connections *)

\* The connections that the active links give explicitly.
Explicit(lm) ==
    {c \in Logics \X Logics :
        /\ c[1] # c[2] /\ {c[1], c[2]} \cap lm.muted = {}
        /\ \E l \in lm.active : {c[1], c[2]} \subseteq lm.props[l]}

\* One pass over all pairs of connections.
Implied(want) ==
    want \cup {c \in Logics \X Logics :
                c[1] # c[2] /\ \E x \in Logics : <<c[1], x>> \in want /\ <<x, c[2]>> \in want}

\* Passes until nothing is added; as many as there are logics are enough.
WantedConnections(lm) ==
    LET want[k \in 0..Cardinality(Logics)] ==
            IF k = 0 THEN Explicit(lm) ELSE Implied(want[k - 1])
    IN  want[Cardinality(Logics)]

\* Mutant: connections are established and never broken.
UpdateConnectionsKeeps(lm) ==
    [lm EXCEPT !.cons = @ \cup (WantedConnections(lm) \ @)]

UpdateConnections(lm) ==
    LET want == WantedConnections(lm)
        kept == lm.cons \ (lm.cons \ want)
    IN  [lm EXCEPT !.cons = kept \cup (want \ kept)]

----------------------------------------------------------------------------
(* Time-out timers, activation and the idle state of the logics *)

AllLogicsIdle(lm, l) == \A x \in lm.props[l] : x \in lm.muted \/ lm.idle[x]

\* Is the link activated or not as it is by default?
AtDefault(lm, l) == (l \in lm.active) = (l \in DefaultActive)

CheckTimeoutTimer(lm, ls) ==
    [lm EXCEPT !.timer =
        (@ \ ls) \cup {l \in ls \cap TimeoutLinks : AllLogicsIdle(lm, l) /\ ~AtDefault(lm, l)}]

\* activateLink for each of the links ls that is not active.
ActivateLinks(lm, ls) ==
    LET new == ls \ lm.active
    IN  IF new = {} THEN lm
        ELSE CheckTimeoutTimer(UpdateConnections([lm EXCEPT !.active = @ \cup new]), new)

\* Mutant: the time-out of a link that was switched off is not started.
DeactivateLinkNoTimer(lm, l) ==
    IF l \in lm.active THEN UpdateConnections([lm EXCEPT !.active = @ \ {l}]) ELSE lm

DeactivateLink(lm, l) ==
    IF l \in lm.active
    THEN CheckTimeoutTimer(UpdateConnections([lm EXCEPT !.active = @ \ {l}]), {l})
    ELSE lm

\* Called with the new idle state of x in lm.
LogicIdleStateChanged(lm, x) ==
    LET ls   == LinkNames(lm, x)
        wake == IF lm.idle[x] THEN {} ELSE {l \in ls : x \in OnActivity[l]}
    IN  CheckTimeoutTimer(ActivateLinks(lm, wake), ls)

OnReceivedTgUpdated(lm, x, tg) == ActivateLinks(lm, {l \in Links : <<x, tg>> \in OnTg[l]})

\* Mutant: the time-outs of the links are not looked at.
SetLogicMuteNoTimer(lm, x, mute) ==
    IF mute = (x \in lm.muted) THEN lm
    ELSE UpdateConnections([lm EXCEPT !.muted = IF mute THEN @ \cup {x} ELSE @ \ {x}])

SetLogicMute(lm, x, mute) ==
    IF mute = (x \in lm.muted) THEN lm
    ELSE CheckTimeoutTimer(
            UpdateConnections([lm EXCEPT !.muted = IF mute THEN @ \cup {x} ELSE @ \ {x}]),
            LinkNames(lm, x))

CmdReceived(lm, l, connect) ==
    IF connect THEN ActivateLinks(lm, {l}) ELSE DeactivateLink(lm, l)

LinkTimeout(lm, l) ==
    IF l \in DefaultActive THEN ActivateLinks(lm, {l}) ELSE DeactivateLink(lm, l)

\* Start of the program, with the logics that could be started.
AllLogicsStarted(present, idle) ==
    ActivateLinks([idle  |-> idle, active |-> {}, muted |-> {}, cons |-> {}, timer |-> {},
                   props |-> [l \in Links |-> ConnectLogics[l] \cap present]],
                  DefaultActive)

----------------------------------------------------------------------------
(* What the links promise *)

\* Two logics hear each other if every set of logics that holds the one and is closed
\* under the links in use holds the other.
Linked(lm, x, y) ==
    \A S \in SUBSET Logics :
        x \in S /\ (\A l \in lm.active :
                        LET joined == lm.props[l] \ lm.muted
                        IN  joined \cap S = {} \/ joined \subseteq S)
        => y \in S

\* Audio is passed between exactly the logics that a chain of active links joins, without
\* those that are muted, after any sequence of commands, time-outs, mutes and automatic
\* activations (LinkManager::wantedConnections, updateConnections).
ConnectedIffLinkedIn(lm) ==
    lm.cons = {c \in Logics \X Logics : c[1] # c[2] /\ Linked(lm, c[1], c[2])}

\* The time-out of a link runs if and only if it has one, the link is not as it is by
\* default and its logics are idle or muted (LinkManager::checkTimeoutTimer, and all that
\* have to call it).
TimeoutRunsWhenDueIn(lm) ==
    lm.timer = {l \in TimeoutLinks : AllLogicsIdle(lm, l) /\ ~AtDefault(lm, l)}
=============================================================================
