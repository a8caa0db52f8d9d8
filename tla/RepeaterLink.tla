---------------------------- MODULE RepeaterLink ----------------------------
(***************************************************************************)
(* A repeater (svxlink/svxlink/RepeaterLogic.cpp, over Logic.cpp) that is  *)
(* linked with other logic cores by LinkManager.tla.  The repeater opens   *)
(* and closes by its squelch, by calls, by timers, by messages and by the  *)
(* audio that the links bring; each of its handlers may change its idle    *)
(* state or activate a talk group, which calls the link manager before the *)
(* handler goes on.                                                        *)
(*                                                                         *)
(* Of the other logics only what the links see is modelled: a receiver     *)
(* that is active or not, the audio they get, and the idle state that      *)
(* follows from both.  Which sounds an event script plays is not known to  *)
(* the program: it is a choice.                                            *)
(***************************************************************************)
EXTENDS LinkManager

CONSTANTS
    Repeater,               \* the repeater among Logics
    Starts,                 \* the sets of logics that can be started
    TG_RESET,               \* no talk group is delayed
    OPEN_ON_SQL,            \* does the open squelch open the repeater?
    OPEN_ON_CTCSS,          \* does CTCSS?
    OPEN_ON_CALL,           \* do tone bursts, DTMF digits and selective calls?
    REOPEN,                 \* OPEN_ON_SQL_AFTER_RPT_CLOSE is set
    OPEN_SQL_FLANK,         \* "OPEN" or "CLOSE"
    NO_REPEAT,              \* the repeater's own audio is not sent
    SQL_FLAP_SUP_MAX_COUNT  \* short squelch openings that close it, 0 for never

ASSUME RepeaterAssumption ==
    /\ Repeater \in Logics /\ Starts \subseteq {S \in SUBSET Logics : Repeater \in S}
    /\ TG_RESET \notin TGs
    /\ {OPEN_ON_SQL, OPEN_ON_CTCSS, OPEN_ON_CALL, REOPEN, NO_REPEAT} \subseteq BOOLEAN
    /\ OPEN_SQL_FLANK \in {"OPEN", "CLOSE"} /\ SQL_FLAP_SUP_MAX_COUNT \in Nat

VARIABLES
    lm,     \* the link manager
    r,      \* the members of RepeaterLogic
    rx,     \* logics with an active receiver: a squelch that is open, a talker
    tx      \* logics whose stream to the transmitter is not idle (Logic::state_det)

vars == <<lm, r, rx, tx>>

\* What an event script plays leaves the logic idle ("quiet": the sounds of an idle
\* repeater and the roger beep) or not ("heard": all others).
Msgs == {"none", "quiet", "heard"}
Announcements == {"none", "heard"}

Repeaters ==
    [up       : BOOLEAN,                \* repeater_is_up
     upTimer  : BOOLEAN,                \* up_timer
     armed    : BOOLEAN,                \* activate_on_sql_close
     openers  : SUBSET {"SQL", "CTCSS"},\* open_on_sql_timer, open_on_ctcss_timer
     recent   : BOOLEAN,                \* rpt_close_timestamp is recent
     short    : 0..SQL_FLAP_SUP_MAX_COUNT,
     delayed  : TGs \cup {TG_RESET},    \* delayed_tg_activation
     msg      : Msgs,                   \* what MsgHandler is writing
     txOn     : BOOLEAN]                \* the transmitter control is TX_ON, not TX_AUTO

\* Operators below take and return the whole state s.
State == [lm |-> lm, r |-> r, rx |-> rx, tx |-> tx]

Step(s) == lm' = s.lm /\ r' = s.r /\ rx' = s.rx /\ tx' = s.tx

Init ==
    \E present \in Starts, m \in Announcements :
        /\ rx = {} /\ tx = {}
        /\ r = [up |-> FALSE, upTimer |-> FALSE, armed |-> FALSE, openers |-> {},
                recent |-> FALSE, short |-> 0, delayed |-> TG_RESET, msg |-> m,
                txOn |-> FALSE]
        /\ lm = AllLogicsStarted(present,
                    [x \in Logics |-> x = Repeater => m # "heard"])

----------------------------------------------------------------------------
(* The idle state *)

GetIdleState(s, x) ==
    x \notin s.rx \cup s.tx /\ (x = Repeater => s.r.msg # "heard")

\* RepeaterLogic::setIdle is called with each change.
CheckIdle(s, x) ==
    LET b == GetIdleState(s, x)
    IN  IF b = s.lm.idle[x] THEN s
        ELSE [s EXCEPT !.lm = LogicIdleStateChanged([@ EXCEPT !.idle[x] = b], x),
                       !.r.upTimer = IF x = Repeater /\ s.r.up THEN b ELSE @]

\* An event script plays the message m.
Play(s, m) ==
    IF m = "none" THEN s
    ELSE CheckIdle([s EXCEPT !.r.msg = IF @ = "heard" THEN @ ELSE m], Repeater)

----------------------------------------------------------------------------
(* setUp *)

Opened(s, m) ==
    LET up   == [s EXCEPT !.r.up = TRUE, !.r.short = 0]
        on   == [Play(up, m) EXCEPT !.r.txOn = TRUE, !.r.upTimer = FALSE]
        idle == CheckIdle(on, Repeater)
        open == [idle EXCEPT !.r.upTimer = idle.lm.idle[Repeater]]
    IN  IF s.r.delayed = TG_RESET THEN open
        ELSE [open EXCEPT !.lm = OnReceivedTgUpdated(@, Repeater, s.r.delayed),
                          !.r.delayed = TG_RESET]

\* Mutant: the transmitter is left to the message that is being written, if any.
ClosedByMessage(s, m, flapping) ==
    LET down == [s EXCEPT !.r.recent = ~flapping, !.r.up = FALSE, !.r.upTimer = FALSE]
    IN  Play(down, m)

Closed(s, m, flapping) ==
    LET down == [s EXCEPT !.r.recent = ~flapping, !.r.up = FALSE, !.r.upTimer = FALSE]
        said == Play(down, m)
    IN  [said EXCEPT !.r.txOn = @ /\ said.r.msg # "none"]

SetUp(s, up, m) ==
    IF up = s.r.up THEN s ELSE IF up THEN Opened(s, m) ELSE Closed(s, m, FALSE)

\* squelchOpen(true) while the repeater is up: setIdle(false), Logic::squelchOpen.
HeardWhileUp(s) == CheckIdle([s EXCEPT !.r.upTimer = FALSE], Repeater)

ActivateOnOpenOrClose(s, flank, m) ==
    IF flank = "OPEN"
    THEN LET up == SetUp(s, TRUE, m)
         IN  IF Repeater \in s.rx THEN HeardWhileUp(up) ELSE up
    ELSE IF Repeater \in s.rx THEN [s EXCEPT !.r.armed = TRUE] ELSE SetUp(s, TRUE, m)

----------------------------------------------------------------------------
(* Squelch and calls *)

SquelchOpens ==
    /\ Repeater \notin rx
    /\ LET s == [State EXCEPT !.rx = @ \cup {Repeater}]
           t == [s EXCEPT !.r.openers = IF OPEN_ON_SQL THEN @ \cup {"SQL"} ELSE @]
       IN  \/ r.up /\ Step(HeardWhileUp(s))
           \/ ~r.up /\ REOPEN /\ r.recent
              /\ \E m \in Announcements : Step(ActivateOnOpenOrClose(t, "OPEN", m))
           \/ ~r.up /\ ~(REOPEN /\ r.recent) /\ Step(t)

\* The squelch closes while the repeater is up; brief, if the opening was shorter than
\* SQL_FLAP_SUP_MIN_TIME.
SquelchClosesUp(brief, m) ==
    LET s == [State EXCEPT !.rx = @ \ {Repeater}]
        n == IF brief THEN r.short + 1 ELSE 0
    IN  IF SQL_FLAP_SUP_MAX_COUNT = 0 THEN CheckIdle(s, Repeater)
        ELSE IF n < SQL_FLAP_SUP_MAX_COUNT
             THEN CheckIdle([s EXCEPT !.r.short = n], Repeater)
             ELSE CheckIdle(Closed([s EXCEPT !.r.short = 0], m, TRUE), Repeater)

\* While it is down, the squelch opens it if it was called before.
SquelchClosesDown(m) ==
    LET s == [State EXCEPT !.rx = @ \ {Repeater}, !.r.openers = {}]
        t == CheckIdle(Opened([s EXCEPT !.r.armed = FALSE], m), Repeater)
    IN  [(IF r.armed THEN t ELSE s) EXCEPT !.r.delayed = TG_RESET]

SquelchCloses ==
    /\ Repeater \in rx
    /\ \E m \in Announcements :
        \/ r.up /\ \E brief \in BOOLEAN : Step(SquelchClosesUp(brief, m))
        \/ ~r.up /\ Step(SquelchClosesDown(m))

\* open_on_sql_timer and open_on_ctcss_timer.
OpenTimerExpired(t) ==
    /\ t \in r.openers
    /\ \E m \in Announcements :
        Step(ActivateOnOpenOrClose([State EXCEPT !.r.openers = @ \ {t}], OPEN_SQL_FLANK, m))

\* A tone below 300 Hz.
CtcssDetected ==
    /\ OPEN_ON_CTCSS /\ ~r.up /\ ~r.armed
    /\ Step([State EXCEPT !.r.openers = @ \cup {"CTCSS"}])

\* A tone burst, the digit of OPEN_ON_DTMF, the sequence of OPEN_ON_SEL5.
Called ==
    /\ OPEN_ON_CALL /\ ~r.up
    /\ \E m \in Announcements : Step(ActivateOnOpenOrClose(State, "CLOSE", m))

\* The sequence of CLOSE_ON_SEL5.
ClosedBySel5 == r.up /\ \E m \in Announcements : Step(SetUp(State, FALSE, m))

----------------------------------------------------------------------------
(* Other causes to open and to close *)

UpTimerExpired == r.up /\ r.upTimer /\ \E m \in Announcements : Step(SetUp(State, FALSE, m))

DtmfCtrlPtyCmdReceived == ~r.up /\ \E m \in Announcements : Step(SetUp(State, TRUE, m))

\* The module is one that mutes the links of its logic (MUTE_LOGIC_LINKING).
ActivateModule ==
    /\ Repeater \notin lm.muted
    /\ \E m \in Announcements :
        LET up == SetUp(State, TRUE, m)
        IN  Step([up EXCEPT !.lm = SetLogicMute(@, Repeater, TRUE)])

DeactivateModule ==
    /\ Repeater \in lm.muted
    /\ Step([State EXCEPT !.lm = SetLogicMute(@, Repeater, FALSE)])

\* setOnline(false) deactivates the module first.
SetOffline ==
    (r.up \/ Repeater \in lm.muted) /\ \E m \in Announcements :
        Step(SetUp([State EXCEPT !.lm = SetLogicMute(@, Repeater, FALSE)], FALSE, m))

\* CTCSS_TO_TG maps a tone to a talk group, some time after it was heard.
SetReceivedTg(tg) ==
    Step(IF r.up THEN [State EXCEPT !.lm = OnReceivedTgUpdated(@, Repeater, tg)]
         ELSE [State EXCEPT !.r.delayed = tg])

\* OPEN_ON_SQL_AFTER_RPT_CLOSE seconds have passed.
CloseIsOld == r.recent /\ Step([State EXCEPT !.r.recent = FALSE])

\* Any other event script: identification, the sounds of an idle repeater, ...
PlayMessage == \E m \in {"quiet", "heard"} : r.msg # m /\ r.msg # "heard" /\ Step(Play(State, m))

AllMsgsWritten ==
    /\ r.msg # "none"
    /\ LET s == CheckIdle([State EXCEPT !.r.msg = "none"], Repeater)
       IN  Step([s EXCEPT !.r.txOn = @ /\ s.r.up])

----------------------------------------------------------------------------
(* Audio, the other logics and the users of the links *)

\* The logics whose receiver gives audio to the links and, for the repeater, to itself:
\* its receiver is passed on only while it is up (rx_valve).
Sources == {x \in rx : x = Repeater => r.up}

\* Does x get audio to transmit?
Fed(x) ==
    \/ \E y \in Sources : <<y, x>> \in lm.cons
    \/ x = Repeater /\ x \in Sources /\ ~NO_REPEAT

\* audioStreamStateChange: audio of a link opens the repeater.
AudioBegins(x) ==
    /\ x \notin tx /\ Fed(x)
    /\ LET s == [State EXCEPT !.tx = @ \cup {x}]
       IN  \/ x = Repeater /\ ~r.up
              /\ \E m \in Announcements : Step(CheckIdle(SetUp(s, TRUE, m), x))
           \/ (x # Repeater \/ r.up) /\ Step(CheckIdle(s, x))

AudioEnds(x) ==
    /\ x \in tx /\ ~Fed(x)
    /\ Step(CheckIdle([State EXCEPT !.tx = @ \ {x}], x))

ReceiverChanges(x) ==
    /\ x # Repeater
    /\ Step(CheckIdle([State EXCEPT !.rx = IF x \in rx THEN @ \ {x} ELSE @ \cup {x}], x))

TgReceived(x, tg) ==
    /\ x # Repeater
    /\ Step([State EXCEPT !.lm = OnReceivedTgUpdated(@, x, tg)])

\* A DTMF command on one of the logics of the link, one that changes it; the repeater
\* takes commands while it is up.
LinkCommand(l, x) ==
    /\ x \in lm.props[l] /\ (x = Repeater => r.up)
    /\ Step([State EXCEPT !.lm = CmdReceived(@, l, l \notin lm.active)])

LinkTimedOut(l) == l \in lm.timer /\ Step([State EXCEPT !.lm = LinkTimeout(@, l)])

Timers ==
    \/ UpTimerExpired \/ AllMsgsWritten
    \/ \E t \in {"SQL", "CTCSS"} : OpenTimerExpired(t)
    \/ \E l \in Links : LinkTimedOut(l)
    \/ \E x \in Logics : AudioBegins(x) \/ AudioEnds(x)

Next ==
    \/ Timers
    \/ SquelchOpens \/ SquelchCloses \/ CtcssDetected \/ Called \/ ClosedBySel5
    \/ DtmfCtrlPtyCmdReceived \/ ActivateModule \/ DeactivateModule \/ SetOffline
    \/ CloseIsOld \/ PlayMessage
    \/ \E tg \in TGs : SetReceivedTg(tg) \/ \E x \in Logics : TgReceived(x, tg)
    \/ \E x \in Logics : ReceiverChanges(x)
    \/ \E l \in Links, x \in Logics : LinkCommand(l, x)

Spec == Init /\ [][Next]_vars

\* The event loop serves its timers, and a stream that gets no audio is flushed. This is
\* weak fairness, with the guards of the actions in place of ENABLED.
FairSpec ==
    /\ Spec
    /\ []<>~(r.up /\ r.upTimer) \/ []<><<UpTimerExpired>>_vars
    /\ \A l \in Links : []<>(l \notin lm.timer) \/ []<><<LinkTimedOut(l)>>_vars
    /\ []<>(\A x \in tx : Fed(x)) \/ []<><<\E x \in Logics : AudioEnds(x)>>_vars

----------------------------------------------------------------------------
(* Properties *)

\* Every variable has its type.
TypeOK ==
    /\ lm \in LinkStates /\ r \in Repeaters
    /\ rx \subseteq Logics /\ tx \subseteq Logics

\* Audio is passed between exactly the logics that chains of active links join
\* (LinkManager::wantedConnections, updateConnections), whatever the repeater does.
ConnectedIffLinked == ConnectedIffLinkedIn(lm)

\* The time-out of a link runs exactly when the link is not as it is by default and its
\* logics say they are idle, although a logic may tell the link manager in the middle of
\* its own handler (LinkManager::checkTimeoutTimer).
TimeoutRunsWhenDue == TimeoutRunsWhenDueIn(lm)

\* A repeater that is up knows whether it is idle, and its closing timer runs if and only
\* if it is; one that is down and says nothing has given its transmitter back
\* (RepeaterLogic::setIdle, setUp, allMsgsWritten).
RepeaterSupervised ==
    /\ r.up => /\ lm.idle[Repeater] = GetIdleState(State, Repeater)
               /\ r.upTimer = lm.idle[Repeater]
    /\ ~r.up => ~r.upTimer /\ (r.txOn => r.msg # "none")

\* A link does not stay away from its default while its logics say they are idle, and the
\* repeater does not stay up while nobody is heard and it says nothing
\* (LinkManager::linkTimeout, RepeaterLogic::idleTimeout).
IdleThingsRest ==
    /\ \A l \in TimeoutLinks : []<>(~AllLogicsIdle(lm, l) \/ AtDefault(lm, l))
    /\ []<>(~r.up \/ rx # {} \/ r.msg # "none")
=============================================================================
