------------------------------- MODULE Voter -------------------------------
(***************************************************************************)
(* The voter (svxlink/trx/Voter.cpp): a receiver that combines several     *)
(* receivers and takes the audio of the one that is best heard.            *)
(*                                                                         *)
(* The state machine Top is kept as its leaf state "state"; entering and   *)
(* leaving the states in between is part of the operators Enter and Exit.  *)
(* Squelch events that occur while an event is processed are queued, and   *)
(* what must happen outside of the machine is a task that the event loop   *)
(* runs later.  A failed assertion ends the program.                       *)
(*                                                                         *)
(* The receivers are LocalRx objects, those in NetRxs are NetRx objects.   *)
(* Of the audio, only whether a receiver has audio that is not flushed is  *)
(* kept; the sinks take audio as it comes, and flush in their own time.    *)
(***************************************************************************)
EXTENDS Integers, Sequences, Functions

CONSTANTS
    RXS,            \* the receivers, in the order of RECEIVERS
    NetRxs,         \* those on another computer
    None,           \* no receiver, no failure
    LEVELS,         \* the signal levels that are reported
    HYSTERESIS,     \* in percent, with the 100 added
    REVOTE,         \* REVOTE_INTERVAL is not zero
    BUFFERED,       \* BUFFER_LENGTH is not zero
    VOTING_DELAY,
    SQL_OPEN_DELAY, \* per receiver, in RECEIVERS
    COMMANDS,       \* the mute states that commands on COMMAND_PTY ask for
    REDUNDANT,      \* does the operator enable receivers that are enabled?
    MAX_TASKS       \* tasks that wait before the event loop runs them

Rxs == Range(RXS)

MuteStates == {"NONE", "CONTENT", "ALL"}

Assertions ==
    {"is_open", "timeout", "bestSrx()", "bestSrx() != 0", "bestSrx()->squelchIsOpen()",
     "switch_to_srx != activeSrx()"}

ASSUME VoterAssumption ==
    /\ RXS \in Seq(Rxs) /\ None \notin Rxs \cup Assertions /\ NetRxs \subseteq Rxs
    /\ LEVELS \subseteq 0..100 /\ HYSTERESIS \in 100..200
    /\ {REVOTE, BUFFERED, REDUNDANT} \subseteq BOOLEAN
    /\ VOTING_DELAY \in 0..5000 /\ SQL_OPEN_DELAY \in [Rxs -> Nat]
    /\ COMMANDS \subseteq MuteStates /\ MAX_TASKS \in Nat

VARIABLES
    m,      \* the state machine with its boxes
    rx,     \* the receivers (SatRx)
    tasks,  \* deferred by runTask
    sql,    \* the squelch that the voter reports
    failed  \* the assertion that failed, None while the program runs

vars == <<m, rx, tasks, sql, failed>>

SquelchOpenStates == {"Receiving", "SwitchActiveRx"}
SelectedStates == SquelchOpenStates \cup {"SqlCloseWait"}       \* ActiveRxSelected
States == SelectedStates \cup {"Muted", "Idle", "VotingDelay"}

Machines ==
    [state    : States,
     best     : Rxs \cup {None},        \* best_srx
     active   : Rxs \cup {None},        \* active_srx
     switchTo : Rxs \cup {None},        \* switch_to_srx
     mute     : MuteStates,             \* mute_state
     timer    : BOOLEAN]                \* event_timer is running

Receivers ==
    [mute    : MuteStates,      \* of the receiver itself
     want    : MuteStates,      \* mute_state, kept while the receiver is disabled
     enabled : BOOLEAN,
     sig     : BOOLEAN,         \* it hears a signal
     lev     : LEVELS \cup {0}, \* signalStrength
     unflushed : BOOLEAN,       \* audio in the FIFO or, past an open valve, on its way out
     open    : BOOLEAN,         \* sql_open
     valve   : BOOLEAN,         \* the valve is open
     late    : BOOLEAN]         \* the sinks still flush what a closed valve cut off

Reports == [sql : BOOLEAN]
Tasks == Reports \cup [stopped : Rxs, by : BOOLEAN]

Events == [rx : Rxs, open : BOOLEAN]

\* Operators below take and return the whole state s, with the queue of events.
State == [m |-> m, rx |-> rx, tasks |-> tasks, sql |-> sql, failed |-> failed,
          queue |-> <<>>]

Step(s) == /\ m' = s.m /\ rx' = s.rx /\ tasks' = s.tasks /\ sql' = s.sql
           /\ failed' = s.failed

Init ==
    /\ m = [state |-> "Muted", best |-> None, active |-> None, switchTo |-> None,
            mute |-> "ALL", timer |-> FALSE]
    /\ rx = [x \in Rxs |-> [mute |-> "ALL", want |-> "ALL", enabled |-> TRUE,
                sig |-> FALSE, lev |-> 0, unflushed |-> FALSE, open |-> FALSE,
                valve |-> FALSE, late |-> FALSE]]
    /\ tasks = <<>> /\ sql = FALSE /\ failed = None

RunTask(s, task) == [s EXCEPT !.tasks = Append(@, task)]

Fails(s, assertion) == [s EXCEPT !.failed = assertion]

\* Is the receiver x better than y by the hysteresis?
Beats(s, x, y) == s.rx[x].lev * 100 > s.rx[y].lev * HYSTERESIS

\* Is it so strong that no other receiver can beat it?
Unbeatable(s, x) == s.rx[x].lev * HYSTERESIS > 100 * 100

----------------------------------------------------------------------------
(* SatRx *)

\* Voter::satSquelchOpen
SatSquelchOpen(s, x, isOpen) ==
    IF s.rx[x].enabled THEN [s EXCEPT !.queue = Append(@, [rx |-> x, open |-> isOpen])]
    ELSE s

SetSquelchOpen(s, x, isOpen) ==
    IF s.rx[x].open = isOpen THEN s
    ELSE SatSquelchOpen([s EXCEPT !.rx[x].open = isOpen], x, isOpen)

InFifo(s, x) == s.rx[x].unflushed /\ ~s.rx[x].valve

\* The stream of x is flushed: its squelch follows the receiver.
Flushed(s, x) ==
    LET t == [s EXCEPT !.rx[x].unflushed = FALSE]
    IN  IF s.rx[x].sig THEN t ELSE SetSquelchOpen(t, x, FALSE)

\* The squelch of a receiver that is muted completely is closed: that of a LocalRx at
\* once, which SatRx ignores while its FIFO has audio, that of a NetRx when its audio is
\* flushed.
MuteSquelch(s, x) ==
    LET t == [s EXCEPT !.rx[x] = [@ EXCEPT !.sig = FALSE, !.lev = 0]]
        waits == IF x \in NetRxs THEN s.rx[x].unflushed ELSE InFifo(s, x)
    IN  IF ~waits /\ (s.rx[x].sig \/ s.rx[x].unflushed)
        THEN SetSquelchOpen(t, x, FALSE) ELSE t

\* Rx::setMuteState
RxMute(s, x, mute) ==
    LET t == IF mute = "ALL" /\ s.rx[x].mute # "ALL" THEN MuteSquelch(s, x) ELSE s
    IN  [t EXCEPT !.rx[x].mute = mute]

\* The FIFO is cleared. A LocalRx that is muted completely has closed its squelch before,
\* so that no signal follows.
ClearFifo(s, x) ==
    IF ~InFifo(s, x) THEN s
    ELSE IF x \notin NetRxs /\ s.rx[x].mute = "ALL"
         THEN [s EXCEPT !.rx[x].unflushed = FALSE]
         ELSE Flushed(s, x)

SetMuteStateP(s, x, mute) ==
    LET t == RxMute(s, x, mute) IN IF mute = "NONE" THEN t ELSE ClearFifo(t, x)

SatSetMuteState(s, x, mute) ==
    LET t == [s EXCEPT !.rx[x].want = mute]
    IN  IF s.rx[x].enabled THEN SetMuteStateP(t, x, mute) ELSE t

\* The audio of x comes to an end.
StreamEnds(s, x) == ~s.rx[x].sig \/ s.rx[x].mute # "NONE"

\* A valve that closes answers a NetRx whose stream ended at once.  The sinks answer SatRx
\* in their own time, unless audio is written before they do; a LocalRx has nobody else
\* to close its squelch then.
StopOutput(s, x, stop) ==
    IF ~stop
    THEN [s EXCEPT !.rx[x] = [@ EXCEPT !.valve = TRUE,
                                       !.late = s.rx[x].late /\ ~s.rx[x].unflushed]]
    ELSE LET t == [s EXCEPT !.rx[x].valve = FALSE]
         IN  IF ~s.rx[x].valve \/ ~s.rx[x].unflushed THEN t
             ELSE IF x \in NetRxs
             THEN IF StreamEnds(s, x) THEN Flushed(t, x)
                  ELSE [t EXCEPT !.rx[x].unflushed = FALSE]
             ELSE [t EXCEPT !.rx[x] = [@ EXCEPT !.unflushed = FALSE, !.late = TRUE]]

\* Audio is kept in the FIFO, or passed on by an open valve.
Kept(s, x) ==
    [s EXCEPT !.rx[x] = [@ EXCEPT !.unflushed = TRUE,
                                  !.late = s.rx[x].late /\ ~s.rx[x].valve]]

\* The answer: the squelch follows the receiver, whatever its FIFO holds by now.
Answered(s, x) ==
    LET t == [s EXCEPT !.rx[x].late = FALSE]
    IN  IF s.rx[x].sig THEN t ELSE SetSquelchOpen(t, x, FALSE)

MuteAllBut(s, y, mute) ==
    LET after[i \in 0 .. Len(RXS)] ==
            IF i = 0 THEN s
            ELSE SatSetMuteState(after[i - 1], RXS[i], IF RXS[i] = y THEN "NONE" ELSE mute)
    IN  after[Len(RXS)]

MuteAll(s, mute) == MuteAllBut(s, None, mute)

UnmuteAll(s) == MuteAll(s, "NONE")

SatReset(s, x) == [RxMute(s, x, "ALL") EXCEPT !.rx[x].want = "ALL"]

ResetAll(s) ==
    LET after[i \in 0 .. Len(RXS)] == IF i = 0 THEN s ELSE SatReset(after[i - 1], RXS[i])
    IN  after[Len(RXS)]

Better(s, best, x) == IF best = None \/ s.rx[x].lev > s.rx[best].lev THEN x ELSE best

\* Mutant: disabled receivers are voted.
FindBestOpen(s) ==
    LET best[i \in 0 .. Len(RXS)] ==
            IF i = 0 THEN None
            ELSE IF s.rx[RXS[i]].open THEN Better(s, best[i - 1], RXS[i]) ELSE best[i - 1]
    IN  best[Len(RXS)]

FindBestRx(s) ==
    LET best[i \in 0 .. Len(RXS)] ==
            IF i = 0 THEN None
            ELSE IF s.rx[RXS[i]].enabled /\ s.rx[RXS[i]].open
                 THEN Better(s, best[i - 1], RXS[i]) ELSE best[i - 1]
    IN  best[Len(RXS)]

----------------------------------------------------------------------------
(* The state machine: leaving and entering states *)

StopTimer(s) == [s EXCEPT !.m.timer = FALSE]
StartTimer(s) == [s EXCEPT !.m.timer = TRUE]

ExitSwitchActiveRx(s) ==
    IF s.m.switchTo = None THEN s
    ELSE [SatSetMuteState(s, s.m.switchTo, "CONTENT") EXCEPT !.m.switchTo = None]

\* Mutant: the squelch closes when the active receiver is given up, not before.
ExitSquelchLate(s, to) ==
    LET leaf == StopTimer(IF s.m.state = "SwitchActiveRx" THEN ExitSwitchActiveRx(s)
                          ELSE s)
    IN  IF s.m.state \in SelectedStates /\ to \notin SelectedStates
        THEN [RunTask(RunTask(leaf, [sql |-> FALSE]), [stopped |-> s.m.active, by |-> TRUE])
                 EXCEPT !.m.active = None]
        ELSE leaf

\* The states that are left on the way to the leaf state "to", inside out.
Exit(s, to) ==
    LET leaf == IF s.m.state = "SwitchActiveRx" THEN ExitSwitchActiveRx(s) ELSE s
        timer == StopTimer(leaf)
        closed == IF s.m.state \in SquelchOpenStates /\ to \notin SquelchOpenStates
                  THEN RunTask(timer, [sql |-> FALSE]) ELSE timer
    IN  IF s.m.state \in SelectedStates /\ to \notin SelectedStates
        THEN [RunTask(closed, [stopped |-> s.m.active, by |-> TRUE])
                 EXCEPT !.m.active = None]
        ELSE closed

\* Mutant: the receivers keep their squelches.
EnterMutedContent(s) == MuteAll([Exit(s, "Muted") EXCEPT !.m.state = "Muted"], "CONTENT")

EnterMuted(s) == MuteAll([Exit(s, "Muted") EXCEPT !.m.state = "Muted"], "ALL")

EnterIdle(s) ==
    LET t == [Exit(s, "Idle") EXCEPT !.m.state = "Idle"]
    IN  IF t.m.mute = "NONE" THEN UnmuteAll(t) ELSE t

\* The difference of the two delays is unsigned; a negative time-out is asserted against.
EnterVotingDelay(s, x) ==
    LET t == [Exit(s, "VotingDelay") EXCEPT !.m.state = "VotingDelay"]
    IN  IF SQL_OPEN_DELAY[x] > VOTING_DELAY THEN Fails(t, "timeout") ELSE StartTimer(t)

EnterReceiving(s) ==
    [Exit(s, "Receiving") EXCEPT !.m.state = "Receiving", !.m.timer = REVOTE]

EnterSquelchOpen(s) ==
    EnterReceiving(RunTask(RunTask(s, [sql |-> TRUE]),
                           [stopped |-> s.m.active, by |-> FALSE]))

\* Mutant: all receivers are muted before the one that was voted is unmuted.
EnterActiveRxMuted(s, x) ==
    LET t == MuteAll([s EXCEPT !.m.active = x], "CONTENT")
    IN  EnterSquelchOpen(IF t.m.mute = "CONTENT" THEN t ELSE SatSetMuteState(t, x, "NONE"))

EnterActiveRxSelected(s, x) ==
    LET t == [s EXCEPT !.m.active = x]
    IN  EnterSquelchOpen(IF t.m.mute = "CONTENT" THEN MuteAll(t, "CONTENT")
                         ELSE MuteAllBut(t, x, "CONTENT"))

\* Mutant: the delay before a new vote is not started.
EnterSqlCloseForever(s) == [Exit(s, "SqlCloseWait") EXCEPT !.m.state = "SqlCloseWait"]

EnterSqlCloseWait(s) ==
    StartTimer([Exit(s, "SqlCloseWait") EXCEPT !.m.state = "SqlCloseWait"])

EnterSwitchActiveRx(s, x) ==
    LET t == StartTimer([Exit(s, "SwitchActiveRx") EXCEPT !.m.state = "SwitchActiveRx",
                                                          !.m.switchTo = x])
    IN  IF t.m.mute = "NONE" THEN SatSetMuteState(t, x, "NONE") ELSE t

----------------------------------------------------------------------------
(* The handlers of events *)

\* Mutant: the last receiver stays the best one when its squelch closes.
TopKeepsLast(s, x, isOpen) ==
    LET best == s.m.best
    IN  IF best = None
        THEN IF isOpen THEN [s EXCEPT !.m.best = x] ELSE Fails(s, "is_open")
        ELSE IF x = best
        THEN IF isOpen \/ FindBestRx(s) = None THEN s
             ELSE [s EXCEPT !.m.best = FindBestRx(s)]
        ELSE IF isOpen /\ s.rx[x].lev > s.rx[best].lev THEN [s EXCEPT !.m.best = x]
        ELSE s

TopSatSquelchOpen(s, x, isOpen) ==
    LET best == s.m.best
    IN  IF best = None
        THEN IF isOpen THEN [s EXCEPT !.m.best = x] ELSE Fails(s, "is_open")
        ELSE IF x = best
        THEN IF isOpen THEN s ELSE [s EXCEPT !.m.best = FindBestRx(s)]
        ELSE IF isOpen /\ s.rx[x].lev > s.rx[best].lev THEN [s EXCEPT !.m.best = x]
        ELSE s

HandleSquelch(s, x, isOpen) ==
    LET t == TopSatSquelchOpen(s, x, isOpen)
        state == s.m.state
    IN  IF t.failed # None THEN t
        ELSE IF state \in {"Idle", "VotingDelay"} /\ isOpen /\ Unbeatable(t, x)
        THEN EnterActiveRxSelected(t, t.m.best)
        ELSE IF state = "Idle" /\ isOpen THEN EnterVotingDelay(t, x)
        ELSE IF state = "VotingDelay" /\ ~isOpen /\ t.m.best = None THEN EnterIdle(t)
        ELSE IF state \in SquelchOpenStates /\ ~isOpen /\ x = t.m.active
        THEN EnterSqlCloseWait(t)
        ELSE IF state = "SqlCloseWait" /\ isOpen /\ x = t.m.active
        THEN EnterSquelchOpen(t)
        ELSE t

DispatchFirst(s) ==
    IF s.queue = <<>> \/ s.failed # None THEN s
    ELSE HandleSquelch([s EXCEPT !.queue = Tail(@)], Head(s.queue).rx, Head(s.queue).open)

\* dispatchEvent goes on until the queue is empty: each event that is queued meanwhile is a
\* squelch that closes, at most one for each receiver.
DispatchEvents(s) ==
    LET after[i \in 0 .. Len(s.queue) + Len(RXS)] ==
            IF i = 0 THEN s ELSE DispatchFirst(after[i - 1])
    IN  after[Len(s.queue) + Len(RXS)]

RunFirst(s) ==
    LET task == Head(s.tasks)
        t == [s EXCEPT !.tasks = Tail(@)]
    IN  IF s.tasks = <<>> \/ s.failed # None THEN s
        ELSE IF task \in Reports THEN [t EXCEPT !.sql = task.sql]
        ELSE DispatchEvents(StopOutput(t, task.stopped, task.by))

\* The tasks that run may defer others, which run as well: one at most for each squelch
\* that closes.
RunAll(s) ==
    LET after[i \in 0 .. Len(s.tasks) + Len(RXS)] ==
            IF i = 0 THEN s ELSE RunFirst(after[i - 1])
    IN  after[Len(s.tasks) + Len(RXS)]

HandleSignalLevel(s, x) ==
    IF s.m.best = None THEN Fails(s, "bestSrx() != 0")
    ELSE IF ~s.rx[s.m.best].open \/ s.rx[x].lev > s.rx[s.m.best].lev
    THEN [s EXCEPT !.m.best = x]
    ELSE s

\* ActiveRxSelected::changeActiveSrx
ChangeActiveSrx(s, x) ==
    LET t == [SatSetMuteState(s, s.m.active, "CONTENT") EXCEPT !.m.active = x]
    IN  IF t.m.mute = "NONE" THEN SatSetMuteState(t, x, "NONE") ELSE t

\* SquelchOpen::changeActiveSrx
ChangeActiveSrxOpen(s, x) ==
    LET t == ChangeActiveSrx(RunTask(s, [stopped |-> s.m.active, by |-> TRUE]), x)
    IN  RunTask(t, [stopped |-> x, by |-> FALSE])

TopSetMuteState(s, mute) ==
    LET t == [s EXCEPT !.m.mute = mute]
    IN  IF mute = s.m.mute THEN s
        ELSE IF mute = "NONE" THEN UnmuteAll(t)
        ELSE IF mute = "CONTENT" THEN MuteAll(t, "CONTENT")
        ELSE EnterMuted(t)

DoUnmute(s) ==
    IF s.m.best = None THEN EnterIdle(s)
    ELSE IF ~s.rx[s.m.best].open THEN Fails(s, "bestSrx()->squelchIsOpen()")
    ELSE EnterActiveRxSelected(s, s.m.best)

UnmuteSelected(s) ==
    LET t == [SatSetMuteState(s, s.m.active, "NONE") EXCEPT !.m.mute = "NONE"]
    IN  IF s.m.state = "SwitchActiveRx" THEN SatSetMuteState(t, s.m.switchTo, "NONE")
        ELSE t

HandleSetMuteState(s, mute) ==
    IF s.m.state = "Muted"
    THEN LET t == [s EXCEPT !.m.mute = mute] IN IF mute = "ALL" THEN t ELSE DoUnmute(t)
    ELSE IF s.m.state \in SelectedStates /\ mute = "NONE" THEN UnmuteSelected(s)
    ELSE TopSetMuteState(s, mute)

VotingDelayExpired(s) ==
    IF s.m.best = None \/ ~s.rx[s.m.best].open THEN Fails(s, "bestSrx()")
    ELSE EnterActiveRxSelected(s, s.m.best)

SqlCloseWaitExpired(s) ==
    IF s.m.best = None THEN EnterIdle(s)
    ELSE EnterSquelchOpen(ChangeActiveSrx(s, s.m.best))

ReceivingExpired(s) ==
    IF s.m.best \notin {None, s.m.active} /\ Beats(s, s.m.best, s.m.active)
    THEN EnterSwitchActiveRx(s, s.m.best) ELSE StartTimer(s)

SwitchActiveRxExpired(s) ==
    IF s.m.switchTo = s.m.active THEN Fails(s, "switch_to_srx != activeSrx()")
    ELSE IF s.rx[s.m.switchTo].open /\ Beats(s, s.m.switchTo, s.m.active)
    THEN EnterReceiving([ChangeActiveSrxOpen(s, s.m.switchTo) EXCEPT !.m.switchTo = None])
    ELSE EnterReceiving(s)

\* event_timer is a one-shot timer.
HandleTimer(s) ==
    CASE s.m.state = "VotingDelay" -> VotingDelayExpired(s)
      [] s.m.state = "SqlCloseWait" -> SqlCloseWaitExpired(s)
      [] s.m.state = "Receiving" -> ReceivingExpired(s)
      [] s.m.state = "SwitchActiveRx" -> SwitchActiveRxExpired(s)

----------------------------------------------------------------------------
(* The receivers *)

Running == failed = None /\ Len(tasks) <= MAX_TASKS

RxOpens(x) ==
    /\ Running /\ rx[x].mute # "ALL" /\ ~rx[x].sig
    /\ \E l \in LEVELS :
        LET s == [State EXCEPT !.rx[x] = [@ EXCEPT !.sig = TRUE, !.lev = l]]
        IN  Step(DispatchEvents(SetSquelchOpen(s, x, TRUE)))

\* A squelch closes when the audio is flushed, which may be at once.  That of a LocalRx
\* whose content is muted has nothing to wait for.
RxCloses(x) ==
    /\ Running /\ rx[x].sig
    /\ LET s == [State EXCEPT !.rx[x].sig = FALSE]
           ignored == x \notin NetRxs /\ rx[x].mute = "CONTENT"
       IN  \/ rx[x].unflushed /\ ~ignored /\ Step(s)
           \/ ~InFifo(s, x) /\ ~ignored /\ Step(DispatchEvents(Flushed(s, x)))
           \/ ignored /\ Step(DispatchEvents(SetSquelchOpen(s, x, FALSE)))

\* A NetRx goes on with it while its squelch waits for audio to be flushed.
SignalLevelUpdated(x) ==
    /\ Running
    /\ rx[x].sig \/ (x \in NetRxs /\ rx[x].mute # "ALL" /\ rx[x].open)
    /\ \E l \in LEVELS :
        LET s == [State EXCEPT !.rx[x].lev = l]
        IN  l # rx[x].lev /\ Step(IF rx[x].open /\ rx[x].enabled
                                 THEN HandleSignalLevel(s, x) ELSE s)

\* Audio that neither the valve lets through nor a FIFO keeps is dropped.
AudioArrives(x) ==
    /\ Running /\ ~StreamEnds(State, x) /\ ~rx[x].unflushed
    /\ rx[x].valve \/ BUFFERED
    /\ Step(Kept(State, x))

\* The sinks have flushed a stream that ended.
OutputFlushed(x) ==
    /\ failed = None
    /\ rx[x].unflushed /\ rx[x].valve /\ StreamEnds(State, x)
    /\ Step(DispatchEvents(Flushed(State, x)))

\* The sinks have flushed what a closed valve cut off.
LateAnswer(x) == failed = None /\ rx[x].late /\ Step(DispatchEvents(Answered(State, x)))

----------------------------------------------------------------------------
(* The voter *)

\* Tasks run by a timer that is due at once.  Whatever defers a task also starts or stops
\* event_timer, so that it expires after the tasks.
TimerExpired ==
    /\ failed = None /\ m.timer /\ tasks = <<>>
    /\ Step(DispatchEvents(HandleTimer([State EXCEPT !.m.timer = FALSE])))

RunTasks == failed = None /\ tasks # <<>> /\ Step(RunAll(State))

SetMuteState(mute) == Running /\ Step(DispatchEvents(HandleSetMuteState(State, mute)))

Reset == Running /\ Step(DispatchEvents(EnterMuted(ResetAll(State))))

\* SatRx::setEnabled.  It calls the receiver outside of an event: what the receiver
\* signals is handled before the call goes on.
SetEnabled(s, x, c) ==
    LET target == IF ~s.rx[x].enabled /\ c = "NONE" THEN s.rx[x].want ELSE c
        on   == [s EXCEPT !.rx[x].enabled = @ \/ c = "NONE"]
        quiet == IF target = "ALL" /\ s.rx[x].mute # "ALL"
                 THEN DispatchEvents(MuteSquelch(on, x)) ELSE on
        mutd == [quiet EXCEPT !.rx[x].mute = target]
        done == IF target = "NONE" THEN mutd ELSE DispatchEvents(ClearFifo(mutd, x))
    IN  [done EXCEPT !.rx[x].enabled = ~s.rx[x].enabled /\ c = "NONE"]

\* An open receiver has its squelch event dispatched by the voter.
SquelchEvent(s, x, c) ==
    IF s.rx[x].open
    THEN DispatchEvents([s EXCEPT !.queue = Append(@, [rx |-> x, open |-> c = "NONE"])])
    ELSE s

\* A command on COMMAND_PTY; the event is dispatched even if the receiver is disabled.
SetRxEnabled(x, c) ==
    /\ Running
    /\ \/ ~rx[x].enabled /\ c = "NONE"
       \/ c # rx[x].mute
    /\ c = "NONE" => REDUNDANT \/ ~rx[x].enabled
    /\ Step(SquelchEvent(SetEnabled(State, x, c), x, c))

Next ==
    \/ \E x \in Rxs :
        \/ RxOpens(x) \/ RxCloses(x) \/ SignalLevelUpdated(x)
        \/ AudioArrives(x) \/ OutputFlushed(x) \/ LateAnswer(x)
        \/ \E c \in COMMANDS : SetRxEnabled(x, c)
    \/ TimerExpired \/ RunTasks \/ Reset
    \/ \E mute \in MuteStates : SetMuteState(mute)

Spec == Init /\ [][Next]_vars

\* Timers expire, deferred tasks run and the sinks flush; nothing else has to happen.
\* This is weak fairness of the four actions, with the conditions under which their
\* steps change something written out: while no receiver beats the active one, the timer
\* of Receiving is only started again.
NoneBetter ==
    m.state = "Receiving" /\ (m.best = None \/ ~Beats(State, m.best, m.active))

TimerDue == failed = None /\ m.timer /\ tasks = <<>> /\ ~NoneBetter
TasksDue == failed = None /\ tasks # <<>>
AnswerDue(x) == failed = None /\ rx[x].late
FlushDue(x) == failed = None /\ rx[x].unflushed /\ rx[x].valve /\ StreamEnds(State, x)

Fairness ==
    /\ <>[]TimerDue => []<><<TimerExpired>>_vars
    /\ <>[]TasksDue => []<><<RunTasks>>_vars
    /\ \A x \in Rxs :
        /\ <>[]FlushDue(x) => []<><<OutputFlushed(x)>>_vars
        /\ <>[]AnswerDue(x) => []<><<LateAnswer(x)>>_vars

FairSpec == Spec /\ Fairness

----------------------------------------------------------------------------

\* The types of the variables.
TypeOK ==
    /\ m \in Machines /\ rx \in [Rxs -> Receivers]
    /\ tasks \in Seq(Tasks) /\ sql \in BOOLEAN /\ failed \in Assertions \cup {None}

\* best_srx is maintained event by event, yet it always is an enabled receiver with an
\* open squelch, and none is missed: it is null only while there is no such receiver.
BestIsOpen ==
    failed = None => IF m.best = None THEN \A x \in Rxs : rx[x].enabled => ~rx[x].open
                     ELSE rx[m.best].enabled /\ rx[m.best].open

\* Once the deferred tasks have run, the squelch that the voter reports is that of its
\* state machine, whatever transitions were made before the tasks ran.
SquelchReported ==
    tasks = <<>> /\ failed = None => (sql <=> m.state \in SquelchOpenStates)

\* While the voter is muted no receiver that takes part is left with a signal, whether it
\* was muted, enabled, disabled or reset before, and in which state of the machine.
MutedIsSilent ==
    m.state = "Muted" /\ failed = None =>
        \A x \in Rxs : rx[x].enabled => rx[x].mute = "ALL" /\ ~rx[x].sig

\* The receiver that was selected has an open squelch and takes part in the voting, and it
\* is not muted while the voter is not, however it was selected and whatever was muted,
\* enabled or disabled meanwhile.
ActiveHeard ==
    m.state \in SquelchOpenStates /\ failed = None =>
        /\ rx[m.active].open /\ rx[m.active].enabled
        /\ m.mute = "NONE" => rx[m.active].mute = "NONE"

\* Mute states fit: silence while muted, and the active receiver heard otherwise.
MutesFit == MutedIsSilent /\ ActiveHeard

\* All together: no stale best receiver, no squelch reported against the state, and no
\* receiver with a mute state that is not its due (Voter.cpp).
VoterSound == TypeOK /\ BestIsOpen /\ SquelchReported /\ MutesFit

\* What was buffered of a receiver is not lost when that receiver is selected.
VotedAudioKept ==
    [][m'.active \notin {None, m.active} /\ m'.mute = "NONE" =>
        rx'[m'.active].unflushed = rx[m'.active].unflushed]_vars

\* The receiver hears nothing, and its squelch is held open at most by buffered audio or
\* by sinks that still flush.
Quiet(x) == ~rx[x].sig /\ (rx[x].open => rx[x].unflushed \/ rx[x].late)

\* When no receiver hears anything any more, the voter closes its squelch for good.
QuietCloses == <>[](\A x \in Rxs : Quiet(x)) => <>[](~sql \/ failed # None)

\* If in the end one receiver alone hears a signal, and neither it nor the voter is muted,
\* the voter selects it and reports an open squelch, whichever was active before.
LastHeardIsVoted ==
    \A x \in Rxs :
        <>[](/\ m.state # "Muted" /\ rx[x].sig /\ \A y \in Rxs \ {x} : Quiet(y)
             /\ \A y \in Rxs : rx[y].enabled)
            => <>[]((sql /\ m.active = x) \/ failed # None)
=============================================================================
