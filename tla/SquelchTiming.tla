--------------------------- MODULE SquelchTiming ---------------------------
(***************************************************************************)
(* One squelch of a local receiver over time (Squelch.cpp), with a         *)
(* detector that works on the audio (VOX, CTCSS, SIGLEV, ...) or on events *)
(* from outside (GPIO, EVDEV, HIDRAW, PTY).  LocalRxBase resets it when    *)
(* the receiver is muted, which ends the stream of samples, and restarts   *)
(* it when the receiver is no longer muted.                                *)
(*                                                                         *)
(* Three history variables count samples.                                  *)
(***************************************************************************)
EXTENDS Squelch

CONSTANTS
    CONFIGS,    \* configured times
    MAX_BLOCK,  \* the most samples that are written at once
    MAX_COUNT   \* how far the history variables count

ASSUME TimingAssumption ==
    /\ CONFIGS \subseteq Parameters
    /\ MAX_BLOCK \in Nat \ {0} /\ MAX_COUNT \in Nat
    /\ \A c \in CONFIGS : c.delay <= MAX_COUNT /\ c.hang <= MAX_COUNT /\ c.timeout <= MAX_COUNT

VARIABLES
    p,          \* the times of this squelch
    events,     \* its detector works on events
    sq,
    live,       \* samples arrive
    steady,     \* samples since the signal was detected
    quiet,      \* samples since the signal was lost
    openFor     \* samples since the squelch opened

config == <<p, events>>
squelchVars == <<config, sq, live, steady, quiet, openFor>>

\* Before the receiver is unmuted for the first time.
SquelchInit ==
    /\ p \in CONFIGS /\ events \in BOOLEAN
    /\ sq = Created /\ live = FALSE
    /\ steady = 0 /\ quiet = 0 /\ openFor = 0

Capped(n) == IF n > MAX_COUNT THEN MAX_COUNT ELSE n

\* A step of n samples.  A signal that it finds or loses is found or lost with the last
\* m of them.
Count(n, m) ==
    /\ steady' = IF ~sq'.signal THEN 0 ELSE IF sq.signal THEN Capped(steady + n) ELSE Capped(m)
    /\ quiet' = IF sq'.signal THEN 0 ELSE IF sq.signal THEN Capped(m) ELSE Capped(quiet + n)
    /\ openFor' = IF sq'.open /\ sq.open THEN Capped(openFor + n) ELSE 0

\* n samples, in which the detector finds a signal or none: the stages up to the detector,
Processed(n, isDetected) ==
    LET started == StartStage(p, TimeoutStage(sq, n), n)
    IN  IF events \/ AfterStart(sq, n) = 0 THEN started
        ELSE SetSignalDetected(p, started, isDetected)

\* and those after it, for the samples that are not those of a start delay.
WriteSamples(n, isDetected) ==
    LET rest == AfterStart(sq, n)
        q    == Processed(n, isDetected)
    IN  IF q.startLeft > 0 THEN q ELSE HangStage(p, DelayStage(p, q, rest), rest)

SamplesWritten(n, isDetected) ==
    /\ live
    /\ sq' = [WriteSamples(n, isDetected) EXCEPT !.out = "none"]
    /\ Count(n, AfterStart(sq, n))
    /\ UNCHANGED <<config, live>>

\* An event of the detector.
SignalEvent(isDetected) ==
    /\ events
    /\ sq' = [SetSignalDetected(p, sq, isDetected) EXCEPT !.out = "none"]
    /\ Count(0, 0)
    /\ UNCHANGED <<config, live>>

\* A new signal level.
SignalLevel(isLow) ==
    /\ sq' = EnableExtendedHangtime(sq, isLow)
    /\ UNCHANGED <<config, live, steady, quiet, openFor>>

\* Everything is muted, or the wide band receiver of this receiver is not ready.
SquelchReset ==
    /\ sq' = Reset(p, sq)
    /\ live' \in {FALSE, live}
    /\ Count(0, 0)
    /\ UNCHANGED config

Unmute ==
    /\ ~live
    /\ sq' = Restart(p, sq)
    /\ live' = TRUE
    /\ UNCHANGED <<config, steady, quiet, openFor>>

SquelchNext ==
    \/ \E n \in 1 .. MAX_BLOCK, isDetected \in BOOLEAN : SamplesWritten(n, isDetected)
    \/ \E isDetected \in BOOLEAN : SignalEvent(isDetected)
    \/ \E isLow \in BOOLEAN : SignalLevel(isLow)
    \/ SquelchReset
    \/ Unmute

SquelchSpec == SquelchInit /\ [][SquelchNext]_squelchVars

----------------------------------------------------------------------------
\* The types of the variables.
SquelchTypeOK ==
    /\ p \in CONFIGS /\ events \in BOOLEAN
    /\ sq \in Squelches /\ live \in BOOLEAN
    /\ steady \in 0 .. MAX_COUNT /\ quiet \in 0 .. MAX_COUNT /\ openFor \in 0 .. MAX_COUNT

\* Outside of a start delay, a closed squelch with a signal is about to open and an open
\* one without is about to close: no signal is overlooked, or remembered after it has
\* gone, whatever the start delay, a restart and the events in between were.
TimersFit ==
    /\ sq.delayLeft > 0 => ~sq.open
    /\ sq.hangLeft > 0 => sq.open
    /\ sq.startLeft = 0 =>
        /\ sq.signal => sq.hangLeft = 0 /\ (sq.open \/ sq.delayLeft > 0)
        /\ ~sq.signal => sq.delayLeft = 0 /\ (~sq.open \/ sq.hangLeft > 0)

\* A squelch with a time-out is never open for longer.
NeverOpenTooLong ==
    p.timeout > 0 /\ IsOpen(sq) => openFor < p.timeout

\* In every state the counters fit what is detected, and the time-out is kept (Squelch.cpp).
SquelchSound == SquelchTypeOK /\ TimersFit /\ NeverOpenTooLong

\* It opens only when the signal has been there for SQL_DELAY without a gap, and, but for
\* a reset, closes only when it has been away for SQL_HANGTIME or the extended one.
DelaysKept ==
    [][/\ ~sq.open /\ sq'.open => steady' >= p.delay
       /\ sq.open /\ ~sq'.open /\ sq' # Reset(p, sq) =>
            quiet' >= p.hang \/ quiet' >= p.extHang]_squelchVars
=============================================================================
