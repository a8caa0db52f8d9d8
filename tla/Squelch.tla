------------------------------ MODULE Squelch ------------------------------
(***************************************************************************)
(* A squelch detector (class Squelch, svxlink/trx/Squelch.h, Squelch.cpp): *)
(* what it does with the signal that its subclass detects.  A squelch q is *)
(* a record, p are its configured times.  Times are counted in samples and *)
(* pass with the samples that are written, in the stages of WriteSamples.  *)
(* A stage emits squelchOpen at most once; out is what it has emitted.     *)
(*                                                                         *)
(* A counter that has run past zero is zero here, which no test in the     *)
(* code tells from a negative one, except for that of the time-out.        *)
(***************************************************************************)
EXTENDS Integers

Emissions == {"none", "open", "closed"}

Parameters ==
    [start   : Nat,             \* SQL_START_DELAY
     delay   : Nat,             \* SQL_DELAY
     hang    : Nat,             \* SQL_HANGTIME
     extHang : Nat,             \* SQL_EXTENDED_HANGTIME
     timeout : {-1} \cup (Nat \ {0})]   \* SQL_TIMEOUT, -1 is none

Squelches ==
    [open        : BOOLEAN,
     startLeft   : Nat,
     delayLeft   : Nat,
     hangLeft    : Nat,
     timeoutLeft : {-1} \cup Nat,   \* -1 is off or closed, 0 is timed out
     signal      : BOOLEAN,         \* m_signal_detected
     extended    : BOOLEAN,         \* m_extended_hangtime_enabled
     out         : Emissions]

\* A squelch as it is created.
Created ==
    [open |-> FALSE, startLeft |-> 0, delayLeft |-> 0, hangLeft |-> 0, timeoutLeft |-> -1,
     signal |-> FALSE, extended |-> FALSE, out |-> "none"]

IsOpen(q) == q.open /\ q.timeoutLeft # 0

CurrentHangtime(p, q) == IF q.extended THEN p.extHang ELSE p.hang

\* The rest of a counter after n samples.
Rest(left, n) == IF left > n THEN left - n ELSE 0

\* The callers have tested that the squelch is not so already.
SetOpen(p, q, isOpen) ==
    [q EXCEPT !.open = isOpen,
              !.timeoutLeft = IF isOpen THEN p.timeout ELSE -1,
              !.out = IF isOpen THEN "open" ELSE "closed"]

\* Mutant: a hang time goes on when the signal is back.
DetectedKeepsHang(p, q) ==
    IF q.open \/ q.delayLeft > 0 THEN q
    ELSE IF p.delay = 0 THEN SetOpen(p, q, TRUE) ELSE [q EXCEPT !.delayLeft = p.delay]

\* Mutant: the time-out is measured from the last time that a signal was found.
DetectedRestartsTimeout(p, q) ==
    LET r == [q EXCEPT !.hangLeft = 0] IN
    IF q.open \/ q.delayLeft > 0 THEN [r EXCEPT !.timeoutLeft = IF q.open THEN p.timeout ELSE @]
    ELSE IF p.delay = 0 THEN SetOpen(p, r, TRUE) ELSE [r EXCEPT !.delayLeft = p.delay]

Detected(p, q) ==
    LET r == [q EXCEPT !.hangLeft = 0] IN
    IF q.open \/ q.delayLeft > 0 THEN r
    ELSE IF p.delay = 0 THEN SetOpen(p, r, TRUE) ELSE [r EXCEPT !.delayLeft = p.delay]

\* Mutant: a delay goes on over a gap in the signal.
LostKeepsDelay(p, q) ==
    LET hang == CurrentHangtime(p, q) IN
    IF ~q.open \/ q.hangLeft > 0 THEN q
    ELSE IF hang = 0 THEN SetOpen(p, q, FALSE) ELSE [q EXCEPT !.hangLeft = hang]

Lost(p, q) ==
    LET r == [q EXCEPT !.delayLeft = 0]
        hang == CurrentHangtime(p, q)
    IN  IF ~q.open \/ q.hangLeft > 0 THEN r
        ELSE IF hang = 0 THEN SetOpen(p, r, FALSE) ELSE [r EXCEPT !.hangLeft = hang]

SetSignalDetectedP(p, q, isDetected) ==
    LET r == [q EXCEPT !.signal = isDetected] IN
    IF q.startLeft > 0 THEN r ELSE IF isDetected THEN Detected(p, r) ELSE Lost(p, r)

\* Called by the subclass.
SetSignalDetected(p, q, isDetected) ==
    IF q.signal = isDetected THEN q ELSE SetSignalDetectedP(p, q, isDetected)

EnableExtendedHangtime(q, enable) == [q EXCEPT !.extended = enable]

\* A reset emits nothing.
Reset(p, q) == [Created EXCEPT !.startLeft = p.start]

Restart(p, q) == [q EXCEPT !.startLeft = p.start]

----------------------------------------------------------------------------
\* WriteSamples, of n samples.  First the time-out,
TimeoutStage(q, n) ==
    IF q.timeoutLeft <= 0 THEN q
    ELSE IF q.timeoutLeft > n THEN [q EXCEPT !.timeoutLeft = @ - n]
         ELSE [q EXCEPT !.timeoutLeft = 0, !.out = "closed"]

\* then the start delay, which takes the samples it needs: the later stages are for the
\* other ones, if it has ended.
StartStage(p, q, n) ==
    IF q.startLeft = 0 THEN q
    ELSE LET r == [q EXCEPT !.startLeft = Rest(@, n)]
         IN  IF r.startLeft > 0 THEN r ELSE SetSignalDetectedP(p, r, r.signal)

AfterStart(q, n) == Rest(n, q.startLeft)

\* then processSamples of the subclass, which may call SetSignalDetected, the delay,
DelayStage(p, q, n) ==
    IF q.delayLeft = 0 THEN q
    ELSE LET r == [q EXCEPT !.delayLeft = Rest(@, n)]
         IN  IF r.delayLeft = 0 /\ ~r.open THEN SetOpen(p, r, TRUE) ELSE r

\* and the hang time.
HangStage(p, q, n) ==
    IF q.hangLeft = 0 THEN q
    ELSE LET r == [q EXCEPT !.hangLeft = Rest(@, n)]
         IN  IF r.hangLeft = 0 /\ r.open THEN SetOpen(p, r, FALSE) ELSE r
=============================================================================
