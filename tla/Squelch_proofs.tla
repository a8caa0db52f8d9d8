--------------------------- MODULE Squelch_proofs ---------------------------
(***************************************************************************)
(* Proofs about squelches, for every choice of their times and every size  *)
(* of the blocks of samples: the timing of a squelch is as SquelchTiming   *)
(* says, and a local receiver, which may combine any number of squelches,  *)
(* is as LocalRx says.                                                     *)
(*                                                                         *)
(* First comes what the operators of Squelch do.  For the timing, the      *)
(* stages of WriteSamples before the last two amount to one change of the  *)
(* signal at most, and the inductive invariant relates each counter of the *)
(* squelch to the history variable that counts the other way.  For the     *)
(* receiver, what an operation emits fits what the squelch has become; the *)
(* values of the expression are found by induction on its nodes, and the   *)
(* invariant holds of the whole state after every emission.                *)
(***************************************************************************)
EXTENDS SquelchTiming, LocalRx, FiniteSetTheorems, WellFoundedInduction, TLAPS

\* What is left of a counter after n samples.
LEMMA RestFact ==
    ASSUME NEW left \in Nat, NEW n \in Nat
    PROVE  /\ Rest(left, n) \in Nat
           /\ Rest(left, n) > 0 => Rest(left, n) = left - n
           /\ Rest(left, n) = 0 <=> left <= n
  BY DEF Rest

\* Emissions and changes of the signal keep the type.
LEMMA SignalType ==
    ASSUME NEW c \in Parameters, NEW q \in Squelches, NEW b \in BOOLEAN
    PROVE  /\ SetSignalDetectedP(c, q, b) \in Squelches
           /\ SetOpen(c, q, b) \in Squelches
  <1>1. \A r \in Squelches, d \in BOOLEAN : SetOpen(c, r, d) \in Squelches
    BY Zenon DEF SetOpen, Squelches, Emissions, Parameters
  <1>2. CurrentHangtime(c, q) \in Nat /\ c.delay \in Nat
    BY DEF CurrentHangtime, Parameters
  <1>3. PICK r : r = [q EXCEPT !.signal = b]
    OBVIOUS
  <1>4. r \in Squelches
    BY <1>3, Zenon DEF Squelches
  <1>5. CurrentHangtime(c, r) = CurrentHangtime(c, q)
    BY <1>3 DEF CurrentHangtime, Squelches
  <1>6. [r EXCEPT !.hangLeft = 0] \in Squelches /\ [r EXCEPT !.delayLeft = 0] \in Squelches
    BY <1>4, Zenon DEF Squelches
  <1>7. Detected(c, r) \in Squelches
    <2>1. [[r EXCEPT !.hangLeft = 0] EXCEPT !.delayLeft = c.delay] \in Squelches
      BY <1>2, <1>6, Zenon DEF Squelches
    <2> QED BY <1>1, <1>6, <2>1, Zenon DEF Detected
  <1>8. Lost(c, r) \in Squelches
    <2>1. [[r EXCEPT !.delayLeft = 0] EXCEPT !.hangLeft = CurrentHangtime(c, r)] \in Squelches
      BY <1>2, <1>5, <1>6, Zenon DEF Squelches
    <2> QED BY <1>1, <1>6, <2>1, Zenon DEF Lost
  <1> QED BY <1>1, <1>3, <1>4, <1>7, <1>8, Zenon DEF SetSignalDetectedP

\* How the counters that run fit the state.
Sound(q) ==
    /\ q.delayLeft > 0 => ~q.open
    /\ q.hangLeft > 0 => q.open
    /\ q.open => IF p.timeout = -1 THEN q.timeoutLeft = -1 ELSE q.timeoutLeft \in Nat
    /\ ~q.open => q.timeoutLeft = -1

Fitting(q) ==
    /\ q.signal => q.hangLeft = 0 /\ (q.open \/ q.delayLeft > 0)
    /\ ~q.signal => q.delayLeft = 0 /\ (~q.open \/ q.hangLeft > 0)

\* What SetSignalDetectedP makes of a squelch q that is not in its start delay.
Signalled(q, r, b) ==
    /\ r.signal = b /\ r.startLeft = 0
    /\ b => /\ q.open => r.open /\ r.timeoutLeft = q.timeoutLeft
            /\ r.open /\ ~q.open => p.delay = 0 /\ r.timeoutLeft = p.timeout
            /\ r.delayLeft > 0 => r.delayLeft \in {q.delayLeft, p.delay}
    /\ ~b => /\ r.open => q.open /\ r.timeoutLeft = q.timeoutLeft
             /\ q.open /\ ~r.open => p.hang = 0 \/ p.extHang = 0
             /\ r.hangLeft > 0 => r.hangLeft \in {q.hangLeft, p.hang, p.extHang}

\* A change of the signal, outside of a start delay.
LEMMA SignalledFact ==
    ASSUME p \in Parameters, NEW q \in Squelches, NEW b \in BOOLEAN,
           q.startLeft = 0, Sound(q)
    PROVE  LET r == SetSignalDetectedP(p, q, b) IN
           Signalled(q, r, b) /\ Sound(r) /\ Fitting(r)
  <1> DEFINE r == SetSignalDetectedP(p, q, b)
  <1>1. CASE b
    BY <1>1, SMT DEF SetSignalDetectedP, Detected, SetOpen, Signalled, Sound, Fitting,
                     Squelches, Parameters
  <1>2. CASE ~b
    BY <1>2, SMT DEF SetSignalDetectedP, Lost, SetOpen, CurrentHangtime, Signalled, Sound,
                     Fitting, Squelches, Parameters
  <1> QED BY <1>1, <1>2

\* In a start delay only the signal is remembered.
LEMMA DeafFact ==
    ASSUME NEW q \in Squelches, NEW b \in BOOLEAN, q.startLeft > 0
    PROVE  LET r == SetSignalDetectedP(p, q, b) IN r = [q EXCEPT !.signal = b]
  BY DEF SetSignalDetectedP, Squelches

\* The stage of the time-out.
LEMMA TimeoutFact ==
    ASSUME NEW q \in Squelches, NEW n \in Nat
    PROVE  LET r == TimeoutStage(q, n) IN
           /\ r \in Squelches
           /\ r.open = q.open /\ r.signal = q.signal /\ r.startLeft = q.startLeft
           /\ r.delayLeft = q.delayLeft /\ r.hangLeft = q.hangLeft
           /\ r.timeoutLeft = IF q.timeoutLeft <= 0 THEN q.timeoutLeft
                              ELSE Rest(q.timeoutLeft, n)
  <1>1. q.timeoutLeft > n => q.timeoutLeft - n \in Nat
    BY DEF Squelches
  <1>2. TimeoutStage(q, n) \in Squelches
    BY <1>1, Zenon DEF TimeoutStage, Squelches, Emissions
  <1> QED BY <1>2, SMT DEF TimeoutStage, Squelches, Rest

\* The stage of the delay.
LEMMA DelayFact ==
    ASSUME p \in Parameters, NEW q \in Squelches, NEW n \in Nat, Sound(q)
    PROVE  LET r == DelayStage(p, q, n) IN
           /\ r \in Squelches
           /\ r.signal = q.signal /\ r.startLeft = q.startLeft /\ r.hangLeft = q.hangLeft
           /\ r.delayLeft = Rest(q.delayLeft, n)
           /\ IF 0 < q.delayLeft /\ q.delayLeft <= n
              THEN r.open /\ r.timeoutLeft = p.timeout
              ELSE r.open = q.open /\ r.timeoutLeft = q.timeoutLeft
  <1>1. Rest(q.delayLeft, n) \in Nat
    BY RestFact DEF Squelches
  <1>2. [q EXCEPT !.delayLeft = Rest(@, n)] \in Squelches
    BY <1>1, Zenon DEF Squelches
  <1>3. DelayStage(p, q, n) \in Squelches
    BY <1>2, SignalType, Zenon DEF DelayStage
  <1>4. CASE q.delayLeft = 0
    BY <1>3, <1>4, SMT DEF DelayStage, Squelches, Rest
  <1>5. CASE q.delayLeft > n
    <2>1. Rest(q.delayLeft, n) # 0 /\ q.delayLeft # 0
      BY <1>5, RestFact, SMT DEF Squelches
    <2>2. DelayStage(p, q, n) = [q EXCEPT !.delayLeft = Rest(q.delayLeft, n)]
      BY <2>1, Zenon DEF DelayStage, Squelches
    <2> QED BY <1>3, <1>5, <2>2 DEF Squelches
  <1>6. CASE 0 < q.delayLeft /\ q.delayLeft <= n
    <2>1. Rest(q.delayLeft, n) = 0
      BY <1>6, RestFact DEF Squelches
    <2>2. DelayStage(p, q, n) = SetOpen(p, [q EXCEPT !.delayLeft = 0], TRUE)
      <3>1. q.delayLeft # 0 /\ ~q.open
        BY <1>6, SMT DEF Squelches, Sound
      <3> QED BY <2>1, <3>1, Zenon DEF DelayStage, Squelches
    <2> QED BY <1>3, <1>6, <2>1, <2>2 DEF SetOpen, Squelches
  <1> QED BY <1>4, <1>5, <1>6 DEF Squelches

\* The stage of the hang time.
LEMMA HangFact ==
    ASSUME p \in Parameters, NEW q \in Squelches, NEW n \in Nat, q.hangLeft > 0 => q.open
    PROVE  LET r == HangStage(p, q, n) IN
           /\ r \in Squelches
           /\ r.signal = q.signal /\ r.startLeft = q.startLeft /\ r.delayLeft = q.delayLeft
           /\ r.hangLeft = Rest(q.hangLeft, n)
           /\ IF 0 < q.hangLeft /\ q.hangLeft <= n
              THEN ~r.open /\ r.timeoutLeft = -1
              ELSE r.open = q.open /\ r.timeoutLeft = q.timeoutLeft
  <1>1. Rest(q.hangLeft, n) \in Nat
    BY RestFact DEF Squelches
  <1>2. [q EXCEPT !.hangLeft = Rest(@, n)] \in Squelches
    BY <1>1, Zenon DEF Squelches
  <1>3. HangStage(p, q, n) \in Squelches
    BY <1>2, SignalType, Zenon DEF HangStage
  <1>4. CASE q.hangLeft = 0
    BY <1>3, <1>4, SMT DEF HangStage, Squelches, Rest
  <1>5. CASE q.hangLeft > n
    <2>1. Rest(q.hangLeft, n) # 0 /\ q.hangLeft # 0
      BY <1>5, RestFact, SMT DEF Squelches
    <2>2. HangStage(p, q, n) = [q EXCEPT !.hangLeft = Rest(q.hangLeft, n)]
      BY <2>1, Zenon DEF HangStage, Squelches
    <2> QED BY <1>3, <1>5, <2>2 DEF Squelches
  <1>6. CASE 0 < q.hangLeft /\ q.hangLeft <= n
    <2>1. Rest(q.hangLeft, n) = 0
      BY <1>6, RestFact DEF Squelches
    <2>2. HangStage(p, q, n) = SetOpen(p, [q EXCEPT !.hangLeft = 0], FALSE)
      <3>1. q.hangLeft # 0 /\ q.open
        BY <1>6, SMT DEF Squelches
      <3> QED BY <2>1, <3>1, Zenon DEF HangStage, Squelches
    <2> QED BY <1>3, <1>6, <2>1, <2>2 DEF SetOpen, Squelches
  <1> QED BY <1>4, <1>5, <1>6 DEF Squelches

----------------------------------------------------------------------------
Expired(n) == IF sq.timeoutLeft <= 0 THEN sq.timeoutLeft ELSE Rest(sq.timeoutLeft, n)

\* No sample of the stream has been counted down yet.
Waiting == ~live \/ sq.startLeft > 0

SquelchInv ==
    /\ SquelchTypeOK
    /\ Sound(sq)
    /\ sq.startLeft <= p.start
    /\ sq.startLeft = 0 => Fitting(sq)
    /\ ~events /\ Waiting => ~sq.open /\ ~sq.signal /\ sq.delayLeft = 0
    /\ sq.delayLeft > 0 =>
        IF Waiting THEN sq.delayLeft = p.delay ELSE steady + sq.delayLeft >= p.delay
    /\ sq.hangLeft > 0 =>
        IF Waiting THEN sq.hangLeft \in {p.hang, p.extHang}
        ELSE quiet + sq.hangLeft >= p.hang \/ quiet + sq.hangLeft >= p.extHang
    /\ sq.open /\ sq.timeoutLeft > 0 => openFor + sq.timeoutLeft <= p.timeout

\* The squelch q after the detector has worked, compared with the one before the block.
Change(q, n) ==
    /\ q.open /\ ~sq.open => p.delay = 0 /\ q.timeoutLeft = p.timeout
    /\ q.open /\ sq.open => q.timeoutLeft = Expired(n)
    /\ sq.open /\ ~q.open => ~q.signal /\ (p.hang = 0 \/ p.extHang = 0)
    /\ q.delayLeft > 0 => \/ q.delayLeft = p.delay
                          \/ sq.startLeft = 0 /\ sq.signal /\ q.delayLeft = sq.delayLeft
    /\ q.hangLeft > 0 => \/ q.hangLeft \in {p.hang, p.extHang}
                         \/ sq.startLeft = 0 /\ ~sq.signal /\ q.hangLeft = sq.hangLeft

\* What the stages before the delay amount to.
LEMMA ProcessedFact ==
    ASSUME SquelchInv, live, p \in Parameters, NEW n \in Nat \ {0}, NEW d \in BOOLEAN,
           sq.startLeft <= n
    PROVE  LET q == Processed(n, d) IN
           /\ q \in Squelches /\ q.startLeft = 0 /\ Sound(q) /\ Fitting(q)
           /\ Change(q, n)
  <1> DEFINE q1 == TimeoutStage(sq, n)
             q2 == StartStage(p, q1, n)
             q3 == Processed(n, d)
  <1>1. sq \in Squelches /\ Sound(sq)
    BY DEF SquelchInv, SquelchTypeOK
  <1>2. /\ q1 \in Squelches
        /\ q1.open = sq.open /\ q1.signal = sq.signal /\ q1.startLeft = sq.startLeft
        /\ q1.delayLeft = sq.delayLeft /\ q1.hangLeft = sq.hangLeft
        /\ q1.timeoutLeft = Expired(n)
    BY <1>1, TimeoutFact DEF Expired
  <1>3. Sound(q1)
    <2>1. sq.timeoutLeft \in Nat => Expired(n) \in Nat
      BY RestFact DEF Expired
    <2>2. sq.timeoutLeft = -1 => Expired(n) = -1
      BY DEF Expired
    <2> QED BY <1>1, <1>2, <2>1, <2>2 DEF Sound
  <1> HIDE DEF q1
  <1>4. CASE sq.startLeft = 0
    <2>1. q2 = q1 /\ Fitting(q1) /\ AfterStart(sq, n) # 0
      BY <1>2, <1>4, SMT DEF StartStage, Fitting, SquelchInv, AfterStart, Rest
    <2>2. CASE events \/ q1.signal = d
      <3>1. q3 = q1
        BY <2>1, <2>2, Zenon DEF Processed, SetSignalDetected, q1
      <3> QED BY <1>2, <1>3, <1>4, <2>1, <3>1 DEF Change, Fitting
    <2>3. CASE ~events /\ q1.signal # d
      <3>1. q3 = SetSignalDetectedP(p, q1, d)
        BY <2>1, <2>3, Zenon DEF Processed, SetSignalDetected, q1
      <3>2. q3 \in Squelches /\ Signalled(q1, q3, d) /\ Sound(q3) /\ Fitting(q3)
        BY <1>2, <1>3, <1>4, <3>1, SignalledFact, SignalType
      <3> HIDE DEF q3
      <3>3. Change(q3, n)
        BY <1>2, <1>3, <1>4, <2>1, <2>3, <3>2 DEF Change, Signalled, Fitting, Sound, Squelches
      <3> QED BY <3>2, <3>3 DEF Signalled, q3
    <2> QED BY <2>2, <2>3
  <1>5. CASE sq.startLeft > 0
    <2> DEFINE r == [q1 EXCEPT !.startLeft = 0]
    <2>1. /\ r \in Squelches /\ r.startLeft = 0 /\ Sound(r)
          /\ r.open = q1.open /\ r.signal = q1.signal /\ r.delayLeft = q1.delayLeft
          /\ r.hangLeft = q1.hangLeft /\ r.timeoutLeft = q1.timeoutLeft
      <3>1. r \in Squelches
        BY <1>2, Zenon DEF Squelches
      <3> QED BY <1>2, <1>3, <3>1 DEF Squelches, Sound
    <2>2. q2 = SetSignalDetectedP(p, r, sq.signal)
      <3>1. Rest(q1.startLeft, n) = 0 /\ q1.startLeft # 0
        <4>1. q1.startLeft \in Nat /\ n \in Nat /\ q1.startLeft <= n
          BY <1>2 DEF Squelches
        <4> QED BY <4>1, <1>2, <1>5, RestFact
      <3>2. [q1 EXCEPT !.startLeft = Rest(@, n)] = r
        BY <3>1, <1>2, Zenon DEF Squelches
      <3> QED BY <1>2, <2>1, <3>1, <3>2, SMT DEF StartStage
    <2> HIDE DEF r
    <2>3. sq.signal \in BOOLEAN
      BY <1>1 DEF Squelches
    <2>4. /\ q2 \in Squelches /\ q2.startLeft = 0
          /\ Signalled(r, q2, sq.signal) /\ Sound(q2) /\ Fitting(q2)
      BY <2>1, <2>2, <2>3, SignalledFact, SignalType DEF Signalled
    <2>5. Change(q2, n)
      BY <1>2, <1>3, <1>5, <2>1, <2>4, SMT
         DEF Change, Signalled, Fitting, Sound, Squelches, SquelchInv, Waiting
    <2>6. CASE q3 = q2
      BY <2>4, <2>5, <2>6
    <2>7. CASE q3 # q2
      <3>1. ~events /\ q3 = SetSignalDetectedP(p, q2, d)
        BY <2>7, Zenon DEF Processed, SetSignalDetected, q1
      <3>2. ~sq.open /\ ~sq.signal /\ sq.delayLeft = 0
        BY <1>5, <3>1 DEF SquelchInv, Waiting
      <3>3. q3 \in Squelches /\ Signalled(q2, q3, d) /\ Sound(q3) /\ Fitting(q3)
        BY <2>4, <3>1, SignalledFact, SignalType
      <3> HIDE DEF q3, q2
      <3>4. ~q2.open /\ q2.delayLeft = 0 /\ q2.hangLeft = 0
        BY <1>2, <2>1, <2>4, <3>2 DEF Signalled, Sound, Fitting, Squelches
      <3>5. Change(q3, n)
        BY <3>2, <3>3, <3>4 DEF Change, Signalled, Fitting, Sound, Squelches
      <3> QED BY <3>3, <3>5 DEF Signalled, q3
    <2> QED BY <2>6, <2>7
  <1> QED BY <1>1, <1>4, <1>5 DEF Squelches

----------------------------------------------------------------------------
\* The history variables after a step of n samples.
LEMMA CountFact ==
    ASSUME SquelchTypeOK, NEW n \in Nat, NEW m \in Nat, sq' \in Squelches, Count(n, m)
    PROVE  /\ steady' \in 0 .. MAX_COUNT /\ quiet' \in 0 .. MAX_COUNT
           /\ openFor' \in 0 .. MAX_COUNT
           /\ sq'.signal /\ sq.signal => steady' = Capped(steady + n)
           /\ sq'.signal /\ ~sq.signal => steady' = Capped(m)
           /\ ~sq'.signal /\ ~sq.signal => quiet' = Capped(quiet + n)
           /\ ~sq'.signal /\ sq.signal => quiet' = Capped(m)
           /\ sq'.open /\ sq.open => openFor' = Capped(openFor + n)
           /\ sq'.open /\ ~sq.open => openFor' = 0
  <1>1. MAX_COUNT \in Nat
    BY TimingAssumption
  <1>2. \A k \in Nat : Capped(k) \in 0 .. MAX_COUNT
    BY <1>1 DEF Capped
  <1>3. steady + n \in Nat /\ quiet + n \in Nat /\ openFor + n \in Nat
    BY <1>1 DEF SquelchTypeOK
  <1> QED BY <1>1, <1>2, <1>3 DEF Count, SquelchTypeOK

\* The last stages.
LEMMA LastStages ==
    ASSUME p \in Parameters, NEW q \in Squelches, NEW n \in Nat,
           q.startLeft = 0, Sound(q), Fitting(q)
    PROVE  LET r == HangStage(p, DelayStage(p, q, n), n) IN
           /\ r \in Squelches /\ r.startLeft = 0 /\ r.signal = q.signal
           /\ Sound(r) /\ Fitting(r)
           /\ r.delayLeft = Rest(q.delayLeft, n) /\ r.hangLeft = Rest(q.hangLeft, n)
           /\ q.open => (r.open <=> ~(0 < q.hangLeft /\ q.hangLeft <= n))
           /\ ~q.open => (r.open <=> (0 < q.delayLeft /\ q.delayLeft <= n))
           /\ r.open => r.timeoutLeft = IF q.open THEN q.timeoutLeft ELSE p.timeout
  <1> DEFINE d == DelayStage(p, q, n)
             r == HangStage(p, d, n)
  <1>1. /\ d \in Squelches
        /\ d.signal = q.signal /\ d.startLeft = 0 /\ d.hangLeft = q.hangLeft
        /\ d.delayLeft = Rest(q.delayLeft, n)
        /\ IF 0 < q.delayLeft /\ q.delayLeft <= n
           THEN d.open /\ d.timeoutLeft = p.timeout
           ELSE d.open = q.open /\ d.timeoutLeft = q.timeoutLeft
    BY DelayFact
  <1> HIDE DEF d
  <1>2. d.hangLeft > 0 => d.open
    BY <1>1 DEF Sound, Fitting, Squelches
  <1>3. /\ r \in Squelches
        /\ r.signal = d.signal /\ r.startLeft = d.startLeft /\ r.delayLeft = d.delayLeft
        /\ r.hangLeft = Rest(d.hangLeft, n)
        /\ IF 0 < d.hangLeft /\ d.hangLeft <= n
           THEN ~r.open /\ r.timeoutLeft = -1
           ELSE r.open = d.open /\ r.timeoutLeft = d.timeoutLeft
    BY <1>1, <1>2, HangFact
  <1> HIDE DEF r
  <1>4. /\ Rest(q.delayLeft, n) \in Nat /\ (Rest(q.delayLeft, n) = 0 <=> q.delayLeft <= n)
        /\ Rest(q.hangLeft, n) \in Nat /\ (Rest(q.hangLeft, n) = 0 <=> q.hangLeft <= n)
    BY RestFact DEF Squelches
  <1>5. /\ q.open => (r.open <=> ~(0 < q.hangLeft /\ q.hangLeft <= n))
        /\ ~q.open => (r.open <=> (0 < q.delayLeft /\ q.delayLeft <= n))
        /\ r.open => r.timeoutLeft = IF q.open THEN q.timeoutLeft ELSE p.timeout
        /\ ~r.open => r.timeoutLeft = -1
    BY <1>1, <1>3, SMT DEF Sound, Fitting, Squelches
  <1>6. Fitting(r)
    BY <1>1, <1>3, <1>4, <1>5, SMT DEF Sound, Fitting, Squelches
  <1>7. Sound(r)
    BY <1>1, <1>3, <1>4, <1>5, SMT DEF Sound, Fitting, Squelches, Parameters
  <1> QED BY <1>1, <1>3, <1>5, <1>6, <1>7 DEF r, d

----------------------------------------------------------------------------
Kept ==
    /\ ~sq.open /\ sq'.open => steady' >= p.delay
    /\ sq.open /\ ~sq'.open /\ sq' # Reset(p, sq) =>
        quiet' >= p.hang \/ quiet' >= p.extHang

\* The ranges that the assumption and the types give.
LEMMA Bounds ==
    ASSUME SquelchTypeOK
    PROVE  /\ p \in Parameters /\ MAX_COUNT \in Nat /\ MAX_BLOCK \in Nat
           /\ p.delay \in 0 .. MAX_COUNT /\ p.hang \in 0 .. MAX_COUNT
           /\ p.timeout \in {-1} \cup (Nat \ {0}) /\ p.timeout <= MAX_COUNT
           /\ p.start \in Nat /\ p.extHang \in Nat
  BY TimingAssumption DEF SquelchTypeOK, Parameters

\* A squelch that is created satisfies the invariant.
LEMMA InitInv == SquelchInit => SquelchInv
  <1> SUFFICES ASSUME SquelchInit PROVE SquelchInv
    OBVIOUS
  <1>1. Created \in Squelches
    BY Zenon DEF Created, Squelches, Emissions
  <1>2. SquelchTypeOK
    <2>1. MAX_COUNT \in Nat
      BY TimingAssumption
    <2>2. 0 \in 0 .. MAX_COUNT
      BY <2>1
    <2> QED BY <1>1, <2>2, Zenon DEF SquelchInit, SquelchTypeOK
  <1> QED BY <1>2, Bounds DEF SquelchInit, SquelchInv, Created, Sound, Fitting

\* A block that the start delay swallows.
LEMMA DeafBlock ==
    ASSUME SquelchInv, NEW n \in Nat \ {0}, NEW d \in BOOLEAN, SamplesWritten(n, d),
           sq.startLeft > n
    PROVE  SquelchInv' /\ Kept
  <1> DEFINE q == TimeoutStage(sq, n)
             r == [q EXCEPT !.startLeft = Rest(@, n)]
  <1>1. SquelchTypeOK /\ sq \in Squelches
    BY DEF SquelchInv, SquelchTypeOK
  <1>2. /\ q \in Squelches
        /\ q.open = sq.open /\ q.signal = sq.signal /\ q.startLeft = sq.startLeft
        /\ q.delayLeft = sq.delayLeft /\ q.hangLeft = sq.hangLeft
        /\ q.timeoutLeft = Expired(n)
    BY <1>1, TimeoutFact DEF Expired
  <1> HIDE DEF q
  <1>3. Rest(q.startLeft, n) \in Nat /\ Rest(q.startLeft, n) = sq.startLeft - n
        /\ q.startLeft # 0 /\ sq.startLeft - n > 0
    BY <1>1, <1>2 DEF Rest, Squelches
  <1>4. r \in Squelches /\ r.startLeft = sq.startLeft - n
    <2>1. r \in Squelches
      BY <1>2, <1>3, Zenon DEF Squelches
    <2> QED BY <1>2, <1>3, <2>1 DEF Squelches
  <1>5. AfterStart(sq, n) = 0
    BY <1>1 DEF AfterStart, Rest, Squelches
  <1>6. WriteSamples(n, d) = r
    <2>1. StartStage(p, q, n) = r
      BY <1>2, <1>3, <1>4, SMT DEF StartStage
    <2>2. Processed(n, d) = r
      BY <1>5, <2>1, Zenon DEF Processed, q
    <2> QED BY <1>3, <1>4, <2>2, SMT DEF WriteSamples
  <1>7. /\ sq' \in Squelches
        /\ sq'.open = sq.open /\ sq'.signal = sq.signal /\ sq'.startLeft = sq.startLeft - n
        /\ sq'.delayLeft = sq.delayLeft /\ sq'.hangLeft = sq.hangLeft
        /\ sq'.timeoutLeft = Expired(n)
    <2>1. sq' = [r EXCEPT !.out = "none"]
      BY <1>6 DEF SamplesWritten
    <2>2. sq' \in Squelches
      BY <1>4, <2>1, Zenon DEF Squelches, Emissions
    <2> QED BY <1>2, <1>4, <2>1, <2>2 DEF Squelches
  <1>8. /\ UNCHANGED <<p, events, live>> /\ live
        /\ Count(n, 0)
    BY <1>5 DEF SamplesWritten, config
  <1>9. /\ steady' \in 0 .. MAX_COUNT /\ quiet' \in 0 .. MAX_COUNT
        /\ openFor' \in 0 .. MAX_COUNT
        /\ sq'.open /\ sq.open => openFor' = Capped(openFor + n)
    BY <1>1, <1>7, <1>8, CountFact
  <1>10. SquelchTypeOK'
    BY <1>1, <1>7, <1>8, <1>9 DEF SquelchTypeOK
  <1>11. Sound(sq)'
    <2>1. sq.timeoutLeft \in Nat => Expired(n) \in Nat
      BY RestFact DEF Expired
    <2>2. sq.timeoutLeft = -1 => Expired(n) = -1
      BY DEF Expired
    <2> QED BY <1>7, <1>8, <2>1, <2>2 DEF Sound, SquelchInv
  <1>12. (sq.open /\ sq.timeoutLeft > 0 => openFor + sq.timeoutLeft <= p.timeout)'
    <2> SUFFICES ASSUME sq.open, Expired(n) > 0 PROVE openFor' + Expired(n) <= p.timeout
      BY <1>7, <1>8
    <2>1. sq.timeoutLeft > 0 /\ Expired(n) = sq.timeoutLeft - n
      <3>1. sq.timeoutLeft > 0
        BY <1>1 DEF Expired, Squelches
      <3>2. sq.timeoutLeft \in Nat /\ Expired(n) = Rest(sq.timeoutLeft, n)
        BY <1>1, <3>1 DEF Expired, Squelches
      <3> QED BY <3>1, <3>2, RestFact
    <2>2. openFor + sq.timeoutLeft <= p.timeout
      BY <2>1 DEF SquelchInv
    <2> QED BY <1>1, <1>7, <1>9, <2>1, <2>2, Bounds DEF Capped, SquelchTypeOK, Squelches
  <1>13. sq'.startLeft <= p' .start /\ sq'.startLeft > 0
    BY <1>1, <1>3, <1>7, <1>8, Bounds DEF SquelchInv, Squelches
  <1>14. Waiting /\ Waiting'
    BY <1>1, <1>13 DEF Waiting, Squelches
  <1>15. SquelchInv'
    BY <1>7, <1>8, <1>10, <1>11, <1>12, <1>13, <1>14 DEF SquelchInv
  <1> QED BY <1>7, <1>15 DEF Kept

\* A block of which the detector hears something, or which ends the start delay.
LEMMA HeardBlock ==
    ASSUME SquelchInv, NEW n \in Nat \ {0}, NEW d \in BOOLEAN, SamplesWritten(n, d),
           sq.startLeft <= n
    PROVE  SquelchInv' /\ Kept
  <1> DEFINE rest == AfterStart(sq, n)
             q == Processed(n, d)
             r == HangStage(p, DelayStage(p, q, rest), rest)
  <1>1. SquelchTypeOK /\ sq \in Squelches /\ live /\ Sound(sq)
    BY DEF SquelchInv, SquelchTypeOK, SamplesWritten
  <1>2. rest \in Nat /\ rest <= n /\ (sq.startLeft = 0 => rest = n)
    BY <1>1, RestFact DEF AfterStart, Rest, Squelches
  <1>3. q \in Squelches /\ q.startLeft = 0 /\ Sound(q) /\ Fitting(q) /\ Change(q, n)
    BY <1>1, Bounds, ProcessedFact
  <1> HIDE DEF q, rest
  <1>4. /\ r \in Squelches /\ r.startLeft = 0 /\ r.signal = q.signal
        /\ Sound(r) /\ Fitting(r)
        /\ r.delayLeft = Rest(q.delayLeft, rest) /\ r.hangLeft = Rest(q.hangLeft, rest)
        /\ q.open => (r.open <=> ~(0 < q.hangLeft /\ q.hangLeft <= rest))
        /\ ~q.open => (r.open <=> (0 < q.delayLeft /\ q.delayLeft <= rest))
        /\ r.open => r.timeoutLeft = IF q.open THEN q.timeoutLeft ELSE p.timeout
    BY <1>1, <1>2, <1>3, Bounds, LastStages
  <1>5. sq' = [r EXCEPT !.out = "none"]
    <2>1. WriteSamples(n, d) = r
      BY <1>3, SMT DEF WriteSamples, q, rest
    <2> QED BY <2>1 DEF SamplesWritten
  <1> HIDE DEF r
  <1>6. /\ sq' \in Squelches /\ sq'.open = r.open /\ sq'.signal = r.signal
        /\ sq'.startLeft = 0 /\ sq'.delayLeft = r.delayLeft /\ sq'.hangLeft = r.hangLeft
        /\ sq'.timeoutLeft = r.timeoutLeft
    <2>1. sq' \in Squelches
      BY <1>4, <1>5, Zenon DEF Squelches, Emissions
    <2> QED BY <1>4, <1>5, <2>1 DEF Squelches
  <1>7. UNCHANGED <<p, events, live>> /\ Count(n, rest)
    BY DEF SamplesWritten, config, rest
  <1>8. /\ steady' \in 0 .. MAX_COUNT /\ quiet' \in 0 .. MAX_COUNT
        /\ openFor' \in 0 .. MAX_COUNT
        /\ sq'.signal /\ sq.signal => steady' = Capped(steady + n)
        /\ sq'.signal /\ ~sq.signal => steady' = Capped(rest)
        /\ ~sq'.signal /\ ~sq.signal => quiet' = Capped(quiet + n)
        /\ ~sq'.signal /\ sq.signal => quiet' = Capped(rest)
        /\ sq'.open /\ sq.open => openFor' = Capped(openFor + n)
        /\ sq'.open /\ ~sq.open => openFor' = 0
    BY <1>1, <1>2, <1>6, <1>7, CountFact
  <1>9. SquelchTypeOK'
    BY <1>1, <1>6, <1>7, <1>8 DEF SquelchTypeOK
  <1>10. Sound(sq)' /\ Fitting(sq)' /\ (sq.startLeft <= p.start)' /\ ~Waiting'
    <2>1. Sound(sq)'
      BY <1>4, <1>6, <1>7 DEF Sound
    <2>2. Fitting(sq)'
      BY <1>4, <1>6 DEF Fitting
    <2> QED BY <1>1, <1>6, <1>7, <2>1, <2>2, Bounds DEF Waiting
  <1>11. /\ steady \in Nat /\ quiet \in Nat /\ openFor \in Nat
         /\ q.delayLeft \in Nat /\ q.hangLeft \in Nat
         /\ sq.delayLeft \in Nat /\ sq.hangLeft \in Nat
    BY <1>1, <1>3 DEF SquelchTypeOK, Squelches
  \* A counter that was started in this block, or ran before it, and the samples since.
  <1>12. ASSUME q.delayLeft > 0
         PROVE  /\ sq'.signal
                /\ q.delayLeft <= rest => steady' >= p.delay
                /\ q.delayLeft > rest => steady' + (q.delayLeft - rest) >= p.delay
    <2>1. sq'.signal
      BY <1>3, <1>4, <1>6, <1>12 DEF Fitting, Squelches
    <2>2. CASE q.delayLeft = p.delay
      <3>1. steady' >= Capped(rest)
        BY <1>2, <1>8, <1>11, <2>1, Bounds, <1>1 DEF Capped
      <3> QED BY <1>1, <1>2, <1>8, <1>11, <2>1, <2>2, <3>1, Bounds DEF Capped
    <2>3. CASE sq.startLeft = 0 /\ sq.signal /\ q.delayLeft = sq.delayLeft
      <3>1. steady + sq.delayLeft >= p.delay
        BY <1>1, <1>12, <2>3 DEF SquelchInv, Waiting
      <3> QED BY <1>1, <1>2, <1>8, <1>11, <2>1, <2>3, <3>1, Bounds DEF Capped
    <2> QED BY <1>3, <1>12, <2>1, <2>2, <2>3 DEF Change
  <1>13. ASSUME q.hangLeft > 0
         PROVE  /\ ~sq'.signal
                /\ q.hangLeft <= rest => quiet' >= p.hang \/ quiet' >= p.extHang
                /\ q.hangLeft > rest => \/ quiet' + (q.hangLeft - rest) >= p.hang
                                        \/ quiet' + (q.hangLeft - rest) >= p.extHang
    <2>1. ~sq'.signal
      BY <1>4, <1>6, <1>13, <1>3 DEF Fitting, Squelches
    <2>2. CASE q.hangLeft \in {p.hang, p.extHang}
      <3>1. quiet' >= Capped(rest)
        BY <1>2, <1>8, <1>11, <2>1, Bounds, <1>1 DEF Capped
      <3> QED BY <1>1, <1>2, <1>8, <1>11, <2>1, <2>2, <3>1, Bounds DEF Capped
    <2>3. CASE sq.startLeft = 0 /\ ~sq.signal /\ q.hangLeft = sq.hangLeft
      <3>1. quiet + sq.hangLeft >= p.hang \/ quiet + sq.hangLeft >= p.extHang
        BY <1>1, <1>13, <2>3 DEF SquelchInv, Waiting
      <3> QED BY <1>1, <1>2, <1>8, <1>11, <2>1, <2>3, <3>1, Bounds DEF Capped
    <2> QED BY <1>3, <1>13, <2>1, <2>2, <2>3 DEF Change
  <1>14. (sq.delayLeft > 0 => steady + sq.delayLeft >= p.delay)'
    <2>1. sq'.delayLeft > 0 => q.delayLeft > rest /\ sq'.delayLeft = q.delayLeft - rest
      BY <1>2, <1>4, <1>6, <1>11, RestFact DEF Rest
    <2> QED BY <1>2, <1>7, <1>11, <1>12, <2>1
  <1>15. (sq.hangLeft > 0 => \/ quiet + sq.hangLeft >= p.hang
                             \/ quiet + sq.hangLeft >= p.extHang)'
    <2>1. sq'.hangLeft > 0 => q.hangLeft > rest /\ sq'.hangLeft = q.hangLeft - rest
      BY <1>2, <1>4, <1>6, <1>11, RestFact DEF Rest
    <2> QED BY <1>2, <1>7, <1>11, <1>13, <2>1
  <1>16. (sq.open /\ sq.timeoutLeft > 0 => openFor + sq.timeoutLeft <= p.timeout)'
    <2> SUFFICES ASSUME r.open, r.timeoutLeft > 0 PROVE openFor' + r.timeoutLeft <= p.timeout
      BY <1>6, <1>7
    <2>1. CASE ~sq.open
      BY <1>1, <1>3, <1>4, <1>6, <1>8, <2>1, Bounds DEF Change
    <2>2. CASE sq.open
      <3>1. q.open
        BY <1>3, <1>4, <2>2, <1>11 DEF Change, Fitting
      <3>2. r.timeoutLeft = Expired(n)
        BY <1>3, <1>4, <2>2, <3>1 DEF Change
      <3>3. sq.timeoutLeft > 0 /\ sq.timeoutLeft \in Nat
        BY <1>1, <3>2 DEF Expired, Squelches
      <3>4. Expired(n) = sq.timeoutLeft - n
        BY <1>4, <3>2, <3>3, RestFact DEF Expired
      <3>5. openFor + sq.timeoutLeft <= p.timeout
        BY <2>2, <3>3 DEF SquelchInv
      <3> QED BY <1>1, <1>6, <1>8, <1>11, <2>2, <3>2, <3>3, <3>4, <3>5, Bounds DEF Capped
    <2> QED BY <2>1, <2>2
  <1>17. SquelchInv'
    BY <1>1, <1>7, <1>9, <1>10, <1>14, <1>15, <1>16 DEF SquelchInv
  <1>18. ~sq.open /\ sq'.open => steady' >= p.delay
    BY <1>3, <1>4, <1>6, <1>8, <1>12, Bounds, <1>1 DEF Change
  <1>19. sq.open /\ ~sq'.open => quiet' >= p.hang \/ quiet' >= p.extHang
    BY <1>3, <1>4, <1>6, <1>8, <1>13, Bounds, <1>1 DEF Change
  <1> QED BY <1>17, <1>18, <1>19 DEF Kept

\* An event of the detector.
LEMMA EventStep ==
    ASSUME SquelchInv, NEW d \in BOOLEAN, SignalEvent(d)
    PROVE  SquelchInv' /\ Kept
  <1> DEFINE r == SetSignalDetected(p, sq, d)
  <1>1. SquelchTypeOK /\ sq \in Squelches /\ Sound(sq)
    BY DEF SquelchInv, SquelchTypeOK
  <1>2. UNCHANGED <<p, events, live>> /\ events /\ Count(0, 0)
    BY DEF SignalEvent, config
  <1>3. r \in Squelches
    BY <1>1, SignalType, Bounds, Zenon DEF SetSignalDetected
  <1>4. /\ sq' \in Squelches /\ sq'.open = r.open /\ sq'.signal = r.signal
        /\ sq'.startLeft = r.startLeft /\ sq'.delayLeft = r.delayLeft
        /\ sq'.hangLeft = r.hangLeft /\ sq'.timeoutLeft = r.timeoutLeft
    <2>1. sq' = [r EXCEPT !.out = "none"]
      BY DEF SignalEvent
    <2>2. sq' \in Squelches
      BY <1>3, <2>1, Zenon DEF Squelches, Emissions
    <2> QED BY <1>3, <2>1, <2>2 DEF Squelches
  <1> HIDE DEF r
  <1>5. /\ steady' \in 0 .. MAX_COUNT /\ quiet' \in 0 .. MAX_COUNT
        /\ openFor' \in 0 .. MAX_COUNT
        /\ sq'.signal /\ sq.signal => steady' = Capped(steady + 0)
        /\ ~sq'.signal /\ ~sq.signal => quiet' = Capped(quiet + 0)
        /\ sq'.open /\ sq.open => openFor' = Capped(openFor + 0)
        /\ sq'.open /\ ~sq.open => openFor' = 0
    BY <1>1, <1>2, <1>4, CountFact
  <1>6. /\ sq'.signal /\ sq.signal => steady' = steady
        /\ ~sq'.signal /\ ~sq.signal => quiet' = quiet
        /\ sq'.open /\ sq.open => openFor' = openFor
    BY <1>1, <1>5, Bounds DEF Capped, SquelchTypeOK
  <1>7. SquelchTypeOK'
    BY <1>1, <1>2, <1>4, <1>5 DEF SquelchTypeOK
  <1>8. CASE sq.signal = d
    <2>1. r = sq
      BY <1>8, Zenon DEF r, SetSignalDetected
    <2>2. Sound(sq)' /\ (sq.startLeft = 0 => Fitting(sq))' /\ (Waiting' <=> Waiting)
      BY <1>1, <1>2, <1>4, <2>1 DEF Sound, Fitting, SquelchInv, Waiting
    <2>3. /\ sq.delayLeft > 0 /\ ~Waiting => steady' = steady
          /\ sq.hangLeft > 0 /\ ~Waiting => quiet' = quiet
      BY <1>1, <1>4, <1>6, <2>1 DEF SquelchInv, Fitting, Waiting, Squelches
    <2>4. SquelchInv'
      BY <1>1, <1>2, <1>4, <1>6, <1>7, <2>1, <2>2, <2>3 DEF SquelchInv
    <2> QED BY <1>4, <2>1, <2>4 DEF Kept
  <1>9. CASE sq.signal # d /\ sq.startLeft > 0
    <2>1. r = [sq EXCEPT !.signal = d]
      BY <1>1, <1>9, DeafFact, Zenon DEF r, SetSignalDetected
    <2>2. /\ sq'.open = sq.open /\ sq'.startLeft = sq.startLeft
          /\ sq'.delayLeft = sq.delayLeft /\ sq'.hangLeft = sq.hangLeft
          /\ sq'.timeoutLeft = sq.timeoutLeft
      BY <1>1, <1>4, <2>1 DEF Squelches
    <2>3. Sound(sq)' /\ Waiting' /\ Waiting /\ sq'.startLeft > 0
      BY <1>1, <1>2, <1>9, <2>2 DEF Sound, Waiting
    <2>4. SquelchInv'
      BY <1>1, <1>2, <1>6, <1>7, <2>2, <2>3 DEF SquelchInv
    <2> QED BY <2>2, <2>4 DEF Kept
  <1>10. CASE sq.signal # d /\ sq.startLeft = 0
    <2>1. Signalled(sq, r, d) /\ Sound(r) /\ Fitting(r)
      <3>1. r = SetSignalDetectedP(p, sq, d)
        BY <1>10, Zenon DEF r, SetSignalDetected
      <3> QED BY <1>1, <1>10, <3>1, SignalledFact, Bounds
    <2>2. Sound(sq)' /\ Fitting(sq)' /\ sq'.startLeft = 0 /\ (Waiting <=> ~live)
          /\ (Waiting' <=> Waiting)
      BY <1>1, <1>2, <1>4, <1>10, <2>1 DEF Sound, Fitting, Signalled, Waiting, Squelches
    <2>3. sq'.delayLeft > 0 => sq'.delayLeft = p.delay /\ steady' \in Nat
      BY <1>1, <1>4, <1>5, <1>10, <2>1, Bounds DEF SquelchInv, Fitting, Signalled, Squelches
    <2>4. sq'.hangLeft > 0 => sq'.hangLeft \in {p.hang, p.extHang} /\ quiet' \in Nat
      BY <1>1, <1>4, <1>5, <1>10, <2>1, Bounds DEF SquelchInv, Fitting, Signalled, Squelches
    <2>5. (sq.open /\ sq.timeoutLeft > 0 => openFor + sq.timeoutLeft <= p.timeout)'
      BY <1>1, <1>2, <1>4, <1>5, <1>6, <1>10, <2>1, Bounds DEF SquelchInv, Signalled, Squelches
    <2>6. SquelchInv'
      BY <1>1, <1>2, <1>7, <2>2, <2>3, <2>4, <2>5, Bounds DEF SquelchInv
    <2> QED BY <1>1, <1>4, <1>5, <1>10, <2>1, <2>6, Bounds DEF Kept, Signalled, Squelches
  <1> QED BY <1>1, <1>8, <1>9, <1>10 DEF Squelches

\* Changes of the level, reset and restart.
LEMMA OtherSteps ==
    ASSUME SquelchInv, SquelchReset \/ Unmute \/ (\E isLow \in BOOLEAN : SignalLevel(isLow))
    PROVE  SquelchInv' /\ Kept
  <1>1. SquelchTypeOK /\ sq \in Squelches /\ Sound(sq)
    BY DEF SquelchInv, SquelchTypeOK
  <1>2. ASSUME NEW isLow \in BOOLEAN, SignalLevel(isLow)
        PROVE  SquelchInv' /\ Kept
    <2>1. /\ sq' \in Squelches /\ sq'.open = sq.open /\ sq'.signal = sq.signal
          /\ sq'.startLeft = sq.startLeft /\ sq'.delayLeft = sq.delayLeft
          /\ sq'.hangLeft = sq.hangLeft /\ sq'.timeoutLeft = sq.timeoutLeft
      <3>1. sq' = [sq EXCEPT !.extended = isLow]
        BY <1>2 DEF SignalLevel, EnableExtendedHangtime
      <3>2. sq' \in Squelches
        BY <1>1, <3>1, Zenon DEF Squelches
      <3> QED BY <1>1, <3>1, <3>2 DEF Squelches
    <2>2. UNCHANGED <<p, events, live, steady, quiet, openFor>>
      BY <1>2 DEF SignalLevel, config
    <2> QED BY <1>1, <2>1, <2>2 DEF SquelchInv, SquelchTypeOK, Sound, Fitting, Waiting, Kept
  <1>3. CASE SquelchReset
    <2>1. /\ sq' \in Squelches /\ ~sq'.open /\ ~sq'.signal /\ sq'.startLeft = p.start
          /\ sq'.delayLeft = 0 /\ sq'.hangLeft = 0 /\ sq'.timeoutLeft = -1
          /\ sq' = Reset(p, sq)
      <3>1. sq' = [Created EXCEPT !.startLeft = p.start]
        BY <1>3 DEF SquelchReset, Reset
      <3>2. sq' \in Squelches
        BY <1>1, <3>1, Bounds, Zenon DEF Squelches, Created, Emissions
      <3> QED BY <1>3, <3>1, <3>2 DEF Squelches, Created, SquelchReset
    <2>2. UNCHANGED <<p, events>> /\ live' \in BOOLEAN /\ Count(0, 0)
      BY <1>1, <1>3 DEF SquelchReset, config, SquelchTypeOK
    <2>3. /\ steady' \in 0 .. MAX_COUNT /\ quiet' \in 0 .. MAX_COUNT
          /\ openFor' \in 0 .. MAX_COUNT
      BY <1>1, <2>1, <2>2, CountFact
    <2> QED
      BY <1>1, <2>1, <2>2, <2>3, Bounds
         DEF SquelchInv, SquelchTypeOK, Sound, Fitting, Waiting, Kept
  <1>4. CASE Unmute
    <2>1. /\ sq' \in Squelches /\ sq'.open = sq.open /\ sq'.signal = sq.signal
          /\ sq'.startLeft = p.start
          /\ sq'.delayLeft = sq.delayLeft
          /\ sq'.hangLeft = sq.hangLeft /\ sq'.timeoutLeft = sq.timeoutLeft
      <3>1. sq' = [sq EXCEPT !.startLeft = p.start]
        BY <1>4 DEF Unmute, Restart
      <3>2. sq' \in Squelches
        BY <1>1, <3>1, Bounds, Zenon DEF Squelches
      <3> QED BY <1>1, <3>1, <3>2 DEF Squelches
    <2>2. UNCHANGED <<p, events, steady, quiet, openFor>> /\ ~live /\ live'
      BY <1>4 DEF Unmute, config
    <2>3. SquelchTypeOK' /\ Sound(sq)'
      BY <1>1, <2>1, <2>2 DEF SquelchTypeOK, Sound
    <2>4. sq.startLeft <= p.start /\ Waiting /\ (Waiting' <=> p.start > 0)
      BY <2>1, <2>2 DEF SquelchInv, Waiting
    <2>5. p.start = 0 => sq.startLeft = 0
      BY <1>1, <2>4, Bounds DEF Squelches
    <2>6. steady \in Nat /\ quiet \in Nat
      BY <1>1, Bounds DEF SquelchTypeOK
    <2> QED BY <1>1, <2>1, <2>2, <2>3, <2>4, <2>5, <2>6, Bounds DEF SquelchInv, Fitting, Kept
  <1> QED BY <1>2, <1>3, <1>4

\* Every step keeps the invariant and the delays.
LEMMA InvStep == SquelchInv /\ SquelchNext => SquelchInv' /\ Kept
  <1> SUFFICES ASSUME SquelchInv, SquelchNext PROVE SquelchInv' /\ Kept
    OBVIOUS
  <1>1. ASSUME NEW n \in 1 .. MAX_BLOCK, NEW d \in BOOLEAN, SamplesWritten(n, d)
        PROVE  SquelchInv' /\ Kept
    <2>1. n \in Nat \ {0} /\ sq \in Squelches
      BY Bounds DEF SquelchInv, SquelchTypeOK
    <2>2. sq.startLeft > n \/ sq.startLeft <= n
      BY <2>1 DEF Squelches
    <2> QED BY <1>1, <2>1, <2>2, DeafBlock, HeardBlock
  <1>2. ASSUME NEW d \in BOOLEAN, SignalEvent(d)
        PROVE  SquelchInv' /\ Kept
    BY <1>2, EventStep
  <1>3. CASE SquelchReset \/ Unmute \/ (\E isLow \in BOOLEAN : SignalLevel(isLow))
    BY <1>3, OtherSteps
  <1> QED BY <1>1, <1>2, <1>3, Zenon DEF SquelchNext

\* A step that changes nothing keeps the invariant.
LEMMA InvStutter == SquelchInv /\ UNCHANGED squelchVars => SquelchInv'
  BY DEF squelchVars, config, SquelchInv, SquelchTypeOK, Sound, Fitting, Waiting

\* The invariant holds throughout.
LEMMA AlwaysInv == SquelchSpec => []SquelchInv
  BY InitInv, InvStep, InvStutter, PTL DEF SquelchSpec

\* In every state the counters of the squelch fit what is detected, and with a time-out it
\* has not been open for longer than that (Squelch.cpp, Squelch.h).
THEOREM SquelchAlwaysFits == SquelchSpec => []SquelchSound
  <1>1. SquelchInv => SquelchTypeOK /\ TimersFit
    BY DEF SquelchInv, Sound, Fitting, TimersFit
  <1>2. SquelchInv => NeverOpenTooLong
    <2> SUFFICES ASSUME SquelchInv, p.timeout > 0, IsOpen(sq) PROVE openFor < p.timeout
      BY DEF NeverOpenTooLong
    <2>1. sq.open /\ sq.timeoutLeft \in Nat /\ sq.timeoutLeft > 0 /\ openFor \in Nat
      <3>1. SquelchTypeOK /\ sq \in Squelches
        BY DEF SquelchInv, SquelchTypeOK
      <3> QED BY <3>1, Bounds DEF SquelchInv, Sound, IsOpen, Squelches, SquelchTypeOK
    <2>2. openFor + sq.timeoutLeft <= p.timeout /\ p.timeout \in Int
      BY <2>1, Bounds DEF SquelchInv
    <2> QED BY <2>1, <2>2
  <1>3. SquelchInv => SquelchSound
    BY <1>1, <1>2 DEF SquelchSound
  <1> QED BY <1>3, AlwaysInv, PTL

\* No step opens the squelch before the delay, or closes it before the hang time, has
\* passed (Squelch::setSignalDetectedP, writeSamples).
THEOREM DelaysAlwaysKept == SquelchSpec => DelaysKept
  <1>1. SquelchInv /\ [SquelchNext]_squelchVars =>
          [/\ ~sq.open /\ sq'.open => steady' >= p.delay
           /\ sq.open /\ ~sq'.open /\ sq' # Reset(p, sq) =>
                quiet' >= p.hang \/ quiet' >= p.extHang]_squelchVars
    BY InvStep, Zenon DEF Kept
  <1> QED BY <1>1, AlwaysInv, PTL DEF SquelchSpec, DelaysKept

----------------------------------------------------------------------------
(***************************************************************************)
(* Induction on numbers, by the smallest of a family of sets.              *)
(***************************************************************************)
(* Some set of a family of subsets of a finite set has no smaller one in the family. *)
LEMMA SmallestSet ==
    ASSUME NEW S, IsFiniteSet(S), NEW F, F \subseteq SUBSET S, F # {}
    PROVE  \E T \in F : \A U \in F : U \subseteq T => U = T
<1>1. IsWellFoundedOn(StrictSubsetOrdering(S), SUBSET S)
  BY FS_StrictSubsetOrderingWellFounded, FS_FiniteSubsetsOfFinite
<1>2. PICK T \in F : \A U \in F : <<U, T>> \notin StrictSubsetOrdering(S)
  BY <1>1, WFMin
<1> QED  BY <1>2 DEF StrictSubsetOrdering

(* Induction up to n, for a set T of numbers: the smallest of the intervals that *)
(* reach a number outside T would reach a smaller one.                           *)
LEMMA InductUpTo ==
    ASSUME NEW n \in Nat, NEW T, 0 \in T, \A k \in 0 .. n - 1 : k \in T => k + 1 \in T
    PROVE  0 .. n \subseteq T
<1> DEFINE S == 0 .. n
           F == {0 .. k : k \in S \ T}
<1>1. SUFFICES ASSUME NEW j \in S \ T PROVE FALSE
  OBVIOUS
<1>2. IsFiniteSet(S) /\ F \subseteq SUBSET S /\ F # {}
  <2>1. IsFiniteSet(S)
    BY FS_Interval
  <2>2. \A k \in S : 0 .. k \subseteq S
    OBVIOUS
  <2> HIDE DEF S
  <2> QED  BY <2>1, <2>2
<1>3. PICK U \in F : \A V \in F : V \subseteq U => V = U
  <2> HIDE DEF S, F
  <2> QED  BY <1>2, SmallestSet
<1>4. PICK k \in S \ T : U = 0 .. k
  BY <1>3
<1>5. k # 0 /\ k - 1 \in 0 .. n - 1 /\ k - 1 \in S \ T
  BY <1>4
<1>6. 0 .. k - 1 \in F /\ 0 .. k - 1 \subseteq U /\ k \in U /\ k \notin 0 .. k - 1
  BY <1>4, <1>5
<1> QED  BY <1>3, <1>6

----------------------------------------------------------------------------
(***************************************************************************)
(* What an operation of a squelch emits fits what it has become.           *)
(***************************************************************************)
Emits(q, r) ==
    /\ r \in Squelches
    /\ r.out = "none" => (IsOpen(r) <=> IsOpen(q))
    /\ r.out = "open" => IsOpen(r)
    /\ r.out = "closed" => ~IsOpen(r)

\* A squelch between two stages: what it has emitted was taken.
Silent(q) == q \in Squelches /\ q.out = "none"

\* The opening or closing of a squelch is emitted.
LEMMA SetOpenEmits ==
    ASSUME NEW c \in Parameters, NEW q, NEW r \in Squelches, NEW b \in BOOLEAN
    PROVE  Emits(q, SetOpen(c, r, b)) /\ SetOpen(c, r, b).signal = r.signal
  <1>1. SetOpen(c, r, b) \in Squelches
    BY SignalType
  <1>2. c.timeout # 0
    BY DEF Parameters
  <1> QED BY <1>1, <1>2 DEF Emits, SetOpen, IsOpen, Squelches

\* A change of the counters emits nothing.
LEMMA CountersEmit ==
    ASSUME NEW q, Silent(q), NEW r \in Squelches,
           r.open = q.open, r.timeoutLeft = q.timeoutLeft, r.out = q.out
    PROVE  Emits(q, r)
  BY DEF Emits, IsOpen, Silent

\* A new signal.
LEMMA SignalEmits ==
    ASSUME NEW c \in Parameters, NEW q, Silent(q), NEW b \in BOOLEAN
    PROVE  Emits(q, SetSignalDetectedP(c, q, b)) /\ SetSignalDetectedP(c, q, b).signal = b
  <1>1. PICK r : r = [q EXCEPT !.signal = b]
    OBVIOUS
  <1>2. r \in Squelches
    BY <1>1, Zenon DEF Squelches, Silent
  <1>3. /\ r.open = q.open /\ r.timeoutLeft = q.timeoutLeft /\ r.out = q.out /\ r.signal = b
        /\ r.extended = q.extended
    BY <1>1 DEF Squelches, Silent
  <1>4. CASE q.startLeft > 0
    <2>1. SetSignalDetectedP(c, q, b) = r
      BY <1>1, <1>4 DEF SetSignalDetectedP, Squelches, Silent
    <2> QED BY <1>2, <1>3, <2>1, CountersEmit
  <1>5. CASE ~(q.startLeft > 0) /\ b
    <2>1. SetSignalDetectedP(c, q, b) = Detected(c, r)
      BY <1>1, <1>5 DEF SetSignalDetectedP, Squelches, Silent
    <2>2. PICK d : d = [r EXCEPT !.hangLeft = 0]
      OBVIOUS
    <2>3. /\ d \in Squelches
          /\ d.open = q.open /\ d.timeoutLeft = q.timeoutLeft /\ d.out = q.out /\ d.signal = b
      BY <1>2, <1>3, <2>2 DEF Squelches
    <2>4. PICK e : e = [d EXCEPT !.delayLeft = c.delay]
      OBVIOUS
    <2>5. /\ e \in Squelches
          /\ e.open = q.open /\ e.timeoutLeft = q.timeoutLeft /\ e.out = q.out /\ e.signal = b
      <3>1. c.delay \in Nat
        BY DEF Parameters
      <3> QED BY <2>3, <2>4, <3>1 DEF Squelches
    <2>6. Detected(c, r) \in {d, SetOpen(c, d, TRUE), e}
      BY <2>2, <2>4 DEF Detected
    <2>7. /\ Emits(q, d) /\ d.signal = b
          /\ Emits(q, e) /\ e.signal = b
      BY <2>3, <2>5, CountersEmit
    <2>8. Emits(q, SetOpen(c, d, TRUE)) /\ SetOpen(c, d, TRUE).signal = b
      BY <2>3, SetOpenEmits
    <2> QED BY <2>1, <2>6, <2>7, <2>8
  <1>6. CASE ~(q.startLeft > 0) /\ ~b
    <2>1. SetSignalDetectedP(c, q, b) = Lost(c, r)
      BY <1>1, <1>6 DEF SetSignalDetectedP, Squelches, Silent
    <2>2. PICK d : d = [r EXCEPT !.delayLeft = 0]
      OBVIOUS
    <2>3. /\ d \in Squelches
          /\ d.open = q.open /\ d.timeoutLeft = q.timeoutLeft /\ d.out = q.out /\ d.signal = b
      BY <1>2, <1>3, <2>2 DEF Squelches
    <2>4. PICK e : e = [d EXCEPT !.hangLeft = CurrentHangtime(c, r)]
      OBVIOUS
    <2>5. /\ e \in Squelches
          /\ e.open = q.open /\ e.timeoutLeft = q.timeoutLeft /\ e.out = q.out /\ e.signal = b
      <3>1. CurrentHangtime(c, r) \in Nat
        BY DEF Parameters, CurrentHangtime
      <3> QED BY <2>3, <2>4, <3>1 DEF Squelches
    <2>6. Lost(c, r) \in {d, SetOpen(c, d, FALSE), e}
      BY <2>2, <2>4 DEF Lost
    <2>7. /\ Emits(q, d) /\ d.signal = b
          /\ Emits(q, e) /\ e.signal = b
      BY <2>3, <2>5, CountersEmit
    <2>8. Emits(q, SetOpen(c, d, FALSE)) /\ SetOpen(c, d, FALSE).signal = b
      BY <2>3, SetOpenEmits
    <2> QED BY <2>1, <2>6, <2>7, <2>8
  <1> QED BY <1>4, <1>5, <1>6

\* The subclass reports what it has detected.
LEMMA DetectionEmits ==
    ASSUME NEW c \in Parameters, NEW q, Silent(q), NEW b \in BOOLEAN
    PROVE  Emits(q, SetSignalDetected(c, q, b)) /\ SetSignalDetected(c, q, b).signal = b
  <1>1. Emits(q, q)
    BY CountersEmit DEF Silent
  <1> QED BY <1>1, SignalEmits DEF SetSignalDetected

\* The stages of WriteSamples do not change the signal.
LEMMA StagesEmit ==
    ASSUME NEW c \in Parameters, NEW q, Silent(q), NEW n \in Nat
    PROVE  /\ Emits(q, TimeoutStage(q, n)) /\ TimeoutStage(q, n).signal = q.signal
           /\ Emits(q, StartStage(c, q, n)) /\ StartStage(c, q, n).signal = q.signal
           /\ Emits(q, DelayStage(c, q, n)) /\ DelayStage(c, q, n).signal = q.signal
           /\ Emits(q, HangStage(c, q, n)) /\ HangStage(c, q, n).signal = q.signal
  <1>1. Emits(q, q) /\ q \in Squelches
    BY CountersEmit DEF Silent
  <1>2. Emits(q, TimeoutStage(q, n)) /\ TimeoutStage(q, n).signal = q.signal
    <2>1. CASE q.timeoutLeft <= 0
      BY <1>1, <2>1 DEF TimeoutStage
    <2>2. CASE q.timeoutLeft > n
      <3>1. PICK r : r = [q EXCEPT !.timeoutLeft = @ - n]
        OBVIOUS
      <3>2. r \in Squelches /\ r.signal = q.signal /\ r.open = q.open /\ r.out = q.out
            /\ r.timeoutLeft # 0 /\ q.timeoutLeft # 0
        BY <1>1, <2>2, <3>1 DEF Squelches
      <3>3. TimeoutStage(q, n) = r
        BY <1>1, <2>2, <3>1 DEF TimeoutStage, Squelches
      <3> QED BY <3>2, <3>3 DEF Emits, IsOpen, Silent
    <2>3. CASE 0 < q.timeoutLeft /\ q.timeoutLeft <= n
      <3>1. PICK r : r = [q EXCEPT !.timeoutLeft = 0, !.out = "closed"]
        OBVIOUS
      <3>2. r \in Squelches /\ r.signal = q.signal /\ r.out = "closed" /\ r.timeoutLeft = 0
        BY <1>1, <3>1 DEF Squelches, Emissions
      <3>3. TimeoutStage(q, n) = r
        BY <1>1, <2>3, <3>1 DEF TimeoutStage, Squelches
      <3> QED BY <3>2, <3>3 DEF Emits, IsOpen
    <2> QED BY <1>1, <2>1, <2>2, <2>3 DEF Squelches
  <1>3. \A left \in Nat : Rest(left, n) \in Nat
    BY DEF Rest
  <1>4. Emits(q, StartStage(c, q, n)) /\ StartStage(c, q, n).signal = q.signal
    <2>1. PICK r : r = [q EXCEPT !.startLeft = Rest(@, n)]
      OBVIOUS
    <2>2. /\ r \in Squelches /\ r.signal = q.signal
          /\ r.open = q.open /\ r.timeoutLeft = q.timeoutLeft /\ r.out = q.out
      BY <1>1, <1>3, <2>1 DEF Squelches
    <2>3. Silent(r) /\ Emits(q, r) /\ r.signal \in BOOLEAN
      BY <2>2, CountersEmit DEF Silent, Squelches
    <2>4. Emits(r, SetSignalDetectedP(c, r, r.signal))
          /\ SetSignalDetectedP(c, r, r.signal).signal = r.signal
      BY <2>3, SignalEmits
    <2>5. Emits(q, SetSignalDetectedP(c, r, r.signal))
      BY <2>2, <2>4 DEF Emits, IsOpen
    <2>6. StartStage(c, q, n) \in {q, r, SetSignalDetectedP(c, r, r.signal)}
      BY <2>1 DEF StartStage
    <2> QED BY <1>1, <2>2, <2>3, <2>4, <2>5, <2>6
  <1>5. Emits(q, DelayStage(c, q, n)) /\ DelayStage(c, q, n).signal = q.signal
    <2>1. PICK r : r = [q EXCEPT !.delayLeft = Rest(@, n)]
      OBVIOUS
    <2>2. /\ r \in Squelches /\ r.signal = q.signal
          /\ r.open = q.open /\ r.timeoutLeft = q.timeoutLeft /\ r.out = q.out
      BY <1>1, <1>3, <2>1 DEF Squelches
    <2>3. DelayStage(c, q, n) \in {q, r, SetOpen(c, r, TRUE)}
      BY <2>1 DEF DelayStage
    <2> QED BY <1>1, <2>2, <2>3, CountersEmit, SetOpenEmits
  <1>6. Emits(q, HangStage(c, q, n)) /\ HangStage(c, q, n).signal = q.signal
    <2>1. PICK r : r = [q EXCEPT !.hangLeft = Rest(@, n)]
      OBVIOUS
    <2>2. /\ r \in Squelches /\ r.signal = q.signal
          /\ r.open = q.open /\ r.timeoutLeft = q.timeoutLeft /\ r.out = q.out
      BY <1>1, <1>3, <2>1 DEF Squelches
    <2>3. HangStage(c, q, n) \in {q, r, SetOpen(c, r, FALSE)}
      BY <2>1 DEF HangStage
    <2> QED BY <1>1, <2>2, <2>3, CountersEmit, SetOpenEmits
  <1> QED BY <1>2, <1>4, <1>5, <1>6

----------------------------------------------------------------------------
(***************************************************************************)
(* The expression: the value of a node, given those of its children, which *)
(* come after it.                                                          *)
(***************************************************************************)
NodeValue(s, f, i) ==
    CASE NODES[i].op = "leaf" -> IsOpen(s.sq[NODES[i].leaf])
      [] NODES[i].op = "not"  -> ~f[NODES[i].left]
      [] NODES[i].op = "and"  -> f[NODES[i].left] /\ f[NODES[i].right]
      [] OTHER                -> f[NODES[i].left] \/ f[NODES[i].right]

\* What a node emits, given what its operand emits.
NodeEmits(s, b, f, i) ==
    IF NODES[i].op = "leaf" THEN b
    ELSE IF NODES[i].op = "not" THEN f[NODES[i].left]
    ELSE NodeIsOpen(s)[i]

Last == Len(NODES)

\* What the assumption says of the nodes.
LEMMA NodesFact ==
    /\ DOMAIN NODES = 1 .. Last /\ Last \in Nat /\ 1 \in DOMAIN NODES
    /\ \A i \in 1 .. Last : NODES[i].op \in {"leaf", "not", "and", "or"}
    /\ \A i \in 1 .. Last : NODES[i].op = "leaf" => NODES[i].leaf \in Leaves
    /\ \A i \in 1 .. Last : NODES[i].op # "leaf" => NODES[i].left \in i + 1 .. Last
    /\ \A i \in 1 .. Last : NODES[i].op \in {"and", "or"} => NODES[i].right \in i + 1 .. Last
  <1>1. DOMAIN NODES = 1 .. Last /\ Last \in Nat /\ Last # 0
    BY LocalRxAssumption DEF Last
  <1>2. \A i \in 1 .. Last : NODES[i] \in Nodes
    BY <1>1, LocalRxAssumption
  <1>3. /\ \A i \in 1 .. Last : NODES[i].op \in {"leaf", "not", "and", "or"}
        /\ \A i \in 1 .. Last : NODES[i].op = "leaf" => NODES[i].leaf \in Leaves
    BY <1>2 DEF Nodes
  <1> QED BY <1>1, <1>3, LocalRxAssumption DEF Last

\* Only the values of the children matter, and the leaves.
LEMMA ChildrenValue ==
    ASSUME NEW i \in 1 .. Last, NEW f, NEW g, \A k \in i + 1 .. Last : f[k] = g[k],
           NEW s, NEW t, \A l \in Leaves : IsOpen(s.sq[l]) = IsOpen(t.sq[l])
    PROVE  NodeValue(s, f, i) = NodeValue(t, g, i)
  BY NodesFact DEF NodeValue

\* The value of a node depends on the nodes after it,
LEMMA ChildrenOnly ==
    ASSUME NEW i \in 1 .. Last, NEW f, NEW g, \A k \in i + 1 .. Last : f[k] = g[k], NEW s
    PROVE  NodeValue(s, f, i) = NodeValue(s, g, i)
  BY NodesFact DEF NodeValue

\* and so does what it emits.
LEMMA ChildrenEmit ==
    ASSUME NEW i \in 1 .. Last, NEW f, NEW g, \A k \in i + 1 .. Last : f[k] = g[k],
           NEW s, NEW b
    PROVE  NodeEmits(s, b, f, i) = NodeEmits(s, b, g, i)
  BY NodesFact DEF NodeEmits

\* The values exist, by induction from the last node to the first.
LEMMA ValuesExist ==
    ASSUME NEW s
    PROVE  \E f : f = [i \in DOMAIN NODES |-> NodeValue(s, f, i)]
  <1> DEFINE P(j) == \E f : f = [i \in Last - j + 1 .. Last |-> NodeValue(s, f, i)]
             T == {j \in 0 .. Last : P(j)}
  <1>1. P(0)
    <2> DEFINE f == [i \in Last - 0 + 1 .. Last |-> FALSE]
    <2>1. Last - 0 + 1 .. Last = {}
      BY NodesFact
    <2>2. f = [i \in Last - 0 + 1 .. Last |-> NodeValue(s, f, i)]
      BY <2>1
    <2> QED BY <2>2
  <1>2. ASSUME NEW j \in 0 .. Last - 1, P(j) PROVE P(j + 1)
    <2>1. PICK f : f = [i \in Last - j + 1 .. Last |-> NodeValue(s, f, i)]
      BY <1>2
    <2> DEFINE D == Last - (j + 1) + 1 .. Last
               g == [i \in D |-> IF i = Last - j THEN NodeValue(s, f, i) ELSE f[i]]
    <2>2. \A i \in D : i \in 1 .. Last /\ (i = Last - j \/ i \in Last - j + 1 .. Last)
      BY NodesFact
    <2>3. \A i \in D : g[i] = NodeValue(s, f, i)
      BY <2>1, <2>2
    <2>4. \A i \in D : \A k \in i + 1 .. Last : k \in D /\ k # Last - j /\ g[k] = f[k]
      BY NodesFact
    <2>5. \A i \in D : NodeValue(s, f, i) = NodeValue(s, g, i)
      <3> HIDE DEF g, D
      <3> QED BY <2>2, <2>4, ChildrenOnly
    <2>6. g = [i \in D |-> g[i]]
      OBVIOUS
    <2> HIDE DEF g
    <2>7. g = [i \in D |-> NodeValue(s, g, i)]
      BY <2>3, <2>5, <2>6
    <2> QED BY <2>7
  <1>3. 0 \in T /\ \A j \in 0 .. Last - 1 : j \in T => j + 1 \in T
    BY <1>1, <1>2, NodesFact
  <1> HIDE DEF P
  <1>4. 0 .. Last \subseteq T
    <2> HIDE DEF T
    <2> QED BY <1>3, InductUpTo, NodesFact
  <1>5. P(Last)
    BY <1>4, NodesFact
  <1> QED BY <1>5, NodesFact DEF P

\* So do the emissions.
LEMMA EmissionsExist ==
    ASSUME NEW s, NEW b
    PROVE  \E f : f = [i \in DOMAIN NODES |-> NodeEmits(s, b, f, i)]
  <1> DEFINE P(j) == \E f : f = [i \in Last - j + 1 .. Last |-> NodeEmits(s, b, f, i)]
             T == {j \in 0 .. Last : P(j)}
  <1>1. P(0)
    <2> DEFINE f == [i \in Last - 0 + 1 .. Last |-> FALSE]
    <2>1. Last - 0 + 1 .. Last = {}
      BY NodesFact
    <2>2. f = [i \in Last - 0 + 1 .. Last |-> NodeEmits(s, b, f, i)]
      BY <2>1
    <2> QED BY <2>2
  <1>2. ASSUME NEW j \in 0 .. Last - 1, P(j) PROVE P(j + 1)
    <2>1. PICK f : f = [i \in Last - j + 1 .. Last |-> NodeEmits(s, b, f, i)]
      BY <1>2
    <2> DEFINE D == Last - (j + 1) + 1 .. Last
               g == [i \in D |-> IF i = Last - j THEN NodeEmits(s, b, f, i) ELSE f[i]]
    <2>2. \A i \in D : i \in 1 .. Last /\ (i = Last - j \/ i \in Last - j + 1 .. Last)
      BY NodesFact
    <2>3. \A i \in D : g[i] = NodeEmits(s, b, f, i)
      BY <2>1, <2>2
    <2>4. \A i \in D : \A k \in i + 1 .. Last : k \in D /\ k # Last - j /\ g[k] = f[k]
      BY NodesFact
    <2>5. \A i \in D : NodeEmits(s, b, f, i) = NodeEmits(s, b, g, i)
      <3> HIDE DEF g, D
      <3> QED BY <2>2, <2>4, ChildrenEmit
    <2>6. g = [i \in D |-> g[i]]
      OBVIOUS
    <2> HIDE DEF g
    <2>7. g = [i \in D |-> NodeEmits(s, b, g, i)]
      BY <2>3, <2>5, <2>6
    <2> QED BY <2>7
  <1>3. 0 \in T /\ \A j \in 0 .. Last - 1 : j \in T => j + 1 \in T
    BY <1>1, <1>2, NodesFact
  <1> HIDE DEF P
  <1>4. 0 .. Last \subseteq T
    <2> HIDE DEF T
    <2> QED BY <1>3, InductUpTo, NodesFact
  <1>5. P(Last)
    BY <1>4, NodesFact
  <1> QED BY <1>5, NodesFact DEF P

\* The equations of the two recursive functions.
LEMMA NodesAre ==
    ASSUME NEW s
    PROVE  NodeIsOpen(s) = [i \in DOMAIN NODES |-> NodeValue(s, NodeIsOpen(s), i)]
  <1> DEFINE f == CHOOSE g : g = [i \in DOMAIN NODES |-> NodeValue(s, g, i)]
  <1>1. NodeIsOpen(s) = f
    BY DEF NodeIsOpen, NodeValue
  <1>2. f = [i \in DOMAIN NODES |-> NodeValue(s, f, i)]
    BY ValuesExist
  <1> QED BY <1>1, <1>2

\* A root that is no negation emits what it is.
LEMMA RootEmitsValue ==
    ASSUME NODES[1].op # "not", NEW s, NEW b
    PROVE  RootEmits(s, b) = IF NODES[1].op = "leaf" THEN b ELSE NodeIsOpen(s)[1]
  <1> DEFINE f == CHOOSE g : g = [i \in DOMAIN NODES |-> NodeEmits(s, b, g, i)]
  <1>1. RootEmits(s, b) = f[1]
    BY DEF RootEmits, NodeEmits
  <1>2. f = [i \in DOMAIN NODES |-> NodeEmits(s, b, f, i)]
    BY EmissionsExist
  <1> HIDE DEF f
  <1>3. f[1] = NodeEmits(s, b, f, 1)
    BY <1>2, NodesFact
  <1> QED BY <1>1, <1>3, NodesFact DEF NodeEmits

\* Nodes are open or not.
LEMMA NodesAreBoolean == ASSUME NEW s PROVE \A i \in DOMAIN NODES : NodeIsOpen(s)[i] \in BOOLEAN
  <1>1. \A i \in DOMAIN NODES : NodeIsOpen(s)[i] = NodeValue(s, NodeIsOpen(s), i)
    <2> DEFINE f == NodeIsOpen(s)
    <2> HIDE DEF f
    <2>1. f = [i \in DOMAIN NODES |-> NodeValue(s, f, i)]
      BY NodesAre DEF f
    <2> QED BY <2>1 DEF f
  <1>2. ASSUME NEW f, NEW i \in DOMAIN NODES PROVE NodeValue(s, f, i) \in BOOLEAN
    BY NodesFact DEF NodeValue, IsOpen
  <1> QED BY <1>1, <1>2

\* Whether the nodes are open depends on whether the leaves are.
LEMMA LeavesDecide ==
    ASSUME NEW s, NEW t, \A l \in Leaves : IsOpen(s.sq[l]) = IsOpen(t.sq[l])
    PROVE  \A i \in DOMAIN NODES : NodeIsOpen(s)[i] = NodeIsOpen(t)[i]
  <1> DEFINE f == NodeIsOpen(s)
             g == NodeIsOpen(t)
             T == {j \in 0 .. Last : \A i \in Last - j + 1 .. Last : f[i] = g[i]}
  <1> HIDE DEF f, g
  <1>1. \A i \in 1 .. Last : f[i] = NodeValue(s, f, i) /\ g[i] = NodeValue(t, g, i)
    <2>1. f = [i \in DOMAIN NODES |-> NodeValue(s, f, i)]
      BY NodesAre DEF f
    <2>2. g = [i \in DOMAIN NODES |-> NodeValue(t, g, i)]
      BY NodesAre DEF g
    <2> QED BY <2>1, <2>2, NodesFact
  <1>2. 0 \in T
    BY NodesFact
  <1>3. ASSUME NEW j \in 0 .. Last - 1, j \in T PROVE j + 1 \in T
    <2> DEFINE k == Last - j
    <2>1. k \in 1 .. Last /\ \A i \in k + 1 .. Last : f[i] = g[i]
      BY <1>3, NodesFact
    <2>2. f[k] = g[k]
      <3> HIDE DEF k
      <3> QED BY <1>1, <2>1, ChildrenValue
    <2>3. \A i \in Last - (j + 1) + 1 .. Last : i = k \/ i \in k + 1 .. Last
      BY NodesFact
    <2> QED BY <2>1, <2>2, <2>3, NodesFact
  <1>4. 0 .. Last \subseteq T
    <2> HIDE DEF T
    <2> QED BY <1>2, <1>3, InductUpTo, NodesFact
  <1>5. \A i \in Last - Last + 1 .. Last : f[i] = g[i]
    BY <1>4, NodesFact
  <1> QED BY <1>5, NodesFact DEF f, g

----------------------------------------------------------------------------
(***************************************************************************)
(* The receiver.  Squelches and receiver have their types, and between two *)
(* steps of the code all that the squelches have emitted was taken.        *)
(***************************************************************************)
Shape(s) ==
    /\ s = [sq |-> s.sq, rx |-> s.rx]
    /\ s.sq \in [Names -> Squelches] /\ \A q \in Names : Silent(s.sq[q])
    /\ s.rx \in Receivers

\* Muted, a receiver lets nothing through, and reports nothing if all is muted.
Hushed(x) ==
    /\ x.mute # "NONE" => ~x.valve
    /\ x.mute = "ALL" => ~x.reported

\* The receiver follows its squelch, or the history says that it does not; in particular
\* it says so of a squelch that is open while all is muted.
Faithful(x, heard) ==
    /\ Hushed(x)
    /\ ~x.slipped =>
        /\ x.valve <=> heard /\ x.mute = "NONE"
        /\ heard => x.reported /\ x.mute # "ALL"
        /\ x.reported /\ ~heard => x.mute # "ALL" /\ x.stream = "FLUSHING"

Running(s) == Shape(s) /\ Faithful(s.rx, IsOpen(s.sq[Top]))

\* The combining squelch follows its expression.
Combined(s) == s.rx.told => (s.sq[Top].signal <=> NodeIsOpen(s)[1])

Good(s) == Running(s) /\ Combined(s)

\* What a step of the receiver leaves alone, when s becomes t.
Apart(s, t) ==
    /\ \A l \in Leaves : t.sq[l] = s.sq[l]
    /\ t.rx.told = s.rx.told /\ t.rx.mute = s.rx.mute

LEMMA NamesFact == Top \in Names /\ Leaves \subseteq Names /\ Top \notin Leaves
  BY LocalRxAssumption DEF Names

\* A squelch takes the place of its old state, and what it emitted is taken.
LEMMA ReplacedOK ==
    ASSUME NEW s, Shape(s), NEW q \in Names, NEW r \in Squelches
    PROVE  LET t == [s EXCEPT !.sq[q] = [r EXCEPT !.out = "none"]] IN
           /\ Shape(t) /\ t.rx = s.rx
           /\ IsOpen(t.sq[q]) = IsOpen(r) /\ t.sq[q].signal = r.signal
           /\ \A u \in Names : u # q => t.sq[u] = s.sq[u]
  <1> DEFINE m == [r EXCEPT !.out = "none"]
             t == [s EXCEPT !.sq[q] = m]
  <1>1. m \in Squelches /\ m.out = "none" /\ IsOpen(m) = IsOpen(r) /\ m.signal = r.signal
    BY DEF Squelches, Emissions, IsOpen
  <1> HIDE DEF m
  <1>2. t.rx = s.rx /\ t.sq = [s.sq EXCEPT ![q] = m] /\ t = [sq |-> t.sq, rx |-> t.rx]
    BY DEF Shape
  <1> HIDE DEF t
  <1>3. t.sq[q] = m /\ \A u \in Names : u # q => t.sq[u] = s.sq[u]
    BY <1>2 DEF Shape
  <1>4. t.sq \in [Names -> Squelches]
    BY <1>1, <1>2 DEF Shape
  <1>5. Shape(t)
    BY <1>1, <1>2, <1>3, <1>4 DEF Shape, Silent
  <1> QED BY <1>1, <1>2, <1>3, <1>5 DEF t, m

\* The hang time is extended or not, which is heard by nobody.
LEMMA HangtimeOK ==
    ASSUME NEW s, Shape(s), NEW isLow \in BOOLEAN
    PROVE  LET t == SetSqlHangtimeFromSiglev(s, isLow) IN
           /\ Shape(t) /\ t.rx = s.rx
           /\ IsOpen(t.sq[Top]) = IsOpen(s.sq[Top]) /\ t.sq[Top].signal = s.sq[Top].signal
           /\ \A l \in Leaves : t.sq[l] = s.sq[l]
  <1> DEFINE e == isLow /\ s.rx.mute = "NONE"
             q == s.sq[Top]
             m == [q EXCEPT !.extended = e]
             t == [s EXCEPT !.sq[Top] = m]
  <1>1. SetSqlHangtimeFromSiglev(s, isLow) \in {s, t}
    BY DEF SetSqlHangtimeFromSiglev, EnableExtendedHangtime
  <1>2. Silent(q) /\ Top \in Names
    BY NamesFact DEF Shape
  <1>3. Silent(m) /\ IsOpen(m) = IsOpen(q) /\ m.signal = q.signal
    BY <1>2 DEF Silent, Squelches, IsOpen
  <1> HIDE DEF m
  <1>4. t.rx = s.rx /\ t.sq = [s.sq EXCEPT ![Top] = m] /\ t = [sq |-> t.sq, rx |-> t.rx]
    BY DEF Shape
  <1> HIDE DEF t
  <1>5. t.sq[Top] = m /\ \A u \in Names : u # Top => t.sq[u] = s.sq[u]
    BY <1>2, <1>4 DEF Shape
  <1>6. t.sq \in [Names -> Squelches]
    BY <1>3, <1>4 DEF Shape, Silent
  <1>7. Shape(t)
    BY <1>3, <1>4, <1>5, <1>6 DEF Shape
  <1> QED BY <1>1, <1>3, <1>4, <1>5, <1>7, NamesFact

\* A change of the receiver alone.
LEMMA ReceiverOK ==
    ASSUME NEW s, Shape(s), NEW x \in Receivers
    PROVE  LET t == [s EXCEPT !.rx = x] IN Shape(t) /\ t.sq = s.sq /\ t.rx = x
  BY DEF Shape

\* LocalRxBase::onSquelchOpen, when the squelch is as it says.
LEMMA OnSquelchOpenOK ==
    ASSUME NEW s, Shape(s), Hushed(s.rx), low \in BOOLEAN,
           NEW b \in BOOLEAN, IsOpen(s.sq[Top]) = b
    PROVE  LET t == OnSquelchOpen(s, b)
           IN  Running(t) /\ Apart(s, t) /\ t.sq[Top].signal = s.sq[Top].signal
  <1> DEFINE slip == IF s.rx.mute = "ALL" THEN b ELSE ~b /\ s.rx.valve /\ s.rx.idle
             u == [s EXCEPT !.rx.slipped = slip]
             t == OnSquelchOpen(s, b)
  <1> SUFFICES Running(t) /\ Apart(s, t) /\ t.sq[Top].signal = s.sq[Top].signal
    OBVIOUS
  <1> HIDE DEF t
  <1>1. /\ Slips(s, b) = u /\ Shape(u) /\ u.sq = s.sq
        /\ u.rx = [s.rx EXCEPT !.slipped = slip] /\ slip \in BOOLEAN
    <2>1. slip \in BOOLEAN /\ [s.rx EXCEPT !.slipped = slip] \in Receivers
      BY DEF Shape, Receivers
    <2>2. Slips(s, b) = u
      BY DEF Slips
    <2> HIDE DEF slip
    <2>3. u = [s EXCEPT !.rx = [s.rx EXCEPT !.slipped = slip]]
      BY DEF Shape
    <2> QED BY <2>1, <2>2, <2>3, ReceiverOK
  <1> HIDE DEF u
  <1>2. CASE s.rx.mute = "ALL"
    <2>1. t = u
      BY <1>1, <1>2 DEF OnSquelchOpen, t
    <2>2. Faithful(u.rx, b)
      BY <1>1, <1>2 DEF Faithful, Hushed, Shape, Receivers
    <2>3. Apart(s, u)
      BY <1>1 DEF Apart, Shape, Receivers
    <2> QED BY <1>1, <2>1, <2>2, <2>3 DEF Running
  <1>3. CASE s.rx.mute # "ALL" /\ b
    <2> DEFINE x == [u.rx EXCEPT !.reported = TRUE, !.valve = @ \/ u.rx.mute = "NONE"]
               v == [u EXCEPT !.rx = x]
    <2>1. x \in Receivers
      BY <1>1 DEF Shape, Receivers
    <2>2. Faithful(x, b) /\ x.told = s.rx.told /\ x.mute = s.rx.mute
      BY <1>1, <1>3 DEF Faithful, Hushed, Shape, Receivers
    <2>3. t = SetSqlHangtimeFromSiglev(v, low)
      <3>1. v = [u EXCEPT !.rx.reported = TRUE, !.rx.valve = @ \/ u.rx.mute = "NONE"]
        BY <1>1 DEF Shape
      <3> QED BY <1>1, <1>3, <3>1 DEF OnSquelchOpen, OpenReported, t
    <2> HIDE DEF x
    <2>4. Shape(v) /\ v.sq = u.sq /\ v.rx = x
      BY <1>1, <2>1, ReceiverOK
    <2> HIDE DEF v
    <2>5. /\ Shape(t) /\ t.rx = x /\ IsOpen(t.sq[Top]) = b
          /\ t.sq[Top].signal = s.sq[Top].signal
          /\ \A l \in Leaves : t.sq[l] = s.sq[l]
      <3>1. /\ Shape(t) /\ t.rx = v.rx /\ IsOpen(t.sq[Top]) = IsOpen(v.sq[Top])
            /\ t.sq[Top].signal = v.sq[Top].signal
            /\ \A l \in Leaves : t.sq[l] = v.sq[l]
        BY <2>3, <2>4, HangtimeOK
      <3>2. v.sq = s.sq /\ v.rx = x
        BY <1>1, <2>4
      <3> QED BY <3>1, <3>2
    <2> QED BY <2>2, <2>5 DEF Running, Apart
  <1>4. CASE s.rx.mute # "ALL" /\ ~b
    <2>1. t = CloseReported(u)
      BY <1>1, <1>4 DEF OnSquelchOpen, t
    <2>2. CASE u.rx.valve
      <3> DEFINE x == [u.rx EXCEPT !.valve = FALSE,
                                   !.stream = IF u.rx.idle THEN @ ELSE "FLUSHING"]
      <3>1. x \in Receivers
        BY <1>1 DEF Shape, Receivers
      <3>2. Faithful(x, b) /\ x.told = s.rx.told /\ x.mute = s.rx.mute
        BY <1>1, <1>4, <2>2 DEF Faithful, Hushed, Shape, Receivers
      <3>3. t = [u EXCEPT !.rx = x]
        BY <1>1, <2>1, <2>2 DEF CloseReported, CloseValve, Shape
      <3> HIDE DEF x
      <3>4. Shape(t) /\ t.sq = u.sq /\ t.rx = x
        BY <1>1, <3>1, <3>3, ReceiverOK
      <3> QED BY <1>1, <3>2, <3>4 DEF Running, Apart
    <2>3. CASE ~u.rx.valve
      <3> DEFINE x == [u.rx EXCEPT !.reported = FALSE]
      <3>1. x \in Receivers
        BY <1>1 DEF Shape, Receivers
      <3>2. Faithful(x, b) /\ x.told = s.rx.told /\ x.mute = s.rx.mute
        BY <1>1, <1>4, <2>3 DEF Faithful, Hushed, Shape, Receivers
      <3>3. t = [u EXCEPT !.rx = x]
        BY <1>1, <2>1, <2>3 DEF CloseReported, Shape
      <3> HIDE DEF x
      <3>4. Shape(t) /\ t.sq = u.sq /\ t.rx = x
        BY <1>1, <3>1, <3>3, ReceiverOK
      <3> QED BY <1>1, <3>2, <3>4 DEF Running, Apart
    <2> QED BY <2>2, <2>3
  <1> QED BY <1>2, <1>3, <1>4

\* The combining squelch becomes r, and the receiver follows.
LEMMA TopBecomesOK ==
    ASSUME NEW s, Running(s), low \in BOOLEAN, NEW r, Emits(s.sq[Top], r)
    PROVE  LET t == TopBecomes(s, r)
           IN  Running(t) /\ Apart(s, t) /\ t.sq[Top].signal = r.signal
  <1> DEFINE u == [s EXCEPT !.sq[Top] = [r EXCEPT !.out = "none"]]
             t == TopBecomes(s, r)
  <1> SUFFICES Running(t) /\ Apart(s, t) /\ t.sq[Top].signal = r.signal
    OBVIOUS
  <1>1. /\ Shape(u) /\ u.rx = s.rx
        /\ IsOpen(u.sq[Top]) = IsOpen(r) /\ u.sq[Top].signal = r.signal
        /\ \A l \in Leaves : u.sq[l] = s.sq[l]
    BY ReplacedOK, NamesFact DEF Running, Emits
  <1>2. t = IF r.out = "none" THEN u ELSE OnSquelchOpen(u, r.out = "open")
    BY DEF TopBecomes
  <1> HIDE DEF u, t
  <1>3. CASE r.out = "none"
    <2>1. IsOpen(u.sq[Top]) = IsOpen(s.sq[Top])
      BY <1>1, <1>3 DEF Emits, IsOpen, Silent, Squelches, Shape, Running
    <2> QED BY <1>1, <1>2, <1>3, <2>1 DEF Running, Apart
  <1>4. CASE r.out # "none"
    <2>1. r.out \in {"open", "closed"} /\ IsOpen(r) \in BOOLEAN
      BY <1>4 DEF Emits, IsOpen, Squelches, Emissions
    <2>2. IsOpen(u.sq[Top]) = (r.out = "open")
      BY <1>1, <2>1 DEF Emits
    <2>3. Hushed(u.rx)
      BY <1>1 DEF Running, Faithful
    <2>4. /\ Running(t) /\ Apart(u, t) /\ t.sq[Top].signal = u.sq[Top].signal
      BY <1>1, <1>2, <1>4, <2>2, <2>3, OnSquelchOpenOK
    <2> QED BY <1>1, <2>4 DEF Apart
  <1> QED BY <1>3, <1>4

\* A leaf has emitted, and the combination is told what the expression is.
LEMMA OnCombinedOK ==
    ASSUME NEW s, Running(s), low \in BOOLEAN
    PROVE  LET t == OnCombined(s, NodeIsOpen(s)[1]) IN Good(t) /\ t.rx.mute = s.rx.mute
  <1> DEFINE b == NodeIsOpen(s)[1]
             r == SetSignalDetected(TIMES[Top], s.sq[Top], b)
             t == OnCombined(s, b)
  <1> SUFFICES Good(t) /\ t.rx.mute = s.rx.mute
    OBVIOUS
  <1>1. b \in BOOLEAN
    BY NodesAreBoolean, NodesFact
  <1>2. TIMES[Top] \in Parameters /\ Silent(s.sq[Top])
    BY NamesFact, LocalRxAssumption DEF Running, Shape
  <1>3. Emits(s.sq[Top], r) /\ r.signal = b
    BY <1>1, <1>2, DetectionEmits
  <1>4. t = TopBecomes(s, r)
    BY DEF OnCombined
  <1> HIDE DEF t, r
  <1>5. Running(t) /\ Apart(s, t) /\ t.sq[Top].signal = b
    BY <1>3, <1>4, TopBecomesOK
  <1>6. \A l \in Leaves : IsOpen(s.sq[l]) = IsOpen(t.sq[l])
    BY <1>5 DEF Apart
  <1>7. NodeIsOpen(t)[1] = b
    BY <1>6, LeavesDecide, NodesFact
  <1> QED BY <1>5, <1>7 DEF Good, Combined, Apart

\* A squelch becomes r: the combining one with the signal it had, or a leaf.
LEMMA BecomesOK ==
    ASSUME NODES[1].op # "not", NEW s, Good(s), low \in BOOLEAN,
           NEW q \in Names, NEW r, Emits(s.sq[q], r), q = Top => r.signal = s.sq[q].signal
    PROVE  LET t == Becomes(s, q, r) IN Good(t) /\ t.rx.mute = s.rx.mute
  <1> DEFINE t == Becomes(s, q, r)
  <1> SUFFICES Good(t) /\ t.rx.mute = s.rx.mute
    OBVIOUS
  <1>1. CASE q = Top
    <2>1. t = TopBecomes(s, r)
      BY <1>1 DEF Becomes
    <2> HIDE DEF t
    <2>2. Running(t) /\ Apart(s, t) /\ t.sq[Top].signal = r.signal
      BY <1>1, <2>1, TopBecomesOK DEF Good
    <2>3. \A l \in Leaves : IsOpen(s.sq[l]) = IsOpen(t.sq[l])
      BY <2>2 DEF Apart
    <2>4. NodeIsOpen(t)[1] = NodeIsOpen(s)[1]
      BY <2>3, LeavesDecide, NodesFact
    <2> QED BY <1>1, <2>2, <2>4 DEF Good, Combined, Apart
  <1>2. CASE q # Top
    <2> DEFINE v == [s EXCEPT !.sq[q] = [r EXCEPT !.out = "none"]]
               x == [v.rx EXCEPT !.told = @ \/ r.out # "none"]
               u == [v EXCEPT !.rx = x]
    <2>1. /\ Shape(v) /\ v.rx = s.rx
          /\ IsOpen(v.sq[q]) = IsOpen(r)
          /\ \A w \in Names : w # q => v.sq[w] = s.sq[w]
      BY ReplacedOK DEF Good, Running, Emits
    <2>2. t = IF r.out = "none" THEN u ELSE OnCombined(u, RootEmits(u, r.out = "open"))
      <3>1. u = [s EXCEPT !.sq[q] = [r EXCEPT !.out = "none"],
                          !.rx.told = @ \/ r.out # "none"]
        BY DEF Good, Running, Shape
      <3> QED BY <1>2, <3>1 DEF Becomes
    <2> HIDE DEF t, v
    <2>3. x \in Receivers
      BY <2>1 DEF Shape, Receivers
    <2>4. /\ x.mute = s.rx.mute /\ x.told = (s.rx.told \/ r.out # "none")
          /\ \A heard : Faithful(s.rx, heard) => Faithful(x, heard)
      BY <2>1 DEF Shape, Receivers, Faithful, Hushed
    <2> HIDE DEF x
    <2>5. Shape(u) /\ u.sq = v.sq /\ u.rx = x
      BY <2>1, <2>3, ReceiverOK
    <2> HIDE DEF u
    <2>6. u.sq[Top] = s.sq[Top] /\ Running(u)
      BY <1>2, <2>1, <2>4, <2>5, NamesFact DEF Good, Running
    <2>7. CASE r.out = "none"
      <3>1. IsOpen(u.sq[q]) = IsOpen(s.sq[q])
        <4>1. IsOpen(u.sq[q]) \in BOOLEAN /\ IsOpen(s.sq[q]) \in BOOLEAN
          BY DEF IsOpen
        <4> QED BY <2>1, <2>5, <2>7, <4>1 DEF Emits
      <3>2. \A l \in Leaves : IsOpen(s.sq[l]) = IsOpen(u.sq[l])
        BY <2>1, <2>5, <3>1, NamesFact
      <3>3. NodeIsOpen(u)[1] = NodeIsOpen(s)[1]
        BY <3>2, LeavesDecide, NodesFact
      <3>4. u.rx.told = s.rx.told
        BY <2>4, <2>5, <2>7 DEF Good, Running, Shape, Receivers
      <3> QED BY <2>2, <2>4, <2>5, <2>6, <2>7, <3>3, <3>4 DEF Good, Combined
    <2>8. CASE r.out # "none"
      <3> DEFINE b == (r.out = "open")
      <3>1. IsOpen(u.sq[q]) = b
        <4>1. r.out \in {"open", "closed"} /\ IsOpen(r) \in BOOLEAN
          BY <2>8 DEF Emits, IsOpen, Squelches, Emissions
        <4> QED BY <2>1, <2>5, <4>1 DEF Emits
      <3>2. RootEmits(u, b) = NodeIsOpen(u)[1]
        <4>1. CASE NODES[1].op = "leaf"
          <5>1. q = NODES[1].leaf
            BY <1>2, <4>1, LocalRxAssumption DEF Names
          <5>2. NodeIsOpen(u)[1] = IsOpen(u.sq[q])
            <6> DEFINE f == NodeIsOpen(u)
            <6> HIDE DEF f
            <6>1. f = [i \in DOMAIN NODES |-> NodeValue(u, f, i)]
              BY NodesAre DEF f
            <6>2. f[1] = NodeValue(u, f, 1)
              BY <6>1, NodesFact
            <6> QED BY <4>1, <5>1, <6>2 DEF f, NodeValue
          <5> QED BY <3>1, <4>1, <5>2, RootEmitsValue
        <4>2. CASE NODES[1].op # "leaf"
          BY <4>2, RootEmitsValue
        <4> QED BY <4>1, <4>2
      <3>3. t = OnCombined(u, NodeIsOpen(u)[1])
        BY <2>2, <2>8, <3>2
      <3> QED BY <2>4, <2>5, <2>6, <3>3, OnCombinedOK
    <2> QED BY <2>7, <2>8
  <1> QED BY <1>1, <1>2

----------------------------------------------------------------------------
(***************************************************************************)
(* A block of samples.                                                     *)
(***************************************************************************)
LEMMA AfterStartFact == ASSUME NEW q \in Squelches, NEW n \in Nat PROVE AfterStart(q, n) \in Nat
  BY DEF AfterStart, Rest, Squelches

\* Each stage finds a squelch that is silent.
LEMMA SilentFact ==
    ASSUME NEW s, Good(s), NEW q \in Names
    PROVE  Silent(s.sq[q]) /\ s.sq[q] \in Squelches /\ TIMES[q] \in Parameters
  BY LocalRxAssumption DEF Good, Running, Shape, Silent

\* A block of a squelch, up to the detector,
LEMMA SamplesBegunOK ==
    ASSUME NODES[1].op # "not", NEW s, Good(s), low \in BOOLEAN, NEW q \in Names, NEW n \in Nat
    PROVE  LET t == SamplesBegun(s, q, n) IN Good(t) /\ t.rx.mute = s.rx.mute
  <1> DEFINE u == Becomes(s, q, TimeoutStage(s.sq[q], n))
  <1>1. Good(u) /\ u.rx.mute = s.rx.mute
    BY SilentFact, StagesEmit, BecomesOK
  <1>2. SamplesBegun(s, q, n) = Becomes(u, q, StartStage(TIMES[q], u.sq[q], n))
    BY DEF SamplesBegun
  <1> HIDE DEF u
  <1> QED BY <1>1, <1>2, SilentFact, StagesEmit, BecomesOK

\* and after it.
LEMMA SamplesEndedOK ==
    ASSUME NODES[1].op # "not", NEW s, Good(s), low \in BOOLEAN, NEW q \in Names, NEW n \in Nat
    PROVE  LET t == SamplesEnded(s, q, n) IN Good(t) /\ t.rx.mute = s.rx.mute
  <1> DEFINE u == Becomes(s, q, DelayStage(TIMES[q], s.sq[q], n))
  <1>1. Good(u) /\ u.rx.mute = s.rx.mute
    BY SilentFact, StagesEmit, BecomesOK
  <1>2. SamplesEnded(s, q, n) = Becomes(u, q, HangStage(TIMES[q], u.sq[q], n))
    BY DEF SamplesEnded
  <1> HIDE DEF u
  <1> QED BY <1>1, <1>2, SilentFact, StagesEmit, BecomesOK

\* A detector looks at what is there.
LEMMA DetectOK ==
    ASSUME NODES[1].op # "not", NEW s, Good(s), low \in BOOLEAN,
           carrier \in [Leaves -> BOOLEAN], NEW l \in Leaves
    PROVE  LET t == Detect(s, l) IN Good(t) /\ t.rx.mute = s.rx.mute
  <1>1. l \in Names /\ l # Top /\ carrier[l] \in BOOLEAN
    BY NamesFact
  <1> QED BY <1>1, SilentFact, DetectionEmits, BecomesOK DEF Detect

\* A block that a leaf processes,
LEMMA LeafSamplesOK ==
    ASSUME NODES[1].op # "not", NEW s, Good(s), low \in BOOLEAN,
           carrier \in [Leaves -> BOOLEAN], NEW l \in Leaves, NEW n \in Nat
    PROVE  LET t == LeafSamples(s, l, n) IN Good(t) /\ t.rx.mute = s.rx.mute
  <1> DEFINE rest == AfterStart(s.sq[l], n)
             t == SamplesBegun(s, l, n)
             u == IF rest = 0 \/ l \in EVENTS THEN t ELSE Detect(t, l)
  <1>1. l \in Names
    BY NamesFact
  <1>2. rest \in Nat
    BY <1>1, SilentFact, AfterStartFact
  <1>3. Good(t) /\ t.rx.mute = s.rx.mute
    BY <1>1, SamplesBegunOK
  <1>4. LeafSamples(s, l, n) = IF t.sq[l].startLeft > 0 THEN t ELSE SamplesEnded(u, l, rest)
    BY DEF LeafSamples
  <1> HIDE DEF t, rest
  <1>5. Good(u) /\ u.rx.mute = s.rx.mute
    BY <1>3, DetectOK
  <1> HIDE DEF u
  <1> QED BY <1>1, <1>2, <1>3, <1>4, <1>5, SamplesEndedOK

\* All leaves, by induction on the leaves that have had the samples.
LEMMA AllLeavesOK ==
    ASSUME NODES[1].op # "not", NEW s, Good(s), low \in BOOLEAN,
           carrier \in [Leaves -> BOOLEAN], NEW n \in Nat
    PROVE  LET t == AllLeavesSamples(s, n) IN Good(t) /\ t.rx.mute = s.rx.mute
  <1> DEFINE m == Len(LEAVES)
             IsAfter(f, j) ==
                 f = [i \in 0 .. j |-> IF i = 0 THEN s ELSE LeafSamples(f[i - 1], LEAVES[i], n)]
             P(j) == \E f : IsAfter(f, j)
             T == {j \in 0 .. m : P(j)}
             after == CHOOSE f : IsAfter(f, m)
             Fine(u) == Good(u) /\ u.rx.mute = s.rx.mute
             U == {j \in 0 .. m : Fine(after[j])}
  <1>1. m \in Nat /\ \A i \in 1 .. m : LEAVES[i] \in Leaves
    BY LocalRxAssumption
  <1>2. AllLeavesSamples(s, n) = after[m]
    BY DEF AllLeavesSamples
  <1> HIDE DEF m
  <1>3. P(0)
    <2> DEFINE f == [i \in 0 .. 0 |-> s]
    <2>1. IsAfter(f, 0)
      OBVIOUS
    <2> QED BY <2>1
  <1>4. ASSUME NEW j \in 0 .. m - 1, P(j) PROVE P(j + 1)
    <2>1. PICK f : IsAfter(f, j)
      BY <1>4
    <2> DEFINE g == [i \in 0 .. j + 1 |->
                       IF i = j + 1 THEN LeafSamples(f[j], LEAVES[i], n) ELSE f[i]]
    <2>2. \A i \in 0 .. j :
            g[i] = f[i] /\ f[i] = IF i = 0 THEN s ELSE LeafSamples(f[i - 1], LEAVES[i], n)
      BY <2>1
    <2>3. g[j + 1] = LeafSamples(g[j], LEAVES[j + 1], n)
      BY <2>2
    <2>4. g = [i \in 0 .. j + 1 |-> g[i]]
      OBVIOUS
    <2> HIDE DEF g
    <2>5. \A i \in 0 .. j + 1 :
            g[i] = IF i = 0 THEN s ELSE LeafSamples(g[i - 1], LEAVES[i], n)
      <3> SUFFICES ASSUME NEW i \in 0 .. j + 1
                   PROVE  g[i] = IF i = 0 THEN s ELSE LeafSamples(g[i - 1], LEAVES[i], n)
        OBVIOUS
      <3>1. CASE i = j + 1
        BY <2>3, <3>1
      <3>2. CASE i \in 0 .. j /\ i = 0
        BY <2>2, <3>2
      <3>3. CASE i \in 0 .. j /\ i # 0
        <4>1. i - 1 \in 0 .. j
          BY <3>3
        <4> QED BY <2>2, <3>3, <4>1
      <3> QED BY <3>1, <3>2, <3>3
    <2>6. IsAfter(g, j + 1)
      BY <2>4, <2>5
    <2> QED BY <2>6
  <1>5. m \in T
    <2> HIDE DEF P
    <2>1. 0 \in T /\ \A j \in 0 .. m - 1 : j \in T => j + 1 \in T
      BY <1>1, <1>3, <1>4
    <2> HIDE DEF T
    <2> QED BY <1>1, <2>1, InductUpTo
  <1>6. IsAfter(after, m)
    <2> HIDE DEF IsAfter
    <2> QED BY <1>5
  <1> HIDE DEF after
  <1>7. after[0] = s /\ \A i \in 1 .. m : after[i] = LeafSamples(after[i - 1], LEAVES[i], n)
    BY <1>1, <1>6
  <1>8. 0 \in U /\ \A j \in 0 .. m - 1 : j \in U => j + 1 \in U
    <2>1. 0 \in U
      BY <1>1, <1>7
    <2>2. ASSUME NEW j \in 0 .. m - 1, j \in U PROVE j + 1 \in U
      <3> DEFINE u == after[j]
                 l == LEAVES[j + 1]
      <3>1. l \in Leaves /\ Fine(u) /\ j + 1 \in 0 .. m
        BY <1>1, <2>2
      <3>2. after[j + 1] = LeafSamples(u, l, n)
        <4>1. j + 1 \in 1 .. m /\ (j + 1) - 1 = j
          BY <1>1
        <4> QED BY <1>7, <4>1
      <3> HIDE DEF u, l
      <3>3. Fine(LeafSamples(u, l, n))
        BY <3>1, LeafSamplesOK
      <3> HIDE DEF Fine
      <3> QED BY <3>1, <3>2, <3>3
    <2> QED BY <2>1, <2>2
  <1>9. m \in U
    <2> HIDE DEF U
    <2> QED BY <1>1, <1>8, InductUpTo
  <1> QED BY <1>2, <1>9

\* and one that the combining squelch processes, with all its leaves.
LEMMA TopSamplesOK ==
    ASSUME NODES[1].op # "not", NEW s, Good(s), low \in BOOLEAN,
           carrier \in [Leaves -> BOOLEAN], NEW n \in Nat
    PROVE  LET t == TopSamples(s, n) IN Good(t) /\ t.rx.mute = s.rx.mute
  <1> DEFINE rest == AfterStart(s.sq[Top], n)
             t == SamplesBegun(s, Top, n)
             u == IF rest = 0 THEN t ELSE AllLeavesSamples(t, rest)
  <1>1. Top \in Names
    BY NamesFact
  <1>2. rest \in Nat
    BY <1>1, SilentFact, AfterStartFact
  <1>3. Good(t) /\ t.rx.mute = s.rx.mute
    BY <1>1, SamplesBegunOK
  <1>4. TopSamples(s, n) = IF t.sq[Top].startLeft > 0 THEN t ELSE SamplesEnded(u, Top, rest)
    BY DEF TopSamples
  <1> HIDE DEF t, rest
  <1>5. Good(u) /\ u.rx.mute = s.rx.mute
    BY <1>2, <1>3, AllLeavesOK
  <1> HIDE DEF u
  <1> QED BY <1>1, <1>2, <1>3, <1>4, <1>5, SamplesEndedOK

----------------------------------------------------------------------------
(***************************************************************************)
(* The actions of the receiver.                                            *)
(***************************************************************************)
ReceiverInv == Good(State) /\ carrier \in [Leaves -> BOOLEAN] /\ low \in BOOLEAN

\* A step of an action that takes over the state s.
LEMMA StepTaken ==
    ASSUME NEW s, Shape(s), Step(s)
    PROVE  State' = s
  BY DEF Step, State, Shape

\* Every squelch becomes another one that is silent.
LEMMA AllReplacedOK ==
    ASSUME NEW s, Shape(s), NEW f \in [Names -> Squelches], \A q \in Names : Silent(f[q])
    PROVE  LET t == [s EXCEPT !.sq = f] IN Shape(t) /\ t.sq = f /\ t.rx = s.rx
  BY DEF Shape

\* After a reset all are closed, and nobody has been told.
LEMMA ResetAllOK ==
    ASSUME NEW s, Shape(s)
    PROVE  LET t == ResetAll(s) IN
           /\ Shape(t) /\ t.rx = [s.rx EXCEPT !.told = FALSE] /\ ~IsOpen(t.sq[Top])
  <1> DEFINE f == [q \in Names |-> Reset(TIMES[q], s.sq[q])]
             x == [s.rx EXCEPT !.told = FALSE]
             u == [s EXCEPT !.sq = f]
             t == ResetAll(s)
  <1> SUFFICES Shape(t) /\ t.rx = x /\ ~IsOpen(t.sq[Top])
    OBVIOUS
  <1>1. \A q \in Names : Silent(f[q]) /\ ~IsOpen(f[q])
    <2> SUFFICES ASSUME NEW q \in Names PROVE Silent(f[q]) /\ ~IsOpen(f[q])
      OBVIOUS
    <2>1. TIMES[q].start \in Nat
      BY LocalRxAssumption DEF Parameters
    <2> QED BY <2>1 DEF Reset, Created, Silent, Squelches, Emissions, IsOpen
  <1>2. f \in [Names -> Squelches]
    BY <1>1 DEF Silent
  <1>3. x \in Receivers
    BY DEF Shape, Receivers
  <1>4. t = [u EXCEPT !.rx = x]
    BY DEF ResetAll, Shape
  <1> HIDE DEF f, x, t
  <1>5. Shape(u) /\ u.sq = f
    BY <1>1, <1>2, AllReplacedOK
  <1> HIDE DEF u
  <1>6. Shape(t) /\ t.sq = f /\ t.rx = x
    BY <1>3, <1>4, <1>5, ReceiverOK
  <1> QED BY <1>1, <1>6, NamesFact

\* A restart changes neither what is open nor a signal.
LEMMA RestartAllOK ==
    ASSUME NEW s, Shape(s)
    PROVE  LET t == RestartAll(s) IN
           /\ Shape(t) /\ t.rx = s.rx
           /\ \A q \in Names : /\ IsOpen(t.sq[q]) = IsOpen(s.sq[q])
                               /\ t.sq[q].signal = s.sq[q].signal
  <1> DEFINE f == [q \in Names |-> Restart(TIMES[q], s.sq[q])]
             t == RestartAll(s)
  <1>1. \A q \in Names : /\ Silent(f[q]) /\ IsOpen(f[q]) = IsOpen(s.sq[q])
                         /\ f[q].signal = s.sq[q].signal
    <2> SUFFICES ASSUME NEW q \in Names
                 PROVE  /\ Silent(f[q]) /\ IsOpen(f[q]) = IsOpen(s.sq[q])
                        /\ f[q].signal = s.sq[q].signal
      OBVIOUS
    <2>1. TIMES[q].start \in Nat /\ Silent(s.sq[q])
      BY LocalRxAssumption DEF Parameters, Shape
    <2> QED BY <2>1 DEF Restart, Silent, Squelches, IsOpen
  <1>2. f \in [Names -> Squelches]
    BY <1>1 DEF Silent
  <1>3. t = [s EXCEPT !.sq = f]
    BY DEF RestartAll
  <1> SUFFICES /\ Shape(t) /\ t.rx = s.rx
               /\ \A q \in Names : /\ IsOpen(t.sq[q]) = IsOpen(s.sq[q])
                                   /\ t.sq[q].signal = s.sq[q].signal
    OBVIOUS
  <1> HIDE DEF f, t
  <1>4. Shape(t) /\ t.sq = f /\ t.rx = s.rx
    BY <1>1, <1>2, <1>3, AllReplacedOK
  <1> QED BY <1>1, <1>4

\* The steps of the receiver, one lemma for each.
LEMMA BlockOK == ASSUME NODES[1].op # "not", ReceiverInv, Block PROVE ReceiverInv'
  <1> DEFINE x == [rx EXCEPT !.idle = FALSE, !.stream = IF rx.valve THEN "ACTIVE" ELSE @]
             s == [State EXCEPT !.rx = x]
             t == TopSamples(s, BLOCK)
  <1>1. Step(t) /\ UNCHANGED <<carrier, low>>
    <2>1. s = [State EXCEPT !.rx.idle = FALSE,
                            !.rx.stream = IF rx.valve THEN "ACTIVE" ELSE @]
      BY DEF State
    <2> QED BY <2>1 DEF Block
  <1>2. State.rx = rx /\ State.sq = sqs /\ Shape(State)
    BY DEF State, ReceiverInv, Good, Running
  <1>3. x \in Receivers /\ x.told = rx.told
    BY <1>2 DEF Shape, Receivers
  <1>4. Faithful(x, IsOpen(sqs[Top]))
    BY <1>2 DEF ReceiverInv, Good, Running, Shape, Receivers, Faithful, Hushed
  <1> HIDE DEF x, t
  <1>5. Shape(s) /\ s.sq = State.sq /\ s.rx = x
    BY <1>2, <1>3, ReceiverOK
  <1> HIDE DEF s
  <1>6. \A l \in Leaves : IsOpen(s.sq[l]) = IsOpen(State.sq[l])
    BY <1>5
  <1>7. NodeIsOpen(s)[1] = NodeIsOpen(State)[1]
    BY <1>6, LeavesDecide, NodesFact
  <1>8. Good(s)
    BY <1>2, <1>3, <1>4, <1>5, <1>7 DEF ReceiverInv, Good, Running, Combined
  <1>9. Good(t)
    BY <1>8, TopSamplesOK, LocalRxAssumption DEF ReceiverInv, t
  <1>10. State' = t
    BY <1>1, <1>9, StepTaken DEF Good, Running
  <1> QED BY <1>1, <1>9, <1>10 DEF ReceiverInv

LEMMA EventOK ==
    ASSUME NODES[1].op # "not", ReceiverInv, NEW l \in Leaves, Event(l)
    PROVE  ReceiverInv'
  <1> DEFINE t == Detect(State, l)
  <1>1. Step(t) /\ UNCHANGED <<carrier, low>>
    BY DEF Event
  <1>2. Good(t)
    BY DetectOK DEF ReceiverInv
  <1> HIDE DEF t
  <1>3. State' = t
    BY <1>1, <1>2, StepTaken DEF Good, Running
  <1> QED BY <1>1, <1>2, <1>3 DEF ReceiverInv

\* The combination is as it was if leaves, signal and history are.
LEMMA CombinedKept ==
    ASSUME NEW s, NEW t, Combined(s), t.rx.told => s.rx.told,
           t.sq[Top].signal = s.sq[Top].signal,
           \A l \in Leaves : IsOpen(s.sq[l]) = IsOpen(t.sq[l])
    PROVE  Combined(t)
  <1>1. NodeIsOpen(s)[1] = NodeIsOpen(t)[1]
    BY LeavesDecide, NodesFact
  <1> QED BY <1>1 DEF Combined

LEMMA OutputFlushedOK == ASSUME ReceiverInv, OutputFlushed PROVE ReceiverInv'
  <1>1. State.rx = rx /\ State.sq = sqs /\ Shape(State) /\ State'.rx = rx' /\ State'.sq = sqs'
    BY DEF State, ReceiverInv, Good, Running
  <1>2. /\ rx' = [rx EXCEPT !.stream = "IDLE", !.idle = TRUE, !.reported = @ /\ IsOpen(sqs[Top])]
        /\ sqs' = sqs /\ carrier' = carrier /\ low' = low
    BY DEF OutputFlushed
  <1>3. IsOpen(sqs[Top]) \in BOOLEAN
    BY DEF IsOpen
  <1>4. rx' \in Receivers /\ rx'.told = rx.told
    BY <1>1, <1>2, <1>3 DEF Shape, Receivers
  <1>5. Faithful(rx', IsOpen(sqs[Top]))
    BY <1>1, <1>2, <1>3 DEF ReceiverInv, Good, Running, Shape, Receivers, Faithful, Hushed
  <1>6. State' = [State EXCEPT !.rx = rx']
    BY <1>2 DEF State
  <1>7. Shape(State')
    BY <1>1, <1>4, <1>6, ReceiverOK
  <1>8. Combined(State')
    BY <1>1, <1>2, <1>4, CombinedKept DEF ReceiverInv, Good
  <1> QED BY <1>1, <1>2, <1>5, <1>7, <1>8 DEF ReceiverInv, Good, Running

LEMMA SignalLevelUpdatedOK == ASSUME ReceiverInv, SignalLevelUpdated PROVE ReceiverInv'
  <1> DEFINE t == SetSqlHangtimeFromSiglev(State, low')
  <1>1. Step(t) /\ low' \in BOOLEAN /\ carrier' = carrier
    BY DEF SignalLevelUpdated, ReceiverInv
  <1>2. /\ Shape(t) /\ t.rx = State.rx
        /\ IsOpen(t.sq[Top]) = IsOpen(State.sq[Top]) /\ t.sq[Top].signal = State.sq[Top].signal
        /\ \A l \in Leaves : t.sq[l] = State.sq[l]
    BY <1>1, HangtimeOK DEF ReceiverInv, Good, Running
  <1> HIDE DEF t
  <1>3. Good(t)
    <2>1. \A l \in Leaves : IsOpen(State.sq[l]) = IsOpen(t.sq[l])
      BY <1>2
    <2>2. Combined(t)
      BY <1>2, <2>1, CombinedKept DEF ReceiverInv, Good
    <2> QED BY <1>2, <2>2 DEF ReceiverInv, Good, Running
  <1>4. State' = t
    BY <1>1, <1>2, StepTaken
  <1> QED BY <1>1, <1>3, <1>4 DEF ReceiverInv

\* Nothing is told after a reset, so the squelch that is closed then is handed down.
LEMMA NotReadyOK == ASSUME ReceiverInv, NotReady PROVE ReceiverInv'
  <1> DEFINE u == ResetAll(State)
             v == SetSqlHangtimeFromSiglev(u, low')
             t == OnSquelchOpen(v, FALSE)
  <1>1. Step(t) /\ low' \in BOOLEAN /\ carrier' = carrier
    BY DEF NotReady
  <1>2. Shape(u) /\ u.rx = [State.rx EXCEPT !.told = FALSE] /\ ~IsOpen(u.sq[Top])
    BY ResetAllOK DEF ReceiverInv, Good, Running
  <1> HIDE DEF u
  <1>3. Shape(v) /\ v.rx = u.rx /\ IsOpen(v.sq[Top]) = IsOpen(u.sq[Top])
    BY <1>1, <1>2, HangtimeOK
  <1>4. Hushed(v.rx) /\ ~v.rx.told
    BY <1>2, <1>3 DEF ReceiverInv, Good, Running, Faithful, Hushed, Shape, Receivers
  <1>5. IsOpen(v.sq[Top]) = FALSE
    <2>1. IsOpen(v.sq[Top]) \in BOOLEAN
      BY DEF IsOpen
    <2> QED BY <1>2, <1>3, <2>1
  <1> HIDE DEF v
  <1>6. Running(t) /\ Apart(v, t)
    BY <1>3, <1>4, <1>5, OnSquelchOpenOK DEF ReceiverInv
  <1> HIDE DEF t
  <1>7. Good(t)
    BY <1>4, <1>6 DEF Good, Combined, Apart
  <1>8. State' = t
    BY <1>1, <1>6, StepTaken DEF Running
  <1> QED BY <1>1, <1>7, <1>8 DEF ReceiverInv

LEMMA CarrierChangesOK == ASSUME ReceiverInv, NEW l \in Leaves, CarrierChanges(l) PROVE ReceiverInv'
  <1>1. State' = State /\ low' = low
    BY DEF CarrierChanges, State
  <1>2. carrier' \in [Leaves -> BOOLEAN]
    BY DEF CarrierChanges, ReceiverInv
  <1> QED BY <1>1, <1>2 DEF ReceiverInv

----------------------------------------------------------------------------
(***************************************************************************)
(* Muting.  The mute state is entered at the end of its steps; what a step *)
(* makes of the receiver fits the next state.                              *)
(***************************************************************************)
Entered(s, to) == [s EXCEPT !.rx.mute = to]

\* The state s is entered with the mute state to.
Enters(s, to) ==
    /\ Shape(s) /\ Combined(s)
    /\ Faithful([s.rx EXCEPT !.mute = to], IsOpen(s.sq[Top]))

LEMMA EnteredOK ==
    ASSUME NEW s, NEW to \in MuteStates, Enters(s, to)
    PROVE  Good(Entered(s, to))
  <1> DEFINE x == [s.rx EXCEPT !.mute = to]
             t == Entered(s, to)
  <1> SUFFICES Good(t)
    OBVIOUS
  <1>1. x \in Receivers /\ x.told = s.rx.told
    BY DEF Enters, Shape, Receivers
  <1>2. t = [s EXCEPT !.rx = x]
    BY DEF Entered, Enters, Shape
  <1>3. Faithful(x, IsOpen(s.sq[Top]))
    BY DEF Enters
  <1> HIDE DEF x, t
  <1>4. Shape(t) /\ t.sq = s.sq /\ t.rx = x
    BY <1>1, <1>2, ReceiverOK DEF Enters
  <1>5. Combined(t)
    BY <1>1, <1>4, CombinedKept DEF Enters
  <1> QED BY <1>3, <1>4, <1>5 DEF Good, Running

\* From MUTE_NONE to MUTE_CONTENT the valve closes and flushes.
LEMMA MuteContentOK ==
    ASSUME NEW s, Good(s), s.rx.mute = "NONE"
    PROVE  Enters(MuteContent(s), "CONTENT")
  <1> DEFINE x == [s.rx EXCEPT !.valve = FALSE, !.stream = IF s.rx.idle THEN @ ELSE "FLUSHING"]
             t == MuteContent(s)
  <1> SUFFICES Enters(t, "CONTENT")
    OBVIOUS
  <1>1. CASE ~s.rx.valve
    <2>1. t = s
      BY <1>1 DEF MuteContent, CloseValve
    <2> HIDE DEF t
    <2>2. Faithful([s.rx EXCEPT !.mute = "CONTENT"], IsOpen(s.sq[Top]))
      BY <1>1 DEF Good, Running, Faithful, Hushed, Shape, Receivers
    <2> QED BY <2>1, <2>2 DEF Enters, Good, Running
  <1>2. CASE s.rx.valve
    <2>1. t = [s EXCEPT !.rx = x]
      BY <1>2 DEF MuteContent, CloseValve, Good, Running, Shape
    <2>2. x \in Receivers /\ x.told = s.rx.told
      BY DEF Good, Running, Shape, Receivers
    <2>3. Faithful([x EXCEPT !.mute = "CONTENT"], IsOpen(s.sq[Top]))
      BY <1>2 DEF Good, Running, Faithful, Hushed, Shape, Receivers
    <2> HIDE DEF x, t
    <2>4. Shape(t) /\ t.sq = s.sq /\ t.rx = x
      BY <2>1, <2>2, ReceiverOK DEF Good, Running
    <2>5. Combined(t)
      BY <2>2, <2>4, CombinedKept DEF Good
    <2> QED BY <2>3, <2>4, <2>5 DEF Enters
  <1> QED BY <1>1, <1>2

\* To MUTE_ALL, from MUTE_CONTENT or from what the step before has made.
LEMMA MuteAllOK ==
    ASSUME NEW s, Shape(s), ~s.rx.valve
    PROVE  Enters(MuteAll(s), "ALL")
  <1> DEFINE u == ResetAll(s)
             x == [u.rx EXCEPT !.reported = FALSE, !.idle = TRUE, !.slipped = FALSE]
             t == MuteAll(s)
  <1> SUFFICES Enters(t, "ALL")
    OBVIOUS
  <1>1. Shape(u) /\ u.rx = [s.rx EXCEPT !.told = FALSE] /\ ~IsOpen(u.sq[Top])
    BY ResetAllOK
  <1>2. t = [u EXCEPT !.rx = x]
    <2>1. t = [u EXCEPT !.rx.reported = FALSE, !.rx.idle = TRUE, !.rx.slipped = FALSE]
      BY DEF MuteAll
    <2> HIDE DEF t, u
    <2> QED BY <1>1, <2>1 DEF Shape
  <1> HIDE DEF u, t
  <1>3. x \in Receivers /\ ~x.told /\ ~x.valve /\ ~x.reported /\ ~x.slipped
    BY <1>1 DEF Shape, Receivers
  <1>4. Shape(t) /\ t.sq = u.sq /\ t.rx = x
    <2> HIDE DEF x
    <2> QED BY <1>1, <1>2, <1>3, ReceiverOK
  <1> HIDE DEF x
  <1>5. Combined(t)
    BY <1>3, <1>4 DEF Combined
  <1>6. Faithful([x EXCEPT !.mute = "ALL"], FALSE)
    BY <1>3 DEF Faithful, Hushed, Receivers
  <1>7. IsOpen(t.sq[Top]) = FALSE
    <2>1. IsOpen(t.sq[Top]) \in BOOLEAN
      BY DEF IsOpen
    <2> QED BY <1>1, <1>4, <2>1
  <1> QED BY <1>4, <1>5, <1>6, <1>7 DEF Enters

\* Back to MUTE_CONTENT the squelches are restarted.
LEMMA UnmuteContentOK ==
    ASSUME NEW s, Good(s), s.rx.mute = "ALL"
    PROVE  Enters(UnmuteContent(s), "CONTENT")
  <1> DEFINE t == UnmuteContent(s)
  <1> SUFFICES Enters(t, "CONTENT")
    OBVIOUS
  <1>1. /\ Shape(t) /\ t.rx = s.rx
        /\ \A q \in Names : IsOpen(t.sq[q]) = IsOpen(s.sq[q]) /\ t.sq[q].signal = s.sq[q].signal
    BY RestartAllOK DEF UnmuteContent, Good, Running
  <1> HIDE DEF t
  <1>2. Combined(t)
    BY <1>1, NamesFact, CombinedKept DEF Good
  <1>3. Faithful([s.rx EXCEPT !.mute = "CONTENT"], IsOpen(s.sq[Top]))
    BY DEF Good, Running, Faithful, Hushed, Shape, Receivers
  <1> QED BY <1>1, <1>2, <1>3, NamesFact DEF Enters

\* Back to MUTE_NONE the valve opens if the squelch is reported open.
LEMMA UnmuteNoneOK ==
    ASSUME NEW s, Enters(s, "CONTENT")
    PROVE  Enters(UnmuteNone(s), "NONE")
  <1> DEFINE x == [s.rx EXCEPT !.valve = @ \/ s.rx.reported,
                               !.slipped = @ \/ (s.rx.reported /\ ~IsOpen(s.sq[Top]))]
             t == UnmuteNone(s)
  <1> SUFFICES Enters(t, "NONE")
    OBVIOUS
  <1>1. IsOpen(s.sq[Top]) \in BOOLEAN
    BY DEF IsOpen
  <1>2. t = [s EXCEPT !.rx = x]
    BY DEF UnmuteNone, Enters, Shape
  <1>3. x \in Receivers /\ x.told = s.rx.told
    BY <1>1 DEF Enters, Shape, Receivers
  <1>4. Faithful([x EXCEPT !.mute = "NONE"], IsOpen(s.sq[Top]))
    BY <1>1 DEF Enters, Faithful, Hushed, Shape, Receivers
  <1> HIDE DEF x, t
  <1>5. Shape(t) /\ t.sq = s.sq /\ t.rx = x
    BY <1>2, <1>3, ReceiverOK DEF Enters
  <1>6. Combined(t)
    BY <1>3, <1>5, CombinedKept DEF Enters
  <1> QED BY <1>4, <1>5, <1>6 DEF Enters

\* Each change of the mute state enters the new one.
LEMMA MutedOK ==
    ASSUME NEW s, Good(s), NEW to \in MuteStates, to # s.rx.mute
    PROVE  Enters(Muted(s, s.rx.mute, to), to)
  <1>1. s.rx.mute \in MuteStates
    BY DEF Good, Running, Shape, Receivers
  <1>2. CASE s.rx.mute = "NONE" /\ to = "CONTENT"
    <2>1. Muted(s, s.rx.mute, to) = MuteContent(s)
      BY <1>2 DEF Muted
    <2> QED BY <1>2, <2>1, MuteContentOK
  <1>3. CASE s.rx.mute = "NONE" /\ to = "ALL"
    <2> DEFINE u == MuteContent(s)
    <2>1. Muted(s, s.rx.mute, to) = MuteAll(u)
      BY <1>3 DEF Muted
    <2>2. Enters(u, "CONTENT")
      BY <1>3, MuteContentOK
    <2> HIDE DEF u
    <2>3. Shape(u) /\ ~u.rx.valve
      BY <2>2 DEF Enters, Faithful, Hushed, Shape, Receivers
    <2> QED BY <1>3, <2>1, <2>3, MuteAllOK
  <1>4. CASE s.rx.mute = "CONTENT" /\ to = "ALL"
    <2>1. Muted(s, s.rx.mute, to) = MuteAll(s)
      BY <1>4 DEF Muted
    <2>2. Shape(s) /\ ~s.rx.valve
      BY <1>4 DEF Good, Running, Faithful, Hushed
    <2> QED BY <1>4, <2>1, <2>2, MuteAllOK
  <1>5. CASE s.rx.mute = "ALL" /\ to = "CONTENT"
    <2>1. Muted(s, s.rx.mute, to) = UnmuteContent(s)
      BY <1>5 DEF Muted
    <2> QED BY <1>5, <2>1, UnmuteContentOK
  <1>6. CASE s.rx.mute = "ALL" /\ to = "NONE"
    <2>1. Muted(s, s.rx.mute, to) = UnmuteNone(UnmuteContent(s))
      BY <1>6 DEF Muted
    <2>2. Enters(UnmuteContent(s), "CONTENT")
      BY <1>6, UnmuteContentOK
    <2> QED BY <1>6, <2>1, <2>2, UnmuteNoneOK
  <1>7. CASE s.rx.mute = "CONTENT" /\ to = "NONE"
    <2>1. Muted(s, s.rx.mute, to) = UnmuteNone(s)
      BY <1>7 DEF Muted
    <2>2. [s.rx EXCEPT !.mute = "CONTENT"] = s.rx
      BY <1>7 DEF Good, Running, Shape, Receivers
    <2>3. Enters(s, "CONTENT")
      BY <2>2 DEF Enters, Good, Running
    <2> QED BY <1>7, <2>1, <2>3, UnmuteNoneOK
  <1> QED BY <1>1, <1>2, <1>3, <1>4, <1>5, <1>6, <1>7 DEF MuteStates

LEMMA SetMuteStateOK ==
    ASSUME ReceiverInv, NEW to \in MUTES, SetMuteState(to)
    PROVE  ReceiverInv'
  <1> DEFINE s == Muted(State, rx.mute, to)
             t == Entered(s, to)
  <1>1. Step(t) /\ UNCHANGED <<carrier, low>> /\ to # rx.mute /\ State.rx = rx
    BY DEF SetMuteState, Entered, State
  <1>2. to \in MuteStates
    BY LocalRxAssumption
  <1>3. Good(t)
    BY <1>1, <1>2, MutedOK, EnteredOK DEF ReceiverInv
  <1> HIDE DEF t
  <1>4. State' = t
    BY <1>1, <1>3, StepTaken DEF Good, Running
  <1> QED BY <1>1, <1>3, <1>4 DEF ReceiverInv

----------------------------------------------------------------------------
(***************************************************************************)
(* The theorem.                                                            *)
(***************************************************************************)
LEMMA InitOK == Init => ReceiverInv
  <1> SUFFICES ASSUME Init PROVE ReceiverInv
    OBVIOUS
  <1>1. Silent(Created) /\ ~IsOpen(Created)
    BY DEF Silent, Created, Squelches, Emissions, IsOpen
  <1>2. State.sq = [q \in Names |-> Created] /\ State.rx = rx
    BY DEF Init, State
  <1>3. rx \in Receivers /\ ~rx.told
    BY DEF Init, Receivers, MuteStates
  <1>4. Shape(State)
    BY <1>1, <1>2, <1>3 DEF Shape, State, Silent
  <1>5. Faithful(rx, FALSE)
    BY DEF Init, Faithful, Hushed
  <1>6. IsOpen(State.sq[Top]) = FALSE
    <2>1. IsOpen(State.sq[Top]) \in BOOLEAN
      BY DEF IsOpen
    <2>2. State.sq[Top] = Created
      BY <1>2, NamesFact
    <2> QED BY <1>1, <2>1, <2>2
  <1> QED BY <1>2, <1>3, <1>4, <1>5, <1>6 DEF Init, ReceiverInv, Good, Running, Combined

\* Every step keeps the invariant.
LEMMA NextOK == ASSUME NODES[1].op # "not", ReceiverInv, Next PROVE ReceiverInv'
  <1>1. CASE Block
    BY <1>1, BlockOK
  <1>2. CASE OutputFlushed
    BY <1>2, OutputFlushedOK
  <1>3. CASE NotReady
    BY <1>3, NotReadyOK
  <1>4. CASE SignalLevelUpdated
    BY <1>4, SignalLevelUpdatedOK
  <1>5. ASSUME NEW l \in Leaves, Event(l) \/ CarrierChanges(l) PROVE ReceiverInv'
    BY <1>5, EventOK, CarrierChangesOK
  <1>6. ASSUME NEW to \in MUTES, SetMuteState(to) PROVE ReceiverInv'
    BY <1>6, SetMuteStateOK
  <1> QED BY <1>1, <1>2, <1>3, <1>4, <1>5, <1>6 DEF Next

\* The invariant implies the property.
LEMMA InvGivesSound == ReceiverInv => ReceiverSound
  <1> SUFFICES ASSUME ReceiverInv PROVE ReceiverSound
    OBVIOUS
  <1>1. State.rx = rx /\ State.sq = sqs
    BY DEF State
  <1>2. TypeOK
    BY <1>1 DEF ReceiverInv, Good, Running, Shape, Silent, TypeOK
  <1>3. CombinedFollows
    BY <1>1 DEF ReceiverInv, Good, Combined, CombinedFollows
  <1>4. ReceiverFollows
    <2>1. Faithful(rx, Heard)
      BY <1>1 DEF ReceiverInv, Good, Running, Heard
    <2> QED BY <1>2, <2>1 DEF Faithful, Hushed, ReceiverFollows, TypeOK, Receivers
  <1> QED BY <1>2, <1>3, <1>4 DEF ReceiverSound

\* The squelch of a receiver follows its expression, whose root is not a negation, and the
\* receiver follows its squelch, whatever the expression, the times, the blocks and the
\* order of events, muting and flushes (LocalRxBase.cpp, SquelchCombine.cpp).
THEOREM ReceiverAlwaysSound ==
    ASSUME NODES[1].op # "not"
    PROVE  Spec => []ReceiverSound
  <1>1. Init => ReceiverInv
    BY InitOK
  <1>2. ReceiverInv /\ [Next]_vars => ReceiverInv'
    <2>1. ASSUME ReceiverInv, UNCHANGED vars PROVE ReceiverInv'
      <3>1. State' = State /\ carrier' = carrier /\ low' = low
        BY <2>1 DEF vars, State
      <3> QED BY <2>1, <3>1 DEF ReceiverInv
    <2> QED BY <2>1, NextOK
  <1>3. ReceiverInv => ReceiverSound
    BY InvGivesSound
  <1> QED BY <1>1, <1>2, <1>3, PTL DEF Spec
=============================================================================
